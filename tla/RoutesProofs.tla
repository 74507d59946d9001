---------------------------- MODULE RoutesProofs ----------------------------
(***************************************************************************)
(* Theorems about Routes, for any set of callers, any number of channels,  *)
(* messages and upgrades, and a queue of commands of any length.           *)
(***************************************************************************)
EXTENDS Routes, SequenceTheorems, FiniteSetTheorems,
        WellFoundedInduction, TLAPS

-----------------------------------------------------------------------------
(* Oneshots and maps of them.                                              *)

(* Removing some routes removes their callers, and those only.             *)
LEMMA Removed ==
    ASSUME NEW map, NEW some \in SUBSET map, OneEach(map)
    PROVE  /\ OneEach(map \ some)
           /\ \A k : k \in Holders(map \ some) <=> k \in Holders(map) /\ k \notin Holders(some)
  BY DEF OneEach, Holders

(* A route of a caller who has none adds that caller.                      *)
LEMMA Added ==
    ASSUME NEW map, NEW r, OneEach(map), r.k \notin Holders(map)
    PROVE  /\ OneEach(map \cup {r})
           /\ \A k : k \in Holders(map \cup {r}) <=> k \in Holders(map) \/ k = r.k
  BY DEF OneEach, Holders

(* No routes, no callers.                                                  *)
LEMMA NoRoutes == OneEach({}) /\ \A k : k \notin Holders({})
  BY DEF OneEach, Holders

(* HashMap::insert.                                                        *)
LEMMA Inserted ==
    ASSUME NEW map \in SUBSET Routing, NEW n \in Nat, NEW k \in Callers,
           OneEach(map), k \notin Holders(map)
    PROVE  /\ Insert(map, n, k) \subseteq Routing /\ OneEach(Insert(map, n, k))
           /\ \A j : j \in Holders(Insert(map, n, k))
                       <=> j = k \/ (j \in Holders(map) /\ j \notin Holders(At(map, n)))
           /\ \A r \in Insert(map, n, k) : r \in map \/ r.n = n
  <1> DEFINE r == [n |-> n, k |-> k]
  <1>1. At(map, n) \in SUBSET map
    BY DEF At
  <1>2. /\ OneEach(map \ At(map, n))
        /\ \A j : j \in Holders(map \ At(map, n))
                    <=> j \in Holders(map) /\ j \notin Holders(At(map, n))
    BY <1>1, Removed
  <1>3. r.k = k /\ r.n = n /\ r \in Routing
    BY DEF Routing
  <1>4. r.k \notin Holders(map \ At(map, n))
    BY <1>2, <1>3
  <1> HIDE DEF r
  <1>5. /\ OneEach((map \ At(map, n)) \cup {r})
        /\ \A j : j \in Holders((map \ At(map, n)) \cup {r})
                    <=> j \in Holders(map \ At(map, n)) \/ j = r.k
    BY <1>2, <1>4, Added
  <1>6. Insert(map, n, k) = (map \ At(map, n)) \cup {r}
    BY DEF Insert, Without, r
  <1> QED
    BY <1>2, <1>3, <1>5, <1>6

(* HashMap::remove.                                                        *)
LEMMA Dismissed ==
    ASSUME NEW map \in SUBSET Routing, NEW n, OneEach(map)
    PROVE  /\ Without(map, n) \subseteq map /\ OneEach(Without(map, n))
           /\ \A k : k \in Holders(Without(map, n))
                       <=> k \in Holders(map) /\ k \notin Holders(At(map, n))
           /\ \A r \in Without(map, n) : r.n # n
  <1>1. At(map, n) \in SUBSET map /\ Without(map, n) = map \ At(map, n)
    BY DEF At, Without
  <1>2. \A r \in map \ At(map, n) : r.n # n
    BY DEF At
  <1>3. /\ OneEach(map \ At(map, n))
        /\ \A k : k \in Holders(map \ At(map, n))
                    <=> k \in Holders(map) /\ k \notin Holders(At(map, n))
    BY <1>1, Removed
  <1> QED
    BY <1>1, <1>2, <1>3

(* Some callers are told.                                                  *)
LEMMA Telling ==
    ASSUME calls \in [Callers -> CallStates], FromSelf, NEW ks, NEW result \in Results,
           Tell(ks, result)
    PROVE  /\ calls' \in [Callers -> CallStates] /\ FromSelf'
           /\ \A k \in Callers : Waiting(k)' <=> Waiting(k) /\ k \notin ks
  <1>1. /\ calls' \in [Callers -> CallStates]
        /\ \A k \in Callers : calls'[k] = IF k \in ks THEN [calls[k] EXCEPT !.told = result]
                                          ELSE calls[k]
    BY DEF Tell, CallStates
  <1>2. ASSUME NEW k \in Callers
        PROVE  /\ calls'[k].from = calls[k].from
               /\ calls'[k].told = IF k \in ks THEN result ELSE calls[k].told
    BY <1>1 DEF CallStates
  <1>3. result # "waiting"
    BY DEF Results
  <1> QED
    BY <1>1, <1>2, <1>3 DEF FromSelf, Waiting

(* A command joins the queue.                                              *)
LEMMA Enqueued ==
    ASSUME TypeOK, Single, NEW c \in CommandsOf, commands' = Append(commands, c),
           c.k \notin Queued
    PROVE  /\ commands' \in Seq(CommandsOf)
           /\ \A k : k \in Queued' <=> k \in Queued \/ k = c.k
           /\ \A i, j \in 1 .. Len(commands') : commands'[i].k = commands'[j].k => i = j
  <1>1. /\ commands' \in Seq(CommandsOf) /\ Len(commands') = Len(commands) + 1
        /\ commands'[Len(commands) + 1] = c /\ Len(commands) \in Nat
        /\ \A i \in 1 .. Len(commands) : commands'[i] = commands[i]
    BY AppendProperties, LenProperties DEF TypeOK
  <1>2. \A i \in 1 .. Len(commands') : \/ i \in 1 .. Len(commands) /\ commands'[i] = commands[i]
                                       \/ i = Len(commands) + 1 /\ commands'[i] = c
    BY <1>1
  <1>3. ASSUME NEW k PROVE k \in Queued' <=> k \in Queued \/ k = c.k
    <2>1. ASSUME k \in Queued' PROVE k \in Queued \/ k = c.k
      BY <1>2, <2>1 DEF Queued
    <2>2. ASSUME k \in Queued PROVE k \in Queued'
      <3>1. PICK i \in 1 .. Len(commands) : k = commands[i].k
        BY <2>2 DEF Queued
      <3>2. i \in 1 .. Len(commands') /\ commands'[i] = commands[i]
        BY <1>1
      <3> QED
        BY <3>1, <3>2 DEF Queued
    <2>3. c.k \in Queued'
      <3>1. Len(commands) + 1 \in 1 .. Len(commands')
        BY <1>1
      <3> QED
        BY <1>1, <3>1 DEF Queued
    <2> QED
      BY <2>1, <2>2, <2>3
  <1>4. ASSUME NEW i \in 1 .. Len(commands'), NEW j \in 1 .. Len(commands'),
               commands'[i].k = commands'[j].k
        PROVE  i = j
    BY <1>2, <1>4 DEF Single, Queued
  <1> QED
    BY <1>1, <1>3, <1>4

(* The driver takes the oldest command.                                    *)
LEMMA Dequeued ==
    ASSUME TypeOK, Single, commands # << >>, commands' = Tail(commands)
    PROVE  /\ commands' \in Seq(CommandsOf) /\ Command \in CommandsOf
           /\ Command.k \in Queued
           /\ \A k : k \in Queued' <=> k \in Queued /\ k # Command.k
           /\ \A i, j \in 1 .. Len(commands') : commands'[i].k = commands'[j].k => i = j
  <1>1. /\ commands' \in Seq(CommandsOf) /\ Len(commands') = Len(commands) - 1
        /\ Head(commands) \in CommandsOf
        /\ \A i \in 1 .. Len(commands') : commands'[i] = commands[i + 1]
    BY HeadTailProperties DEF TypeOK
  <1>2. Len(commands) \in Nat \ {0} /\ Head(commands) = commands[1]
    BY EmptySeq DEF TypeOK
  <1>3. 1 \in 1 .. Len(commands)
    BY <1>2
  <1>4. Command.k \in Queued
    BY <1>2, <1>3 DEF Command, Queued
  <1>5. \A i \in 1 .. Len(commands') : /\ i + 1 \in 1 .. Len(commands) /\ i + 1 # 1
                                       /\ commands'[i] = commands[i + 1]
    BY <1>1, <1>2
  <1>6. \A i \in 1 .. Len(commands) : i # 1 =>
          i - 1 \in 1 .. Len(commands') /\ commands'[i - 1] = commands[i]
    <2> SUFFICES ASSUME NEW i \in 1 .. Len(commands), i # 1
                 PROVE  i - 1 \in 1 .. Len(commands') /\ commands'[i - 1] = commands[i]
      OBVIOUS
    <2>1. PICK j \in 1 .. Len(commands') : j = i - 1 /\ j + 1 = i
      BY <1>1, <1>2
    <2> QED
      BY <1>1, <2>1
  <1>7. ASSUME NEW k PROVE k \in Queued' <=> k \in Queued /\ k # Command.k
    <2>1. ASSUME k \in Queued' PROVE k \in Queued /\ k # Command.k
      <3>1. PICK i \in 1 .. Len(commands') : k = commands'[i].k
        BY <2>1 DEF Queued
      <3>2. PICK j \in 1 .. Len(commands) : j # 1 /\ commands'[i] = commands[j]
        BY <1>5
      <3> QED
        BY <1>2, <1>3, <3>1, <3>2 DEF Queued, Single, Command
    <2>2. ASSUME k \in Queued, k # Command.k PROVE k \in Queued'
      <3>1. PICK i \in 1 .. Len(commands) : k = commands[i].k
        BY <2>2 DEF Queued
      <3>2. i # 1
        BY <1>2, <2>2, <3>1 DEF Command
      <3>3. PICK j \in 1 .. Len(commands') : commands'[j] = commands[i]
        BY <1>6, <3>2
      <3> QED
        BY <3>1, <3>3 DEF Queued
    <2> QED
      BY <2>1, <2>2
  <1>8. ASSUME NEW i \in 1 .. Len(commands'), NEW j \in 1 .. Len(commands'),
               commands'[i].k = commands'[j].k
        PROVE  i = j
    <2>1. i + 1 = j + 1
      BY <1>5, <1>8 DEF Single
    <2> QED
      BY <2>1
  <1> QED
    BY <1>1, <1>4, <1>7, <1>8 DEF Command

-----------------------------------------------------------------------------
(* Numbers of channels and of messages.                                    *)

(* The two ends of a session give out numbers of different parity.         *)
LEMMA Parity ==
    /\ 1 \in Odd /\ 2 \in Nat \ Odd /\ Odd \subseteq Nat
    /\ \A n \in Odd : n + 2 \in Odd
    /\ \A n \in Nat \ Odd : n + 2 \in Nat \ Odd
  BY DEF Odd

(* Channel::allocate_msgno finds a number that is not in use, if there is  *)
(* one.                                                                    *)
LEMMA Allocates ==
    ASSUME NEW c \in Channels, ~(MsgNos \subseteq c.used)
    PROVE  AllocateMsgNo(c) \in MsgNos \ c.used
  <1> DEFINE free == MsgNos \ c.used
             far(m) == (m + MaxMsgNo + 1 - c.next) % (MaxMsgNo + 1)
             Distances == {far(m) : m \in free}
  <1>1. MaxMsgNo \in Nat /\ c.next \in 0 .. MaxMsgNo
    BY RoutesAssumption DEF Channels, MsgNos
  <1>2. \A m \in free : far(m) \in Nat
    BY <1>1 DEF MsgNos
  <1>3. Distances \subseteq Nat /\ Distances # {}
    BY <1>2
  <1>4. PICK d \in Distances : \A b \in Distances : ~(<<b, d>> \in OpToRel(<, Nat))
    BY <1>3, NatLessThanWellFounded, WFMin
  <1>5. PICK m \in free : d = far(m)
    BY <1>4
  <1>6. \A l \in free : far(m) <= far(l)
    <2>1. \A a, b \in Nat : a < b => <<a, b>> \in OpToRel(<, Nat)
      BY DEF OpToRel
    <2> SUFFICES ASSUME NEW l \in free
                 PROVE  far(m) <= far(l)
      OBVIOUS
    <2>2. PICK b \in Distances : b = far(l)
      OBVIOUS
    <2>3. b \in Nat /\ d \in Nat
      BY <1>3
    <2>4. ~(b < d)
      BY <1>4, <2>1, <2>3
    <2> HIDE DEF far
    <2> QED
      BY <1>5, <2>2, <2>3, <2>4
  <1> QED
    BY <1>5, <1>6 DEF AllocateMsgNo

-----------------------------------------------------------------------------
(* The invariant, one action after another. Half of it is about oneshots   *)
(* and half about the session.                                             *)

(* A caller's oneshot is where it was, or has been completed.              *)
LEMMA KeptWhenTold ==
    ASSUME RoutesInv, NEW ks,
           \A k \in Callers : Waiting(k)' <=> Waiting(k) /\ k \notin ks,
           \A k \in Callers : k \in Queued' <=> k \in Queued /\ k \notin ks,
           \A k \in Callers : k \in Holders(opens)' <=> k \in Holders(opens) /\ k \notin ks,
           \A k \in Callers : k \in Holders(closes)' <=> k \in Holders(closes) /\ k \notin ks,
           \A k \in Callers : k \in session_close' <=> k \in session_close /\ k \notin ks,
           \A k \in Callers : k \in Holders(requests)'
                                  <=> k \in Holders(requests) /\ k \notin ks,
           \A k \in Callers : k \in ready' <=> k \in ready /\ k \notin ks
    PROVE  Apart'
  <1> SUFFICES ASSUME NEW k \in Callers
               PROVE  Kept(k)'
    BY DEF Apart
  <1>1. Kept(k)
    BY DEF RoutesInv, Apart
  <1> QED
    BY <1>1 DEF Kept, Routed

(* Nothing of the session changes, nor what waits for it.                  *)
LEMMA SessionKept ==
    ASSUME RoutesInv, UNCHANGED <<session, requests, ready, peer>>,
           opens' \subseteq opens, closes' \subseteq closes
    PROVE  NumbersGiven' /\ AskedOpen' /\ RoutesBacked'
  <1>1. UNCHANGED <<state, channels, next_channel, pending, asked, peer_channel>>
    BY DEF session, peer
  <1>2. NumbersGiven'
    BY <1>1 DEF RoutesInv, NumbersGiven, Given
  <1>3. AskedOpen'
    BY <1>1 DEF RoutesInv, AskedOpen
  <1>4. RoutesBacked'
    BY <1>1 DEF RoutesInv, RoutesBacked, Stranded
  <1> QED
    BY <1>2, <1>3, <1>4

(* Nobody waits, and nothing is open.                                      *)
LEMMA InitInv == Init => RoutesInv
  <1> SUFFICES ASSUME Init
               PROVE  RoutesInv
    OBVIOUS
  <1>1. calls \in [Callers -> CallStates] /\ FromSelf /\ \A k \in Callers : ~Waiting(k)
    BY DEF Init, CallStates, FromSelf, Waiting
  <1>2. commands \in Seq(CommandsOf) /\ pending \in Seq(Asking) /\ Len(commands) = 0 /\ Len(pending) = 0
    BY EmptySeq DEF Init
  <1>3. DOMAIN channels = {} /\ channels \in [DOMAIN channels -> Channels]
    BY DEF Init, NoChannels
  <1>4. TypeOK
    BY <1>1, <1>2, <1>3 DEF Init, TypeOK
  <1>5. Single
    BY <1>2, NoRoutes DEF Init, Single
  <1>6. Apart
    BY <1>1, <1>2, NoRoutes DEF Init, Apart, Kept, Queued, Routed
  <1>7. NumbersGiven /\ AskedOpen /\ RoutesBacked
    BY <1>2, <1>3, Parity DEF Init, NumbersGiven, AskedOpen, RoutesBacked
  <1> QED
    BY <1>1, <1>4, <1>5, <1>6, <1>7 DEF RoutesInv

(* A call: the caller waits for a oneshot in the queue, or is told at once *)
(* that there is no driver.                                                *)
LEMMA CallInv ==
    ASSUME RoutesInv, NEW k \in Callers, NEW what \in Kinds, NEW n \in Nat, NEW e \in Nat,
           Call(k, what, n, e)
    PROVE  RoutesInv'
  <1>1. /\ calls[k].told = "idle" /\ calls[k] \in CallStates /\ epoch \in Nat
        /\ UNCHANGED <<handles, running, session, routes, peer>>
    BY DEF RoutesInv, TypeOK, Call
  <1>2. UNCHANGED <<state, channels, next_channel, epoch, opens, closes, session_close,
                    requests, ready, pending, asked, peer_channel>>
    BY <1>1 DEF session, routes, peer
  <1>3. NumbersGiven' /\ AskedOpen' /\ RoutesBacked'
    BY <1>1, <1>2, SessionKept
  <1>4. ~Waiting(k) /\ k \notin Queued /\ k \notin Routed \cup ready
    BY <1>1 DEF RoutesInv, Apart, Kept, Waiting
  <1>5. CASE running
    <2> DEFINE c == [k |-> k, what |-> what, n |-> n, epoch |-> e]
               call == [[calls[k] EXCEPT !.what = what, !.epoch = epoch] EXCEPT !.told = "waiting"]
    <2>1. commands' = Append(commands, c) /\ calls' = [calls EXCEPT ![k] = call]
      BY <1>5 DEF Call
    <2>2. c \in CommandsOf /\ c.k = k
      BY DEF CommandsOf
    <2>3. call \in CallStates /\ call.told = "waiting" /\ call.from = calls[k].from
      BY <1>1 DEF CallStates
    <2> HIDE DEF c, call
    <2>4. /\ commands' \in Seq(CommandsOf)
          /\ \A j : j \in Queued' <=> j \in Queued \/ j = k
          /\ \A i, j \in 1 .. Len(commands') : commands'[i].k = commands'[j].k => i = j
      BY <1>4, <2>1, <2>2, Enqueued DEF RoutesInv
    <2>5. /\ calls' \in [Callers -> CallStates] /\ calls'[k] = call
          /\ \A j \in Callers : j # k => calls'[j] = calls[j]
      BY <2>1, <2>3 DEF RoutesInv, TypeOK
    <2>6. TypeOK'
      BY <1>1, <1>2, <2>4, <2>5 DEF RoutesInv, TypeOK
    <2>7. Single'
      BY <1>2, <2>4 DEF RoutesInv, Single
    <2>8. FromSelf'
      BY <2>3, <2>5 DEF RoutesInv, FromSelf
    <2>9. Apart'
      <3> SUFFICES ASSUME NEW j \in Callers
                   PROVE  Kept(j)'
        BY DEF Apart
      <3>1. Kept(j) /\ (Waiting(j)' <=> Waiting(j) \/ j = k)
        BY <2>3, <2>5 DEF RoutesInv, Apart, Waiting
      <3>2. Routed' = Routed /\ ready' = ready
        BY <1>2 DEF Routed
      <3> QED
        BY <1>2, <1>4, <2>4, <3>1, <3>2 DEF Kept
    <2> QED
      BY <1>3, <2>6, <2>7, <2>8, <2>9 DEF RoutesInv
  <1>6. CASE ~running
    <2> DEFINE result == IF what = "session" THEN "Ok" ELSE "Closed"
               call == [[calls[k] EXCEPT !.what = what, !.epoch = epoch] EXCEPT !.told = result]
    <2>1. commands' = commands /\ calls' = [calls EXCEPT ![k] = call]
      BY <1>6 DEF Call
    <2>2. call \in CallStates /\ call.told # "waiting" /\ call.from = calls[k].from
      BY <1>1 DEF CallStates, Results
    <2> HIDE DEF call
    <2>3. /\ calls' \in [Callers -> CallStates] /\ calls'[k] = call
          /\ \A j \in Callers : j # k => calls'[j] = calls[j]
      BY <2>1, <2>2 DEF RoutesInv, TypeOK
    <2>4. TypeOK'
      BY <1>1, <1>2, <2>1, <2>3 DEF RoutesInv, TypeOK
    <2>5. Single'
      BY <1>2, <2>1 DEF RoutesInv, Single
    <2>6. FromSelf'
      BY <2>2, <2>3 DEF RoutesInv, FromSelf
    <2>7. Apart'
      <3> SUFFICES ASSUME NEW j \in Callers
                   PROVE  Kept(j)'
        BY DEF Apart
      <3>1. Kept(j) /\ (Waiting(j)' <=> Waiting(j))
        BY <1>4, <2>2, <2>3 DEF RoutesInv, Apart, Waiting
      <3>2. Routed' = Routed /\ ready' = ready /\ Queued' = Queued
        BY <1>2, <2>1 DEF Routed, Queued
      <3> QED
        BY <1>2, <3>1, <3>2 DEF Kept
    <2> QED
      BY <1>3, <2>4, <2>5, <2>6, <2>7 DEF RoutesInv
  <1> QED
    BY <1>5, <1>6

(* A command is taken: its caller waits, and its oneshot is nowhere else.  *)
LEMMA Applied ==
    ASSUME RoutesInv, NEW what, Apply(what)
    PROVE  /\ commands' \in Seq(CommandsOf) /\ Command \in CommandsOf
           /\ Command.k \in Callers /\ Command.n \in Nat /\ Command.epoch \in Nat
           /\ Command.k \in Queued /\ Waiting(Command.k)
           /\ Command.k \notin Routed \cup ready
           /\ \A k : k \in Queued' <=> k \in Queued /\ k # Command.k
           /\ \A i, j \in 1 .. Len(commands') : commands'[i].k = commands'[j].k => i = j
           /\ UNCHANGED <<handles, running>>
  <1>1. /\ commands' \in Seq(CommandsOf) /\ Command \in CommandsOf /\ Command.k \in Queued
        /\ \A k : k \in Queued' <=> k \in Queued /\ k # Command.k
        /\ \A i, j \in 1 .. Len(commands') : commands'[i].k = commands'[j].k => i = j
    BY Dequeued DEF RoutesInv, Apply
  <1>2. Command.k \in Callers /\ Command.n \in Nat /\ Command.epoch \in Nat
    BY <1>1 DEF CommandsOf
  <1>3. Kept(Command.k)
    BY <1>2 DEF RoutesInv, Apart
  <1> QED
    BY <1>1, <1>2, <1>3 DEF Kept, Apply

(* The session refuses a command, and its caller is told.                  *)
LEMMA RefuseInv ==
    ASSUME RoutesInv, NEW what, Apply(what), Refuse
    PROVE  RoutesInv'
  <1>1. PICK ks : ks = {Command.k}
    OBVIOUS
  <1>2. UNCHANGED <<state, channels, next_channel, epoch, opens, closes, session_close,
                    requests, ready, pending, asked, peer_channel, session, peer>>
    BY DEF Refuse, session, routes, peer
  <1>3. /\ calls' \in [Callers -> CallStates] /\ FromSelf'
        /\ \A k \in Callers : Waiting(k)' <=> Waiting(k) /\ k \notin ks
    <2>1. Tell(ks, "Protocol") /\ "Protocol" \in Results
      BY <1>1 DEF Refuse, Results
    <2> QED
      BY <2>1, Telling DEF RoutesInv, TypeOK
  <1>4. NumbersGiven' /\ AskedOpen' /\ RoutesBacked'
    BY <1>2, SessionKept
  <1>5. TypeOK'
    BY <1>2, <1>3, Applied DEF RoutesInv, TypeOK
  <1>6. Single'
    BY <1>2, Applied DEF RoutesInv, Single
  <1>7. Apart'
    <2>1. \A k \in Callers : k \in Queued' <=> k \in Queued /\ k \notin ks
      BY <1>1, Applied
    <2>2. \A k \in Routed \cup ready : k \notin ks
      BY <1>1, Applied
    <2>3. /\ \A k \in Callers : k \in Holders(opens)' <=> k \in Holders(opens) /\ k \notin ks
          /\ \A k \in Callers : k \in Holders(closes)' <=> k \in Holders(closes) /\ k \notin ks
          /\ \A k \in Callers : k \in session_close' <=> k \in session_close /\ k \notin ks
          /\ \A k \in Callers : k \in Holders(requests)'
                                 <=> k \in Holders(requests) /\ k \notin ks
          /\ \A k \in Callers : k \in ready' <=> k \in ready /\ k \notin ks
      BY <1>2, <2>2 DEF Routed
    <2> QED
      BY <1>3, <2>1, <2>3, KeptWhenTold
  <1> QED
    BY <1>3, <1>4, <1>5, <1>6, <1>7 DEF RoutesInv

(* A request joins those the peer has still to answer.                     *)
LEMMA Asked ==
    ASSUME TypeOK, NEW what \in {"start", "close"}, NEW n \in Nat, Ask(what, n)
    PROVE  /\ pending' \in Seq(Asking)
           /\ \A i \in 1 .. Len(pending) : i \in 1 .. Len(pending') /\ pending'[i] = pending[i]
           /\ \A i \in 1 .. Len(pending') : \/ i \in 1 .. Len(pending) /\ pending'[i] = pending[i]
                                            \/ /\ i = Len(pending) + 1
                                               /\ pending'[i] = [what |-> what, n |-> n]
           /\ Len(pending) + 1 \in 1 .. Len(pending')
           /\ pending'[Len(pending) + 1] = [what |-> what, n |-> n]
  <1> DEFINE new == [what |-> what, n |-> n]
  <1>1. new \in Asking /\ pending' = Append(pending, new)
    BY DEF Asking, Ask
  <1>2. Len(pending) \in Nat
    BY LenProperties DEF TypeOK
  <1> HIDE DEF new
  <1>3. /\ pending' \in Seq(Asking) /\ Len(pending') = Len(pending) + 1
        /\ pending'[Len(pending) + 1] = new
        /\ \A i \in 1 .. Len(pending) : pending'[i] = pending[i]
    BY <1>1, AppendProperties DEF TypeOK
  <1> QED
    BY <1>2, <1>3 DEF new

(* A start is asked for under the next number.                             *)
LEMMA ApplyOpenInv ==
    ASSUME RoutesInv, ApplyOpen
    PROVE  RoutesInv'
  <1>1. CASE state # "Ready"
    BY <1>1, RefuseInv DEF ApplyOpen
  <1>2. CASE state = "Ready"
    <2>1. PICK k \in Callers, n \in Nat : k = Command.k /\ n = next_channel
      BY Applied DEF ApplyOpen, RoutesInv, TypeOK
    <2>2. PICK ks : ks = Holders(At(opens, n))
      OBVIOUS
    <2>3. /\ next_channel' = n + 2 /\ opens' = Insert(opens, n, k) /\ Tell(ks, "Closed")
          /\ Ask("start", n) /\ Apply("open")
          /\ UNCHANGED <<epoch, state, channels, closes, session_close, requests,
                         ready, asked, peer_channel>>
      BY <1>2, <2>1, <2>2 DEF ApplyOpen
    <2>4. /\ commands' \in Seq(CommandsOf) /\ k \in Queued /\ Waiting(k)
          /\ k \notin Routed \cup ready
          /\ \A j : j \in Queued' <=> j \in Queued /\ j # k
          /\ \A i, j \in 1 .. Len(commands') : commands'[i].k = commands'[j].k => i = j
          /\ UNCHANGED <<handles, running>>
      BY <2>1, <2>3, Applied
    <2>5. /\ opens' \subseteq Routing /\ OneEach(opens')
          /\ \A j : j \in Holders(opens') <=> j = k \/ (j \in Holders(opens) /\ j \notin ks)
          /\ \A r \in opens' : r \in opens \/ r.n = n
      BY <2>2, <2>3, <2>4, Inserted DEF RoutesInv, TypeOK, Single, Routed
    <2>6. /\ calls' \in [Callers -> CallStates] /\ FromSelf'
          /\ \A j \in Callers : Waiting(j)' <=> Waiting(j) /\ j \notin ks
      BY <2>3, Telling DEF RoutesInv, TypeOK, Results
    <2>7. /\ pending' \in Seq(Asking)
          /\ \A i \in 1 .. Len(pending) : i \in 1 .. Len(pending') /\ pending'[i] = pending[i]
          /\ \A i \in 1 .. Len(pending') : \/ i \in 1 .. Len(pending) /\ pending'[i] = pending[i]
                                           \/ /\ i = Len(pending) + 1
                                              /\ pending'[i] = [what |-> "start", n |-> n]
          /\ Len(pending) + 1 \in 1 .. Len(pending')
          /\ pending'[Len(pending) + 1] = [what |-> "start", n |-> n]
      BY <2>3, Asked DEF RoutesInv
    <2>8. TypeOK'
      BY <2>3, <2>4, <2>5, <2>6, <2>7 DEF RoutesInv, TypeOK
    <2>9. Single'
      BY <2>3, <2>4, <2>5 DEF RoutesInv, Single
    <2>10. Apart'
      <3> SUFFICES ASSUME NEW j \in Callers
                   PROVE  Kept(j)'
        BY DEF Apart
      <3>1. Kept(j) /\ (j \in ks => j \in Holders(opens))
        BY <2>2 DEF RoutesInv, Apart, Holders, At
      <3> QED
        BY <2>3, <2>4, <2>5, <2>6, <3>1 DEF Kept, Routed
    <2>11. NumbersGiven'
      <3>1. next_channel' \in Odd /\ peer_channel' \in Nat \ Odd /\ n \in Odd /\ n \in Nat
        BY <2>1, <2>3, Parity DEF RoutesInv, NumbersGiven
      <3>2. \A m : Given(m) => Given(m)'
        BY <2>1, <2>3 DEF Given
      <3>3. ~Given(n) /\ Given(n)'
        BY <2>1, <2>3, <3>1 DEF Given
      <3>4. \A m \in DOMAIN channels' : Given(m)'
        BY <2>3, <3>2 DEF RoutesInv, NumbersGiven
      <3>5. \A r \in requests' : Given(r.n)'
        BY <2>3, <3>2 DEF RoutesInv, NumbersGiven
      <3>6. ASSUME NEW i \in 1 .. Len(pending'), pending'[i].what = "start"
            PROVE  /\ pending'[i].n \in Odd /\ Given(pending[i].n)'
                   /\ pending'[i].n \notin DOMAIN channels'
                   /\ \A r \in requests' : r.n # pending'[i].n
                   /\ \A j \in 1 .. Len(pending') : pending'[j] = pending'[i] => i = j
        <4>1. CASE i \in 1 .. Len(pending) /\ pending'[i] = pending[i]
          <5>1. PICK m : m = pending[i].n
            OBVIOUS
          <5>2. /\ m \in Odd /\ Given(m) /\ m \notin DOMAIN channels
                /\ \A r \in requests : r.n # m
                /\ \A j \in 1 .. Len(pending) : pending[j] = pending[i] => i = j
            BY <3>6, <4>1, <5>1 DEF RoutesInv, NumbersGiven
          <5>3. Given(m)' /\ m = pending'[i].n /\ m # n
            BY <3>2, <3>3, <4>1, <5>1, <5>2
          <5>4. \A j \in 1 .. Len(pending') : pending'[j] = pending'[i] => i = j
            BY <2>7, <4>1, <5>2, <5>3
          <5> QED
            BY <2>3, <5>2, <5>3, <5>4
        <4>2. CASE i = Len(pending) + 1 /\ pending'[i] = [what |-> "start", n |-> n]
          <5>1. pending'[i].n = n
            BY <4>2
          <5>2. n \notin DOMAIN channels /\ \A r \in requests : r.n # n
            BY <3>3 DEF RoutesInv, NumbersGiven
          <5>3. ASSUME NEW j \in 1 .. Len(pending), pending[j] = [what |-> "start", n |-> n]
                PROVE  FALSE
            <6>1. pending[j].what = "start" /\ pending[j].n = n
              BY <5>3
            <6> QED
              BY <3>3, <6>1 DEF RoutesInv, NumbersGiven
          <5>4. \A j \in 1 .. Len(pending') : pending'[j] = pending'[i] => i = j
            BY <2>7, <4>2, <5>3
          <5> QED
            BY <2>3, <3>1, <3>3, <5>1, <5>2, <5>4
        <4> QED
          BY <2>7, <4>1, <4>2
      <3> QED
        BY <3>1, <3>4, <3>5, <3>6 DEF NumbersGiven
    <2>12. AskedOpen'
      BY <2>3 DEF RoutesInv, AskedOpen
    <2>13. RoutesBacked'
      <3>1. ASSUME NEW r \in opens'
            PROVE  \E i \in 1 .. Len(pending') : pending'[i] = [what |-> "start", n |-> r.n]
        BY <2>5, <2>7 DEF RoutesInv, RoutesBacked
      <3>2. ASSUME NEW r \in closes'
            PROVE  \E i \in 1 .. Len(pending') : pending'[i] = [what |-> "close", n |-> r.n]
        BY <2>3, <2>7 DEF RoutesInv, RoutesBacked
      <3> QED
        BY <2>3, <3>1, <3>2 DEF RoutesInv, RoutesBacked, Stranded
    <2> QED
      BY <2>6, <2>8, <2>9, <2>10, <2>11, <2>12, <2>13 DEF RoutesInv
  <1> QED
    BY <1>1, <1>2

(* A close is asked for: no number is given out.                           *)
LEMMA CloseAsked ==
    ASSUME RoutesInv, NEW n \in Nat, Ask("close", n),
           UNCHANGED <<session, opens, requests, ready, asked, peer_channel>>,
           \A r \in closes' : r \in closes \/ r.n = n
    PROVE  pending' \in Seq(Asking) /\ NumbersGiven' /\ AskedOpen' /\ RoutesBacked'
  <1>1. /\ pending' \in Seq(Asking)
        /\ \A i \in 1 .. Len(pending) : i \in 1 .. Len(pending') /\ pending'[i] = pending[i]
        /\ \A i \in 1 .. Len(pending') : \/ i \in 1 .. Len(pending) /\ pending'[i] = pending[i]
                                         \/ /\ i = Len(pending) + 1
                                            /\ pending'[i] = [what |-> "close", n |-> n]
        /\ Len(pending) + 1 \in 1 .. Len(pending')
        /\ pending'[Len(pending) + 1] = [what |-> "close", n |-> n]
    BY Asked DEF RoutesInv
  <1>2. UNCHANGED <<state, channels, next_channel, peer_channel, requests, asked>>
    BY DEF session
  <1>3. \A i \in 1 .. Len(pending') : pending'[i].what = "start" =>
          i \in 1 .. Len(pending) /\ pending'[i] = pending[i]
    BY <1>1
  <1>4. NumbersGiven'
    <2>1. \A m : Given(m)' <=> Given(m)
      BY <1>2 DEF Given
    <2>2. ASSUME NEW i \in 1 .. Len(pending'), pending'[i].what = "start"
          PROVE  /\ pending'[i].n \in Odd /\ Given(pending[i].n)'
                 /\ pending'[i].n \notin DOMAIN channels'
                 /\ \A r \in requests' : r.n # pending'[i].n
                 /\ \A j \in 1 .. Len(pending') : pending'[j] = pending'[i] => i = j
      <3>1. i \in 1 .. Len(pending) /\ pending'[i] = pending[i]
        BY <1>3, <2>2
      <3>2. PICK m : m = pending[i].n
        OBVIOUS
      <3>3. /\ m \in Odd /\ Given(m) /\ m \notin DOMAIN channels
            /\ \A r \in requests : r.n # m
            /\ \A j \in 1 .. Len(pending) : pending[j] = pending[i] => i = j
        BY <2>2, <3>1, <3>2 DEF RoutesInv, NumbersGiven
      <3>4. \A j \in 1 .. Len(pending') : pending'[j] = pending'[i] => i = j
        BY <1>3, <2>2, <3>1, <3>3
      <3>5. Given(m)' /\ m = pending'[i].n
        BY <2>1, <3>1, <3>2, <3>3
      <3> QED
        BY <1>2, <3>3, <3>4, <3>5
    <2>3. /\ next_channel' \in Odd /\ peer_channel' \in Nat \ Odd
          /\ \A m \in DOMAIN channels' : Given(m)'
          /\ \A r \in requests' : Given(r.n)'
      BY <1>2, <2>1 DEF RoutesInv, NumbersGiven
    <2> QED
      BY <2>2, <2>3 DEF NumbersGiven
  <1>5. AskedOpen'
    BY <1>2 DEF RoutesInv, AskedOpen
  <1>6. RoutesBacked'
    <2>1. ASSUME NEW r \in opens'
          PROVE  \E i \in 1 .. Len(pending') : pending'[i] = [what |-> "start", n |-> r.n]
      BY <1>1 DEF RoutesInv, RoutesBacked
    <2>2. ASSUME NEW r \in closes'
          PROVE  \E i \in 1 .. Len(pending') : pending'[i] = [what |-> "close", n |-> r.n]
      BY <1>1 DEF RoutesInv, RoutesBacked
    <2> QED
      BY <1>2, <2>1, <2>2 DEF RoutesInv, RoutesBacked, Stranded
  <1> QED
    BY <1>1, <1>4, <1>5, <1>6

(* Closing a channel.                                                      *)
LEMMA ApplyCloseInv ==
    ASSUME RoutesInv, ApplyClose
    PROVE  RoutesInv'
  <1>1. CASE state # "Ready" \/ Command.n \notin DOMAIN channels \cup {0}
    BY <1>1, RefuseInv DEF ApplyClose
  <1>2. CASE ~(state # "Ready" \/ Command.n \notin DOMAIN channels \cup {0})
    <2>1. PICK k \in Callers, n \in Nat : k = Command.k /\ n = Command.n
      BY Applied DEF ApplyClose
    <2>2. PICK ks : ks = Holders(At(closes, n))
      OBVIOUS
    <2>3. /\ closes' = Insert(closes, n, k) /\ Tell(ks, "Closed")
          /\ Ask("close", n) /\ Apply("close")
          /\ UNCHANGED <<session, opens, session_close, requests, ready, asked, peer_channel>>
      BY <1>2, <2>1, <2>2 DEF ApplyClose
    <2>4. /\ commands' \in Seq(CommandsOf) /\ k \in Queued /\ Waiting(k)
          /\ k \notin Routed \cup ready
          /\ \A j : j \in Queued' <=> j \in Queued /\ j # k
          /\ \A i, j \in 1 .. Len(commands') : commands'[i].k = commands'[j].k => i = j
          /\ UNCHANGED <<handles, running>>
      BY <2>1, <2>3, Applied
    <2>5. /\ closes' \subseteq Routing /\ OneEach(closes')
          /\ \A j : j \in Holders(closes') <=> j = k \/ (j \in Holders(closes) /\ j \notin ks)
          /\ \A r \in closes' : r \in closes \/ r.n = n
      BY <2>2, <2>3, <2>4, Inserted DEF RoutesInv, TypeOK, Single, Routed
    <2>6. /\ calls' \in [Callers -> CallStates] /\ FromSelf'
          /\ \A j \in Callers : Waiting(j)' <=> Waiting(j) /\ j \notin ks
      BY <2>3, Telling DEF RoutesInv, TypeOK, Results
    <2>7. pending' \in Seq(Asking) /\ NumbersGiven' /\ AskedOpen' /\ RoutesBacked'
      BY <2>3, <2>5, CloseAsked
    <2>8. TypeOK'
      BY <2>3, <2>4, <2>5, <2>6, <2>7 DEF RoutesInv, TypeOK, session
    <2>9. Single'
      BY <2>3, <2>4, <2>5 DEF RoutesInv, Single
    <2>10. Apart'
      <3> SUFFICES ASSUME NEW j \in Callers
                   PROVE  Kept(j)'
        BY DEF Apart
      <3>1. Kept(j) /\ (j \in ks => j \in Holders(closes))
        BY <2>2 DEF RoutesInv, Apart, Holders, At
      <3> QED
        BY <2>3, <2>4, <2>5, <2>6, <3>1 DEF Kept, Routed
    <2> QED
      BY <2>6, <2>7, <2>8, <2>9, <2>10 DEF RoutesInv
  <1> QED
    BY <1>1, <1>2

(* Closing the session: an earlier caller's oneshot is dropped.            *)
LEMMA ApplySessionInv ==
    ASSUME RoutesInv, ApplySession
    PROVE  RoutesInv'
  <1>1. CASE state # "Ready"
    BY <1>1, RefuseInv DEF ApplySession
  <1>2. CASE state = "Ready"
    <2>1. PICK k \in Callers : k = Command.k
      BY Applied DEF ApplySession
    <2>2. /\ session_close' = {k} /\ Tell(session_close, "Ok")
          /\ Ask("close", 0) /\ Apply("session")
          /\ UNCHANGED <<session, opens, closes, requests, ready, asked, peer_channel>>
      BY <1>2, <2>1 DEF ApplySession
    <2>3. /\ commands' \in Seq(CommandsOf) /\ k \in Queued /\ Waiting(k)
          /\ k \notin Routed \cup ready
          /\ \A j : j \in Queued' <=> j \in Queued /\ j # k
          /\ \A i, j \in 1 .. Len(commands') : commands'[i].k = commands'[j].k => i = j
          /\ UNCHANGED <<handles, running>>
      BY <2>1, <2>2, Applied
    <2>4. /\ calls' \in [Callers -> CallStates] /\ FromSelf'
          /\ \A j \in Callers : Waiting(j)' <=> Waiting(j) /\ j \notin session_close
      BY <2>2, Telling DEF RoutesInv, TypeOK, Results
    <2>5. pending' \in Seq(Asking) /\ NumbersGiven' /\ AskedOpen' /\ RoutesBacked'
      BY <2>2, CloseAsked
    <2>6. TypeOK'
      BY <2>2, <2>3, <2>4, <2>5 DEF RoutesInv, TypeOK, session
    <2>7. Single'
      BY <2>2, <2>3 DEF RoutesInv, Single
    <2>8. Apart'
      <3> SUFFICES ASSUME NEW j \in Callers
                   PROVE  Kept(j)'
        BY DEF Apart
      <3>1. Kept(j)
        BY DEF RoutesInv, Apart
      <3> QED
        BY <2>2, <2>3, <2>4, <3>1 DEF Kept, Routed
    <2> QED
      BY <2>4, <2>5, <2>6, <2>7, <2>8 DEF RoutesInv
  <1> QED
    BY <1>1, <1>2

(* A message is sent under a number that no message the peer has still to  *)
(* answer has on that channel.                                             *)
LEMMA ApplyRequestInv ==
    ASSUME RoutesInv, ApplyRequest
    PROVE  RoutesInv'
  <1>1. CASE Command.n \notin DOMAIN channels \/ MsgNos \subseteq channels[Command.n].used
    BY <1>1, RefuseInv DEF ApplyRequest
  <1>2. CASE ~(Command.n \notin DOMAIN channels \/ MsgNos \subseteq channels[Command.n].used)
    <2>1. PICK k \in Callers, n \in Nat, e \in Nat :
            k = Command.k /\ n = Command.n /\ e = Command.epoch
      BY Applied DEF ApplyRequest
    <2>2. PICK c \in Channels : c = channels[n] /\ n \in DOMAIN channels
      BY <1>2, <2>1 DEF RoutesInv, TypeOK
    <2>3. PICK m \in MsgNos : m \notin c.used /\ m = AllocateMsgNo(c)
      BY <1>2, <2>1, <2>2, Allocates
    <2>4. PICK r : r = [n |-> n, msgno |-> m, k |-> k, epoch |-> e, answers |-> 0]
      OBVIOUS
    <2>5. r \in Messages /\ r.n = n /\ r.msgno = m /\ r.k = k
      BY <2>4 DEF Messages
    <2>6. PICK same : same = {q \in requests : q.n = n /\ q.msgno = m}
      OBVIOUS
    <2>7. PICK d : d = [used |-> c.used \cup {m}, next |-> After(m)]
      OBVIOUS
    <2>8. d \in Channels /\ d.used = c.used \cup {m}
      BY <2>7, RoutesAssumption DEF Channels, MsgNos, After
    <2>9. /\ channels' = [channels EXCEPT ![n] = d]
          /\ requests' = (requests \ same) \cup {r} /\ Tell(Holders(same), "Closed")
          /\ asked' = asked \cup {r} /\ Apply("request")
          /\ UNCHANGED <<epoch, state, next_channel, opens, closes, session_close, ready,
                         pending, peer_channel>>
      BY <1>2, <2>1, <2>2, <2>3, <2>4, <2>6, <2>7 DEF ApplyRequest
    <2>10. /\ commands' \in Seq(CommandsOf) /\ k \in Queued /\ Waiting(k)
           /\ k \notin Routed \cup ready
           /\ \A j : j \in Queued' <=> j \in Queued /\ j # k
           /\ \A i, j \in 1 .. Len(commands') : commands'[i].k = commands'[j].k => i = j
           /\ UNCHANGED <<handles, running>>
      BY <2>1, <2>9, Applied
    <2>11. /\ OneEach(requests')
           /\ \A j : j \in Holders(requests')
                        <=> j = k \/ (j \in Holders(requests) /\ j \notin Holders(same))
      <3>1. same \in SUBSET requests /\ OneEach(requests)
        BY <2>6 DEF RoutesInv, Single
      <3>2. /\ OneEach(requests \ same)
            /\ \A j : j \in Holders(requests \ same)
                         <=> j \in Holders(requests) /\ j \notin Holders(same)
        BY <3>1, Removed
      <3>3. r.k \notin Holders(requests \ same)
        BY <2>5, <2>10, <3>2 DEF Routed
      <3>4. /\ OneEach((requests \ same) \cup {r})
            /\ \A j : j \in Holders((requests \ same) \cup {r})
                         <=> j \in Holders(requests \ same) \/ j = r.k
        BY <3>2, <3>3, Added
      <3> QED
        BY <2>5, <2>9, <3>2, <3>4
    <2>12. /\ calls' \in [Callers -> CallStates] /\ FromSelf'
           /\ \A j \in Callers : Waiting(j)' <=> Waiting(j) /\ j \notin Holders(same)
      BY <2>9, Telling DEF RoutesInv, TypeOK, Results
    <2>13. /\ DOMAIN channels' = DOMAIN channels /\ channels' \in [DOMAIN channels' -> Channels]
           /\ channels'[n] = d /\ \A b \in DOMAIN channels : b # n => channels'[b] = channels[b]
      BY <2>2, <2>8, <2>9 DEF RoutesInv, TypeOK
    <2>14. TypeOK'
      BY <2>5, <2>9, <2>10, <2>12, <2>13 DEF RoutesInv, TypeOK
    <2>15. Single'
      BY <2>9, <2>10, <2>11 DEF RoutesInv, Single
    <2>16. Apart'
      <3> SUFFICES ASSUME NEW j \in Callers
                   PROVE  Kept(j)'
        BY DEF Apart
      <3>1. Kept(j) /\ (j \in Holders(same) => j \in Holders(requests))
        BY <2>6 DEF RoutesInv, Apart, Holders
      <3> QED
        BY <2>9, <2>10, <2>11, <2>12, <3>1 DEF Kept, Routed
    <2>17. NumbersGiven'
      <3>1. \A b : Given(b)' <=> Given(b)
        BY <2>9 DEF Given
      <3>2. Given(n)
        BY <2>2 DEF RoutesInv, NumbersGiven
      <3>3. \A q \in requests' : q \in requests \/ q.n = n
        BY <2>5, <2>9
      <3>4. /\ next_channel' \in Odd /\ peer_channel' \in Nat \ Odd
            /\ \A b \in DOMAIN channels' : Given(b)'
        BY <2>9, <2>13, <3>1 DEF RoutesInv, NumbersGiven
      <3>5. \A q \in requests' : Given(q.n)'
        BY <3>1, <3>2, <3>3 DEF RoutesInv, NumbersGiven
      <3>6. \A i \in 1 .. Len(pending') : pending'[i].what = "start" =>
              /\ pending'[i].n \in Odd /\ Given(pending[i].n)'
              /\ pending'[i].n \notin DOMAIN channels'
              /\ \A q \in requests' : q.n # pending'[i].n
              /\ \A j \in 1 .. Len(pending') : pending'[j] = pending'[i] => i = j
        BY <2>2, <2>9, <2>13, <3>1, <3>3 DEF RoutesInv, NumbersGiven
      <3> QED
        BY <3>4, <3>5, <3>6 DEF NumbersGiven
    <2>18. AskedOpen'
      <3>1. \A q \in asked : q.n \in DOMAIN channels /\ q.msgno \in channels[q.n].used
        BY DEF RoutesInv, AskedOpen
      <3>2. \A q \in asked : ~(q.n = n /\ q.msgno = m)
        BY <2>2, <2>3, <3>1
      <3>3. \A q \in asked' : q \in asked \/ q = r
        BY <2>9
      <3>4. ASSUME NEW q \in asked'
            PROVE  q.n \in DOMAIN channels' /\ q.msgno \in channels'[q.n].used
        BY <2>2, <2>5, <2>8, <2>13, <3>1, <3>3
      <3>5. ASSUME NEW p \in asked', NEW q \in asked', p.n = q.n, p.msgno = q.msgno
            PROVE  p = q
        BY <2>5, <3>2, <3>3, <3>5 DEF RoutesInv, AskedOpen
      <3> QED
        BY <3>4, <3>5 DEF AskedOpen
    <2>19. RoutesBacked'
      <3>1. ASSUME NEW q \in requests'
            PROVE  q \in asked' \/ Stranded(q)'
        BY <2>9, <2>13 DEF RoutesInv, RoutesBacked, Stranded
      <3> QED
        BY <2>9, <3>1 DEF RoutesInv, RoutesBacked
    <2> QED
      BY <2>12, <2>14, <2>15, <2>16, <2>17, <2>18, <2>19 DEF RoutesInv
  <1> QED
    BY <1>1, <1>2

(* Everyone is told and nothing is left: the session is new, or over.      *)
LEMMA ClearedInv ==
    ASSUME TypeOK', Single', Apart', FromSelf', opens' = {}, closes' = {}, requests' = {},
           asked' = {}, pending' = << >>, ready' # {} => state' = "AwaitingGreeting",
           next_channel' \in Odd, peer_channel' \in Nat \ Odd,
           \A n \in DOMAIN channels' : Given(n)'
    PROVE  RoutesInv'
  <1>1. Len(pending') = 0
    BY EmptySeq
  <1>2. NumbersGiven'
    BY <1>1 DEF NumbersGiven
  <1>3. AskedOpen' /\ RoutesBacked'
    BY DEF AskedOpen, RoutesBacked
  <1> QED
    BY <1>2, <1>3 DEF RoutesInv

(* The transport is replaced: a new session, and its caller waits for the  *)
(* greeting.                                                               *)
LEMMA UpgradeInv ==
    ASSUME RoutesInv, Upgrade
    PROVE  RoutesInv'
  <1>1. PICK k \in Callers : k = Command.k
    BY Applied DEF Upgrade
  <1>2. /\ commands' \in Seq(CommandsOf) /\ k \in Queued /\ Waiting(k)
        /\ k \notin Routed \cup ready
        /\ \A j : j \in Queued' <=> j \in Queued /\ j # k
        /\ \A i, j \in 1 .. Len(commands') : commands'[i].k = commands'[j].k => i = j
        /\ UNCHANGED <<handles, running>>
    BY <1>1, Applied DEF Upgrade
  <1>3. /\ epoch' = epoch + 1 /\ state' = "AwaitingGreeting" /\ channels' = NoChannels
        /\ next_channel' = 1 /\ ready' = {k} /\ pending' = << >> /\ asked' = {}
        /\ peer_channel' = 2
        /\ opens' = {} /\ closes' = {} /\ session_close' = {} /\ requests' = {}
    BY <1>1 DEF Upgrade, Shutdown
  <1>4. \A j \in Callers : calls'[j] = IF j \in Routed \cup ready
                                          THEN [calls[j] EXCEPT !.told = Dropped(j)]
                                          ELSE calls[j]
    BY DEF Upgrade
  <1>5. ASSUME NEW j \in Callers
        PROVE  /\ calls'[j] \in CallStates /\ calls'[j].from = calls[j].from
               /\ calls'[j].told = IF j \in Routed \cup ready THEN Dropped(j) ELSE calls[j].told
    <2>1. calls[j] \in CallStates /\ Dropped(j) \in Results
      BY DEF RoutesInv, TypeOK, Dropped, Results
    <2> QED
      BY <1>4, <2>1 DEF CallStates
  <1>6. calls' \in [Callers -> CallStates]
    BY <1>5 DEF Upgrade
  <1>7. DOMAIN channels' = {} /\ channels' \in [DOMAIN channels' -> Channels]
    BY <1>3 DEF NoChannels
  <1>8. TypeOK'
    <2>1. pending' \in Seq(Asking)
      BY <1>3, EmptySeq
    <2>2. epoch' \in Nat /\ next_channel' \in Nat /\ peer_channel' \in Nat
      BY <1>3 DEF RoutesInv, TypeOK
    <2> QED
      BY <1>2, <1>3, <1>6, <1>7, <2>1, <2>2 DEF RoutesInv, TypeOK
  <1>9. Single'
    BY <1>2, <1>3, NoRoutes DEF Single
  <1>10. FromSelf'
    BY <1>5 DEF RoutesInv, FromSelf
  <1>11. Apart'
    <2> SUFFICES ASSUME NEW j \in Callers
                 PROVE  Kept(j)'
      BY DEF Apart
    <2>1. Kept(j) /\ (Waiting(j)' <=> Waiting(j) /\ j \notin Routed \cup ready)
      BY <1>5 DEF RoutesInv, Apart, Waiting, Dropped
    <2> QED
      BY <1>2, <1>3, <2>1, NoRoutes DEF Kept, Routed
  <1> QED
    BY <1>3, <1>7, <1>8, <1>9, <1>10, <1>11, Parity, ClearedInv

(* The driver ends, and tells everyone: Driver::run after pump.            *)
LEMMA EndInv ==
    ASSUME RoutesInv, NEW ks, ks \subseteq Queued \cup Routed \cup ready,
           NEW result \in Results, EndTelling(ks, result)
    PROVE  RoutesInv'
  <1>1. /\ running' = FALSE /\ ready' = {} /\ commands' = << >> /\ pending' = << >>
        /\ asked' = {} /\ opens' = {} /\ closes' = {} /\ session_close' = {} /\ requests' = {}
        /\ UNCHANGED <<handles, epoch, state, channels, next_channel, peer_channel>>
    BY DEF EndTelling, Shutdown, session
  <1>2. \A k \in Callers :
          calls'[k] = IF k \in ks THEN [calls[k] EXCEPT !.told = result]
                      ELSE IF k \in Routed \cup ready \cup Queued
                        THEN [calls[k] EXCEPT !.told = Dropped(k)]
                      ELSE calls[k]
    BY DEF EndTelling
  <1>3. ASSUME NEW k \in Callers
        PROVE  /\ calls'[k] \in CallStates /\ calls'[k].from = calls[k].from
               /\ ~Waiting(k)'
    <2>1. calls[k] \in CallStates /\ Dropped(k) \in Results /\ "waiting" \notin Results
      BY DEF RoutesInv, TypeOK, Dropped, Results
    <2>2. /\ calls'[k] \in CallStates /\ calls'[k].from = calls[k].from
          /\ k \in Routed \cup ready \cup Queued => calls'[k].told \in Results
          /\ k \notin Routed \cup ready \cup Queued => calls'[k] = calls[k]
      <3>1. \A told \in Results : LET call == [calls[k] EXCEPT !.told = told]
                                  IN  call \in CallStates /\ call.from = calls[k].from /\ call.told = told
        BY <2>1 DEF CallStates
      <3>2. CASE k \in ks
        <4>1. calls'[k] = [calls[k] EXCEPT !.told = result]
          BY <1>2, <3>2
        <4> QED
          BY <3>1, <3>2, <4>1
      <3>3. CASE k \notin ks /\ k \in Routed \cup ready \cup Queued
        <4>1. calls'[k] = [calls[k] EXCEPT !.told = Dropped(k)]
          BY <1>2, <3>3
        <4> QED
          BY <2>1, <3>1, <3>3, <4>1
      <3>4. CASE k \notin ks /\ k \notin Routed \cup ready \cup Queued
        <4>1. calls'[k] = calls[k]
          BY <1>2, <3>4
        <4> QED
          BY <2>1, <3>4, <4>1
      <3> QED
        BY <3>2, <3>3, <3>4
    <2>3. Kept(k)
      BY DEF RoutesInv, Apart
    <2> QED
      BY <2>1, <2>2, <2>3 DEF Kept, Waiting
  <1>4. calls' \in [Callers -> CallStates]
    BY <1>3 DEF EndTelling
  <1>5. commands' \in Seq(CommandsOf) /\ pending' \in Seq(Asking) /\ Len(commands') = 0
    BY <1>1, EmptySeq
  <1>6. TypeOK'
    BY <1>1, <1>4, <1>5 DEF RoutesInv, TypeOK
  <1>7. Single'
    BY <1>1, <1>5, NoRoutes DEF Single
  <1>8. FromSelf'
    BY <1>3 DEF RoutesInv, FromSelf
  <1>9. Apart'
    BY <1>1, <1>3, <1>5, NoRoutes DEF Apart, Kept, Queued, Routed
  <1>10. \A n \in DOMAIN channels' : Given(n)'
    BY <1>1 DEF RoutesInv, NumbersGiven, Given
  <1>11. next_channel' \in Odd /\ peer_channel' \in Nat \ Odd
    BY <1>1 DEF RoutesInv, NumbersGiven
  <1> QED
    BY <1>1, <1>6, <1>7, <1>8, <1>9, <1>10, <1>11, ClearedInv

(* The four ways to get there.                                             *)
LEMMA EndsInv ==
    ASSUME RoutesInv, UpgradeFails \/ SessionClosed \/ PeerClosesSession \/ End
    PROVE  RoutesInv'
  <1>1. CASE UpgradeFails
    <2>1. PICK result \in {"Io", "Closed"} : EndTelling({Command.k}, result)
      BY <1>1 DEF UpgradeFails
    <2>2. Len(commands) \in Nat \ {0} /\ Head(commands) = commands[1]
      BY <1>1, EmptySeq DEF UpgradeFails, RoutesInv, TypeOK
    <2>3. Command.k \in Queued
      BY <2>2 DEF Command, Queued
    <2> QED
      BY <2>1, <2>3, EndInv DEF Results
  <1>2. CASE SessionClosed \/ PeerClosesSession
    BY <1>2, EndInv DEF SessionClosed, PeerClosesSession, Routed, Results
  <1>3. CASE End
    BY <1>3, EndInv DEF End, Results
  <1> QED
    BY <1>1, <1>2, <1>3

(* The greeting of the new session comes in.                               *)
LEMMA GreetingInv ==
    ASSUME RoutesInv, Greeting
    PROVE  RoutesInv'
  <1>1. /\ state' = "Ready" /\ ready' = {} /\ Tell(ready, "Ok")
        /\ UNCHANGED <<handles, commands, running, epoch, channels, next_channel, opens,
                       closes, session_close, requests, pending, asked, peer_channel>>
    BY DEF Greeting, peer
  <1>2. /\ calls' \in [Callers -> CallStates] /\ FromSelf'
        /\ \A k \in Callers : Waiting(k)' <=> Waiting(k) /\ k \notin ready
    BY <1>1, Telling DEF RoutesInv, TypeOK, Results
  <1>3. TypeOK'
    BY <1>1, <1>2 DEF RoutesInv, TypeOK
  <1>4. Single'
    BY <1>1 DEF RoutesInv, Single
  <1>5. Apart'
    <2> SUFFICES ASSUME NEW k \in Callers
                 PROVE  Kept(k)'
      BY DEF Apart
    <2>1. Kept(k) /\ Queued' = Queued
      BY <1>1 DEF RoutesInv, Apart, Queued
    <2> QED
      BY <1>1, <1>2, <2>1 DEF Kept, Routed
  <1>6. NumbersGiven'
    BY <1>1 DEF RoutesInv, NumbersGiven, Given
  <1>7. AskedOpen'
    BY <1>1 DEF RoutesInv, AskedOpen
  <1>8. RoutesBacked'
    BY <1>1 DEF RoutesInv, RoutesBacked, Stranded
  <1> QED
    BY <1>2, <1>3, <1>4, <1>5, <1>6, <1>7, <1>8 DEF RoutesInv

(* The oldest request on channel 0 is answered.                            *)
LEMMA Popped ==
    ASSUME RoutesInv, NEW what, Replied(what)
    PROVE  /\ pending' \in Seq(Asking) /\ Subject \in Nat
           /\ 1 \in 1 .. Len(pending) /\ pending[1] = [what |-> what, n |-> Subject]
           /\ \A i \in 1 .. Len(pending') : /\ i + 1 \in 1 .. Len(pending) /\ i + 1 # 1
                                            /\ pending'[i] = pending[i + 1]
           /\ \A i \in 1 .. Len(pending) : i # 1 =>
                \E j \in 1 .. Len(pending') : pending'[j] = pending[i]
           /\ UNCHANGED <<commands, running, peer_channel>>
  <1>1. pending \in Seq(Asking) /\ pending # << >> /\ pending' = Tail(pending)
    BY DEF RoutesInv, TypeOK, Replied
  <1>2. /\ pending' \in Seq(Asking) /\ Len(pending') = Len(pending) - 1
        /\ Head(pending) \in Asking
        /\ \A i \in 1 .. Len(pending') : pending'[i] = pending[i + 1]
    BY <1>1, HeadTailProperties
  <1>3. Len(pending) \in Nat \ {0} /\ Head(pending) = pending[1]
    BY <1>1, EmptySeq
  <1>4. Subject \in Nat /\ pending[1] = [what |-> what, n |-> Subject]
    BY <1>2, <1>3 DEF Replied, Subject, Asking
  <1>5. ASSUME NEW i \in 1 .. Len(pending), i # 1
        PROVE  \E j \in 1 .. Len(pending') : pending'[j] = pending[i]
    <2>1. PICK j \in 1 .. Len(pending') : j + 1 = i
      <3>1. i - 1 \in 1 .. Len(pending') /\ (i - 1) + 1 = i
        BY <1>2, <1>3, <1>5
      <3> QED
        BY <3>1
    <2> QED
      BY <1>2, <2>1
  <1>6. \A i \in 1 .. Len(pending') : i + 1 \in 1 .. Len(pending) /\ i + 1 # 1
    BY <1>2, <1>3
  <1> QED
    BY <1>2, <1>3, <1>4, <1>5, <1>6 DEF Replied

(* A number that was waiting to be opened is opened or refused, or another *)
(* one is forgotten.                                                       *)
LEMMA PoppedNumbers ==
    ASSUME RoutesInv, NEW what, Replied(what),
           \A n \in DOMAIN channels' : n \in DOMAIN channels \/ (n = Subject /\ what = "start"),
           UNCHANGED <<next_channel, requests>>
    PROVE  NumbersGiven'
  <1>1. UNCHANGED peer_channel /\ \A m : Given(m)' <=> Given(m)
    BY Popped DEF Given
  <1>2. /\ 1 \in 1 .. Len(pending) /\ pending[1] = [what |-> what, n |-> Subject]
        /\ \A i \in 1 .. Len(pending') : /\ i + 1 \in 1 .. Len(pending) /\ i + 1 # 1
                                         /\ pending'[i] = pending[i + 1]
        /\ pending' \in Seq(Asking) /\ pending \in Seq(Asking)
    BY Popped DEF RoutesInv, TypeOK
  <1>3. what = "start" => Given(Subject)
    <2>1. pending[1].what = what /\ pending[1].n = Subject
      BY <1>2
    <2> QED
      BY <1>2, <2>1 DEF RoutesInv, NumbersGiven
  <1>4. /\ next_channel' \in Odd /\ peer_channel' \in Nat \ Odd
        /\ \A m \in DOMAIN channels' : Given(m)'
        /\ \A r \in requests' : Given(r.n)'
    BY <1>1, <1>3 DEF RoutesInv, NumbersGiven
  <1>5. ASSUME NEW i \in 1 .. Len(pending'), pending'[i].what = "start"
        PROVE  /\ pending'[i].n \in Odd /\ Given(pending[i].n)'
               /\ pending'[i].n \notin DOMAIN channels'
               /\ \A r \in requests' : r.n # pending'[i].n
               /\ \A j \in 1 .. Len(pending') : pending'[j] = pending'[i] => i = j
    <2>1. PICK h \in 1 .. Len(pending) : h = i + 1 /\ h # 1 /\ pending'[i] = pending[h]
      BY <1>2
    <2>2. PICK m : m = pending[h].n
      OBVIOUS
    <2>3. /\ m \in Odd /\ Given(m) /\ m \notin DOMAIN channels
          /\ \A r \in requests : r.n # m
          /\ \A j \in 1 .. Len(pending) : pending[j] = pending[h] => h = j
      BY <1>5, <2>1, <2>2 DEF RoutesInv, NumbersGiven
    <2>4. pending[h] \in Asking
      BY <1>2, ElementOfSeq
    <2>5. pending[h] = [what |-> "start", n |-> m]
      BY <1>5, <2>1, <2>2, <2>4 DEF Asking
    <2>6. what = "start" => m # Subject
      BY <1>2, <2>1, <2>3, <2>5
    <2>7. ASSUME NEW j \in 1 .. Len(pending'), pending'[j] = pending'[i]
          PROVE  i = j
      <3>1. PICK l \in 1 .. Len(pending) : l = j + 1 /\ pending'[j] = pending[l]
        BY <1>2
      <3>2. h = l
        BY <2>1, <2>3, <2>7, <3>1
      <3> QED
        BY <2>1, <3>1, <3>2
    <2>8. Given(m)' /\ m = pending'[i].n
      BY <1>1, <2>1, <2>2, <2>3
    <2> QED
      BY <2>3, <2>6, <2>7, <2>8
  <1> QED
    BY <1>4, <1>5 DEF NumbersGiven

(* Removing a route by its number, with the callers told of it.            *)
LEMMA Answered ==
    ASSUME RoutesInv, NEW n, NEW result \in Results,
           \/ opens' = Without(opens, n) /\ closes' = closes
              /\ Tell(Holders(At(opens, n)), result)
           \/ closes' = Without(closes, n) /\ opens' = opens
              /\ Tell(Holders(At(closes, n)), result),
           UNCHANGED <<commands, session_close, requests, ready>>
    PROVE  /\ calls' \in [Callers -> CallStates] /\ FromSelf' /\ Single' /\ Apart'
           /\ opens' \subseteq opens /\ closes' \subseteq closes
  <1>1. /\ opens \in SUBSET Routing /\ OneEach(opens)
        /\ closes \in SUBSET Routing /\ OneEach(closes)
    BY DEF RoutesInv, TypeOK, Single
  <1>2. PICK ks : /\ ks = Holders(At(opens, n)) \/ ks = Holders(At(closes, n))
                  /\ Tell(ks, result)
                  /\ \/ /\ opens' = Without(opens, n) /\ closes' = closes
                        /\ ks = Holders(At(opens, n))
                     \/ /\ closes' = Without(closes, n) /\ opens' = opens
                        /\ ks = Holders(At(closes, n))
    OBVIOUS
  <1>3. /\ calls' \in [Callers -> CallStates] /\ FromSelf'
        /\ \A k \in Callers : Waiting(k)' <=> Waiting(k) /\ k \notin ks
    BY <1>2, Telling DEF RoutesInv, TypeOK
  <1>4. Queued' = Queued
    BY DEF Queued
  <1>5. CASE opens' = Without(opens, n) /\ closes' = closes /\ ks = Holders(At(opens, n))
    <2>1. /\ opens' \subseteq opens /\ OneEach(opens')
          /\ \A k : k \in Holders(opens') <=> k \in Holders(opens) /\ k \notin ks
      BY <1>1, <1>5, Dismissed
    <2>2. Single'
      BY <1>5, <2>1 DEF RoutesInv, Single
    <2>3. Apart'
      <3> SUFFICES ASSUME NEW k \in Callers
                   PROVE  Kept(k)'
        BY DEF Apart
      <3>1. Kept(k) /\ (k \in ks => k \in Holders(opens))
        BY <1>5 DEF RoutesInv, Apart, Holders, At
      <3> QED
        BY <1>3, <1>4, <1>5, <2>1, <3>1 DEF Kept, Routed
    <2> QED
      BY <1>3, <1>5, <2>1, <2>2, <2>3
  <1>6. CASE closes' = Without(closes, n) /\ opens' = opens /\ ks = Holders(At(closes, n))
    <2>1. /\ closes' \subseteq closes /\ OneEach(closes')
          /\ \A k : k \in Holders(closes') <=> k \in Holders(closes) /\ k \notin ks
      BY <1>1, <1>6, Dismissed
    <2>2. Single'
      BY <1>6, <2>1 DEF RoutesInv, Single
    <2>3. Apart'
      <3> SUFFICES ASSUME NEW k \in Callers
                   PROVE  Kept(k)'
        BY DEF Apart
      <3>1. Kept(k) /\ (k \in ks => k \in Holders(closes))
        BY <1>6 DEF RoutesInv, Apart, Holders, At
      <3> QED
        BY <1>3, <1>4, <1>6, <2>1, <3>1 DEF Kept, Routed
    <2> QED
      BY <1>3, <1>6, <2>1, <2>2, <2>3
  <1> QED
    BY <1>2, <1>5, <1>6

(* The routes that are left wait for requests behind the one answered.     *)
LEMMA PoppedBacked ==
    ASSUME RoutesInv, NEW what, Replied(what), opens' \subseteq opens, closes' \subseteq closes,
           what = "start" => \A r \in opens' : r.n # Subject,
           what = "close" => \A r \in closes' : r.n # Subject
    PROVE  /\ \A r \in opens' : \E i \in 1 .. Len(pending') :
                pending'[i] = [what |-> "start", n |-> r.n]
           /\ \A r \in closes' : \E i \in 1 .. Len(pending') :
                pending'[i] = [what |-> "close", n |-> r.n]
  <1>0. /\ pending[1].what = what /\ pending[1].n = Subject
        /\ \A i \in 1 .. Len(pending) : i # 1 =>
             \E j \in 1 .. Len(pending') : pending'[j] = pending[i]
    <2>1. /\ pending[1] = [what |-> what, n |-> Subject]
          /\ \A i \in 1 .. Len(pending) : i # 1 =>
               \E j \in 1 .. Len(pending') : pending'[j] = pending[i]
      BY Popped
    <2> QED
      BY <2>1
  <1>1. ASSUME NEW r \in opens'
        PROVE  \E i \in 1 .. Len(pending') : pending'[i] = [what |-> "start", n |-> r.n]
    <2>1. PICK i \in 1 .. Len(pending) : pending[i] = [what |-> "start", n |-> r.n]
      BY DEF RoutesInv, RoutesBacked
    <2>2. i # 1
      <3>1. pending[i].what = "start" /\ pending[i].n = r.n
        BY <2>1
      <3> QED
        BY <1>0, <3>1
    <2> QED
      BY <1>0, <2>1, <2>2
  <1>2. ASSUME NEW r \in closes'
        PROVE  \E i \in 1 .. Len(pending') : pending'[i] = [what |-> "close", n |-> r.n]
    <2>1. PICK i \in 1 .. Len(pending) : pending[i] = [what |-> "close", n |-> r.n]
      BY DEF RoutesInv, RoutesBacked
    <2>2. i # 1
      <3>1. pending[i].what = "close" /\ pending[i].n = r.n
        BY <2>1
      <3> QED
        BY <1>0, <3>1
    <2> QED
      BY <1>0, <2>1, <2>2
  <1> QED
    BY <1>1, <1>2

(* A channel that was neither open nor asked anything enters the session.  *)
LEMMA Entered ==
    ASSUME RoutesInv, NEW n \in Nat, n \notin DOMAIN channels, \A r \in requests : r.n # n,
           Enter(n), UNCHANGED <<requests, asked>>
    PROVE  /\ DOMAIN channels' = DOMAIN channels \cup {n}
           /\ DOMAIN channels' \subseteq Nat /\ channels' \in [DOMAIN channels' -> Channels]
           /\ AskedOpen' /\ \A r \in requests' : r \in asked' \/ Stranded(r)'
  <1>1. NewChannel \in Channels
    BY RoutesAssumption DEF NewChannel, Channels, MsgNos
  <1>2. /\ DOMAIN channels' = DOMAIN channels \cup {n}
        /\ channels' \in [DOMAIN channels' -> Channels] /\ DOMAIN channels' \subseteq Nat
        /\ \A c \in DOMAIN channels : channels'[c] = channels[c]
    BY <1>1 DEF Enter, RoutesInv, TypeOK
  <1>3. AskedOpen'
    BY <1>2 DEF RoutesInv, AskedOpen
  <1>4. \A r \in requests' : r \in asked' \/ Stranded(r)'
    BY <1>2 DEF RoutesInv, RoutesBacked, Stranded
  <1> QED
    BY <1>2, <1>3, <1>4

(* A channel is opened, and its caller gets a handle.                      *)
LEMMA ChannelOpenedInv ==
    ASSUME RoutesInv, ChannelOpened
    PROVE  RoutesInv'
  <1>1. PICK n \in Nat : n = Subject
    BY Popped DEF ChannelOpened
  <1>2. /\ Replied("start") /\ Enter(n) /\ opens' = Without(opens, n)
        /\ Tell(Holders(At(opens, n)), "Ok")
        /\ handles' = handles \cup {[n |-> n, epoch |-> epoch]}
        /\ UNCHANGED <<epoch, state, next_channel, closes, session_close, requests, ready, asked>>
    BY <1>1 DEF ChannelOpened
  <1>3. /\ pending' \in Seq(Asking) /\ UNCHANGED <<commands, running, peer_channel>>
        /\ 1 \in 1 .. Len(pending) /\ pending[1] = [what |-> "start", n |-> n]
    BY <1>1, <1>2, Popped
  <1>4. n \notin DOMAIN channels /\ \A r \in requests : r.n # n
    <2>1. pending[1].what = "start" /\ pending[1].n = n
      BY <1>3
    <2> QED
      BY <1>3, <2>1 DEF RoutesInv, NumbersGiven
  <1>5. /\ DOMAIN channels' = DOMAIN channels \cup {n}
        /\ DOMAIN channels' \subseteq Nat /\ channels' \in [DOMAIN channels' -> Channels]
        /\ AskedOpen' /\ \A r \in requests' : r \in asked' \/ Stranded(r)'
    BY <1>2, <1>4, Entered
  <1>6. /\ calls' \in [Callers -> CallStates] /\ FromSelf' /\ Single' /\ Apart'
        /\ opens' \subseteq opens
    BY <1>2, <1>3, Answered DEF Results
  <1>7. NumbersGiven'
    BY <1>1, <1>2, <1>5, PoppedNumbers
  <1>8. TypeOK'
    BY <1>2, <1>3, <1>5, <1>6 DEF RoutesInv, TypeOK
  <1>9. RoutesBacked'
    <2>1. \A r \in opens' : r.n # Subject
      BY <1>1, <1>2, Dismissed DEF RoutesInv, TypeOK, Single
    <2>2. /\ \A r \in opens' : \E i \in 1 .. Len(pending') :
                pending'[i] = [what |-> "start", n |-> r.n]
          /\ \A r \in closes' : \E i \in 1 .. Len(pending') :
                pending'[i] = [what |-> "close", n |-> r.n]
      BY <1>2, <1>6, <2>1, PoppedBacked
    <2> QED
      BY <1>2, <1>5, <2>2 DEF RoutesInv, RoutesBacked
  <1> QED
    BY <1>5, <1>6, <1>7, <1>8, <1>9 DEF RoutesInv

(* A start or a close is refused.                                          *)
LEMMA RefusedInv ==
    ASSUME RoutesInv, StartRefused \/ CloseRefused
    PROVE  RoutesInv'
  <1>1. PICK what \in {"start", "close"} :
          /\ Replied(what)
          /\ what = "start" => /\ opens' = Without(opens, Subject) /\ closes' = closes
                               /\ Tell(Holders(At(opens, Subject)), "Refused")
          /\ what = "close" => /\ closes' = Without(closes, Subject) /\ opens' = opens
                               /\ Tell(Holders(At(closes, Subject)), "Refused")
          /\ UNCHANGED <<handles, epoch, state, channels, next_channel, session_close, requests,
                         ready, asked>>
    BY DEF StartRefused, CloseRefused, session
  <1>2. pending' \in Seq(Asking) /\ UNCHANGED <<commands, running, peer_channel>>
    BY <1>1, Popped
  <1>3. /\ calls' \in [Callers -> CallStates] /\ FromSelf' /\ Single' /\ Apart'
        /\ opens' \subseteq opens /\ closes' \subseteq closes
    BY <1>1, <1>2, Answered DEF Results
  <1>4. NumbersGiven'
    BY <1>1, PoppedNumbers
  <1>5. TypeOK'
    BY <1>1, <1>2, <1>3 DEF RoutesInv, TypeOK
  <1>6. AskedOpen'
    BY <1>1 DEF RoutesInv, AskedOpen
  <1>7. RoutesBacked'
    <2>1. /\ what = "start" => \A r \in opens' : r.n # Subject
          /\ what = "close" => \A r \in closes' : r.n # Subject
      BY <1>1, Dismissed DEF RoutesInv, TypeOK, Single
    <2>2. /\ \A r \in opens' : \E i \in 1 .. Len(pending') :
                pending'[i] = [what |-> "start", n |-> r.n]
          /\ \A r \in closes' : \E i \in 1 .. Len(pending') :
                pending'[i] = [what |-> "close", n |-> r.n]
      BY <1>1, <1>3, <2>1, PoppedBacked
    <2> QED
      BY <1>1, <2>2 DEF RoutesInv, RoutesBacked, Stranded
  <1> QED
    BY <1>3, <1>4, <1>5, <1>6, <1>7 DEF RoutesInv

(* A channel is forgotten, with what the peer was asked there.             *)
LEMMA Forgotten ==
    ASSUME RoutesInv, NEW n, Forget(n), UNCHANGED commands
    PROVE  /\ DOMAIN channels' \subseteq DOMAIN channels
           /\ channels' \in [DOMAIN channels' -> Channels] /\ asked' \subseteq asked
           /\ AskedOpen' /\ \A r \in requests' : r \in asked' \/ Stranded(r)'
           /\ calls' \in [Callers -> CallStates] /\ FromSelf' /\ Single' /\ Apart'
           /\ closes' \subseteq closes /\ \A r \in closes' : r.n # n
           /\ UNCHANGED <<handles, epoch, state, next_channel, opens, session_close, requests,
                          ready>>
  <1>1. /\ channels' = [c \in DOMAIN channels \ {n} |-> channels[c]]
        /\ asked' = {r \in asked : r.n # n}
        /\ closes' = Without(closes, n) /\ Tell(Holders(At(closes, n)), "Ok")
        /\ UNCHANGED <<handles, epoch, state, next_channel, opens, session_close, requests,
                       ready>>
    BY DEF Forget, Leave
  <1>2. /\ DOMAIN channels' = DOMAIN channels \ {n}
        /\ channels' \in [DOMAIN channels' -> Channels]
        /\ \A c \in DOMAIN channels' : channels'[c] = channels[c]
    BY <1>1 DEF RoutesInv, TypeOK
  <1>3. AskedOpen'
    BY <1>1, <1>2 DEF RoutesInv, AskedOpen
  <1>4. \A r \in requests' : r \in asked' \/ Stranded(r)'
    BY <1>1, <1>2 DEF RoutesInv, RoutesBacked, Stranded
  <1>5. /\ calls' \in [Callers -> CallStates] /\ FromSelf' /\ Single' /\ Apart'
        /\ closes' \subseteq closes
    BY <1>1, Answered DEF Results
  <1>6. \A r \in closes' : r.n # n
    BY <1>1, Dismissed DEF RoutesInv, TypeOK, Single
  <1> QED
    BY <1>1, <1>2, <1>3, <1>4, <1>5, <1>6

(* The peer agrees to close a channel.                                     *)
LEMMA ChannelClosedInv ==
    ASSUME RoutesInv, ChannelClosed
    PROVE  RoutesInv'
  <1>1. Replied("close") /\ Forget(Subject)
    BY DEF ChannelClosed
  <1>2. pending' \in Seq(Asking) /\ UNCHANGED <<commands, running, peer_channel>>
    BY <1>1, Popped
  <1>3. PICK n : n = Subject
    OBVIOUS
  <1>4. /\ DOMAIN channels' \subseteq DOMAIN channels
        /\ channels' \in [DOMAIN channels' -> Channels] /\ asked' \subseteq asked
        /\ AskedOpen' /\ \A r \in requests' : r \in asked' \/ Stranded(r)'
        /\ calls' \in [Callers -> CallStates] /\ FromSelf' /\ Single' /\ Apart'
        /\ closes' \subseteq closes /\ \A r \in closes' : r.n # n
        /\ UNCHANGED <<handles, epoch, state, next_channel, opens, session_close, requests,
                       ready>>
    BY <1>1, <1>2, <1>3, Forgotten
  <1>5. TypeOK'
    BY <1>2, <1>4 DEF RoutesInv, TypeOK
  <1>6. NumbersGiven'
    BY <1>1, <1>4, PoppedNumbers
  <1>7. RoutesBacked'
    <2>1. /\ \A r \in opens' : \E i \in 1 .. Len(pending') :
                pending'[i] = [what |-> "start", n |-> r.n]
          /\ \A r \in closes' : \E i \in 1 .. Len(pending') :
                pending'[i] = [what |-> "close", n |-> r.n]
      BY <1>1, <1>3, <1>4, PoppedBacked
    <2> QED
      BY <1>4, <2>1 DEF RoutesInv, RoutesBacked
  <1> QED
    BY <1>4, <1>5, <1>6, <1>7 DEF RoutesInv

(* The peer closes a channel.                                              *)
LEMMA PeerClosesInv ==
    ASSUME RoutesInv, PeerCloses
    PROVE  RoutesInv'
  <1>1. PICK n \in DOMAIN channels : Forget(n)
    BY DEF PeerCloses
  <1>2. UNCHANGED <<commands, running, pending, peer_channel>>
    BY DEF PeerCloses
  <1>3. /\ DOMAIN channels' \subseteq DOMAIN channels
        /\ channels' \in [DOMAIN channels' -> Channels] /\ asked' \subseteq asked
        /\ AskedOpen' /\ \A r \in requests' : r \in asked' \/ Stranded(r)'
        /\ calls' \in [Callers -> CallStates] /\ FromSelf' /\ Single' /\ Apart'
        /\ closes' \subseteq closes /\ \A r \in closes' : r.n # n
        /\ UNCHANGED <<handles, epoch, state, next_channel, opens, session_close, requests,
                       ready>>
    BY <1>1, <1>2, Forgotten
  <1>4. TypeOK'
    BY <1>2, <1>3 DEF RoutesInv, TypeOK
  <1>5. NumbersGiven'
    BY <1>2, <1>3 DEF RoutesInv, NumbersGiven, Given
  <1>6. RoutesBacked'
    BY <1>2, <1>3 DEF RoutesInv, RoutesBacked
  <1> QED
    BY <1>3, <1>4, <1>5, <1>6 DEF RoutesInv

(* The peer opens a channel, under a number of its own.                    *)
LEMMA PeerStartsInv ==
    ASSUME RoutesInv, PeerStarts
    PROVE  RoutesInv'
  <1>1. PICK n \in Nat \ Odd : n = peer_channel
    BY DEF RoutesInv, NumbersGiven
  <1>2. /\ peer_channel' = n + 2 /\ Enter(n)
        /\ handles' = handles \cup {[n |-> n, epoch |-> epoch]}
        /\ UNCHANGED <<calls, commands, running, epoch, state, next_channel, opens, closes,
                       session_close, requests, ready, pending, asked>>
    BY <1>1 DEF PeerStarts, routes
  <1>3. ~Given(n) /\ Given(n)' /\ \A m : Given(m) => Given(m)'
    BY <1>1, <1>2 DEF Given
  <1>4. n \notin DOMAIN channels /\ \A r \in requests : r.n # n
    BY <1>3 DEF RoutesInv, NumbersGiven
  <1>5. /\ DOMAIN channels' = DOMAIN channels \cup {n}
        /\ DOMAIN channels' \subseteq Nat /\ channels' \in [DOMAIN channels' -> Channels]
        /\ AskedOpen' /\ \A r \in requests' : r \in asked' \/ Stranded(r)'
    BY <1>2, <1>4, Entered
  <1>6. TypeOK'
    BY <1>2, <1>5 DEF RoutesInv, TypeOK
  <1>7. Single' /\ FromSelf'
    BY <1>2 DEF RoutesInv, Single, FromSelf
  <1>8. Apart'
    BY <1>2 DEF RoutesInv, Apart, Kept, Waiting, Queued, Routed
  <1>9. NumbersGiven'
    <2>1. /\ next_channel' \in Odd /\ peer_channel' \in Nat \ Odd
          /\ \A m \in DOMAIN channels' : Given(m)'
          /\ \A r \in requests' : Given(r.n)'
      BY <1>2, <1>3, <1>5, Parity DEF RoutesInv, NumbersGiven
    <2>2. \A i \in 1 .. Len(pending') : pending'[i].what = "start" =>
            /\ pending'[i].n \in Odd /\ Given(pending[i].n)'
            /\ pending'[i].n \notin DOMAIN channels'
            /\ \A r \in requests' : r.n # pending'[i].n
            /\ \A j \in 1 .. Len(pending') : pending'[j] = pending'[i] => i = j
      <3> SUFFICES ASSUME NEW i \in 1 .. Len(pending), pending[i].what = "start"
                   PROVE  /\ pending[i].n \in Odd /\ Given(pending[i].n)'
                          /\ pending[i].n \notin DOMAIN channels'
                          /\ \A r \in requests : r.n # pending[i].n
                          /\ \A j \in 1 .. Len(pending) : pending[j] = pending[i] => i = j
        BY <1>2
      <3>1. PICK m : m = pending[i].n
        OBVIOUS
      <3>2. /\ m \in Odd /\ Given(m) /\ m \notin DOMAIN channels
            /\ \A r \in requests : r.n # m
            /\ \A j \in 1 .. Len(pending) : pending[j] = pending[i] => i = j
        BY <3>1 DEF RoutesInv, NumbersGiven
      <3>3. Given(m)' /\ m = pending'[i].n
        BY <1>2, <1>3, <3>1, <3>2
      <3> QED
        BY <1>1, <1>5, <3>1, <3>2, <3>3
    <2> QED
      BY <2>1, <2>2 DEF NumbersGiven
  <1>10. RoutesBacked'
    BY <1>2, <1>5 DEF RoutesInv, RoutesBacked
  <1> QED
    BY <1>5, <1>6, <1>7, <1>8, <1>9, <1>10 DEF RoutesInv

(* The route of a message the peer has still to answer is the one that was *)
(* kept for it, if it is there at all.                                     *)
LEMMA ItsRoute ==
    ASSUME RoutesInv, NEW r \in asked
    PROVE  RouteOf(r) = IF r \in requests THEN {r} ELSE {}
  <1>1. ASSUME NEW q \in RouteOf(r)
        PROVE  q = r /\ q \in requests
    <2>1. q \in requests /\ q.n = r.n /\ q.msgno = r.msgno
      BY DEF RouteOf
    <2>2. q \in asked
      BY <2>1 DEF RoutesInv, AskedOpen, RoutesBacked, Stranded
    <2> QED
      BY <2>1, <2>2 DEF RoutesInv, AskedOpen
  <1>2. r \in requests => r \in RouteOf(r)
    BY DEF RouteOf
  <1> QED
    BY <1>1, <1>2

(* An answer is kept with its request.                                     *)
LEMMA AnswerReceivedInv ==
    ASSUME RoutesInv, AnswerReceived
    PROVE  RoutesInv'
  <1>1. UNCHANGED <<calls, handles, commands, running, epoch, state, channels, next_channel,
                    opens, closes, session_close, ready, pending, peer_channel>>
    BY DEF AnswerReceived, session
  <1>2. PICK r \in asked :
          /\ asked' = (asked \ {r}) \cup {[r EXCEPT !.answers = @ + 1]}
          /\ requests' = (requests \ RouteOf(r))
                         \cup {[q EXCEPT !.answers = @ + 1] : q \in RouteOf(r)}
    BY DEF AnswerReceived
  <1>3. PICK a : a = [r EXCEPT !.answers = @ + 1]
    OBVIOUS
  <1>4. /\ r \in Messages /\ a \in Messages
        /\ a.n = r.n /\ a.msgno = r.msgno /\ a.k = r.k
    <2>1. r \in Messages
      BY DEF RoutesInv, TypeOK
    <2> QED
      BY <1>3, <2>1 DEF Messages
  <1>5. asked' = (asked \ {r}) \cup {a}
    BY <1>2, <1>3
  <1>6. requests' = IF r \in requests THEN (requests \ {r}) \cup {a} ELSE requests
    BY <1>2, <1>3, ItsRoute
  <1>7. /\ \A q \in requests' : q = a \/ (q \in requests /\ q # r)
        /\ \A q \in requests : (q \in requests' /\ q # r) \/ (q = r /\ a \in requests')
        /\ a \in requests' => r \in requests \/ a \in requests
    BY <1>2, <1>6
  <1>8. r \notin requests => requests' = requests
    BY <1>6
  <1>9. OneEach(requests') /\ \A k : k \in Holders(requests') <=> k \in Holders(requests)
    <2>1. OneEach(requests)
      BY DEF RoutesInv, Single
    <2>2. CASE r \in requests
      <3>1. requests' = (requests \ {r}) \cup {a}
        BY <1>6, <2>2
      <3> QED
        BY <1>4, <2>1, <2>2, <3>1 DEF OneEach, Holders
    <2>3. CASE r \notin requests
      BY <1>8, <2>1, <2>3
    <2> QED
      BY <2>2, <2>3
  <1>10. TypeOK'
    <2>1. requests' \subseteq Messages /\ asked' \subseteq Messages
      BY <1>4, <1>5, <1>6 DEF RoutesInv, TypeOK
    <2> QED
      BY <1>1, <2>1 DEF RoutesInv, TypeOK
  <1>11. Single' /\ FromSelf'
    BY <1>1, <1>9 DEF RoutesInv, Single, FromSelf
  <1>12. Apart'
    <2> SUFFICES ASSUME NEW k \in Callers
                 PROVE  Kept(k)'
      BY DEF Apart
    <2>1. Kept(k)
      BY DEF RoutesInv, Apart
    <2>2. /\ Waiting(k)' <=> Waiting(k)
          /\ k \in Queued' <=> k \in Queued
          /\ k \in Holders(opens)' <=> k \in Holders(opens)
          /\ k \in Holders(closes)' <=> k \in Holders(closes)
          /\ k \in Holders(requests)' <=> k \in Holders(requests)
          /\ k \in ready' <=> k \in ready
          /\ k \in session_close' <=> k \in session_close
      BY <1>1, <1>9 DEF Waiting, Queued
    <2> QED
      BY <2>1, <2>2 DEF Kept, Routed
  <1>13. \A q \in requests' : \E p \in requests : q.n = p.n
    BY <1>2, <1>4, <1>6
  <1>14. NumbersGiven'
    BY <1>1, <1>13 DEF RoutesInv, NumbersGiven, Given
  <1>15. AskedOpen'
    <2>1. r.n \in DOMAIN channels /\ r.msgno \in channels[r.n].used
      BY DEF RoutesInv, AskedOpen
    <2>2. \A q \in asked' : q = a \/ (q \in asked /\ q # r)
      BY <1>5
    <2>3. \A q \in asked' : q.n \in DOMAIN channels' /\ q.msgno \in channels'[q.n].used
      BY <1>1, <1>4, <2>1, <2>2 DEF RoutesInv, AskedOpen
    <2>4. \A p, q \in asked' : p.n = q.n /\ p.msgno = q.msgno => p = q
      BY <1>4, <2>2 DEF RoutesInv, AskedOpen
    <2> QED
      BY <2>3, <2>4 DEF AskedOpen
  <1>16. RoutesBacked'
    <2>1. \A q \in requests' : q \in asked' \/ Stranded(q)'
      BY <1>1, <1>5, <1>7 DEF RoutesInv, RoutesBacked, Stranded
    <2> QED
      BY <1>1, <2>1 DEF RoutesInv, RoutesBacked
  <1> QED
    BY <1>10, <1>11, <1>12, <1>14, <1>15, <1>16 DEF RoutesInv

(* A reply completes the oneshot of the caller who asked.                  *)
LEMMA ReplyReceivedInv ==
    ASSUME RoutesInv, ReplyReceived
    PROVE  RoutesInv'
  <1>1. UNCHANGED <<handles, commands, running, epoch, state, channels, next_channel, opens,
                    closes, session_close, ready, pending, peer_channel>>
    BY DEF ReplyReceived, session
  <1>2. PICK r \in asked :
          /\ asked' = asked \ {r}
          /\ requests' = requests \ RouteOf(r)
          /\ calls' = [k \in Callers |->
                         IF k \in Holders(RouteOf(r))
                           THEN [calls[k] EXCEPT !.told = "Reply", !.from = r.k]
                           ELSE calls[k]]
    BY DEF ReplyReceived
  <1>3. PICK ks : ks = Holders(RouteOf(r))
    OBVIOUS
  <1>4. ks \subseteq {r.k} /\ r.k \in Callers
    BY <1>3, ItsRoute DEF Holders, RoutesInv, TypeOK, Messages
  <1>5. RouteOf(r) \in SUBSET requests /\ RouteOf(r) \subseteq {r}
    BY ItsRoute DEF RouteOf
  <1>6. /\ OneEach(requests')
        /\ \A k : k \in Holders(requests') <=> k \in Holders(requests) /\ k \notin ks
    BY <1>2, <1>3, <1>5, Removed DEF RoutesInv, Single
  <1>7. ks \subseteq Holders(requests)
    BY <1>3, <1>5 DEF Holders
  <1>8. ASSUME NEW k \in Callers
        PROVE  /\ calls'[k] \in CallStates /\ calls'[k].from = k
               /\ Waiting(k)' <=> Waiting(k) /\ k \notin ks
    <2>1. calls[k] \in CallStates /\ calls[k].from = k
      BY DEF RoutesInv, TypeOK, FromSelf
    <2>2. CASE k \in ks
      <3>1. calls'[k] = [calls[k] EXCEPT !.told = "Reply", !.from = r.k] /\ k = r.k
        BY <1>2, <1>3, <1>4, <2>2
      <3> QED
        BY <2>1, <2>2, <3>1 DEF CallStates, Results, Waiting
    <2>3. CASE k \notin ks
      BY <1>2, <1>3, <2>1, <2>3 DEF Waiting
    <2> QED
      BY <2>2, <2>3
  <1>9. calls' \in [Callers -> CallStates] /\ FromSelf'
    BY <1>2, <1>8 DEF FromSelf
  <1>10. TypeOK'
    BY <1>1, <1>2, <1>9 DEF RoutesInv, TypeOK
  <1>11. Single'
    BY <1>1, <1>6 DEF RoutesInv, Single
  <1>12. Apart'
    <2> SUFFICES ASSUME NEW k \in Callers
                 PROVE  Kept(k)'
      BY DEF Apart
    <2>1. Kept(k)
      BY DEF RoutesInv, Apart
    <2>2. /\ Waiting(k)' <=> Waiting(k) /\ k \notin ks
          /\ k \in Queued' <=> k \in Queued
          /\ k \in Holders(opens)' <=> k \in Holders(opens)
          /\ k \in Holders(closes)' <=> k \in Holders(closes)
          /\ k \in Holders(requests)' <=> k \in Holders(requests) /\ k \notin ks
          /\ k \in ready' <=> k \in ready
          /\ k \in session_close' <=> k \in session_close
      BY <1>1, <1>6, <1>8 DEF Queued
    <2> QED
      BY <1>7, <2>1, <2>2 DEF Kept, Routed
  <1>13. NumbersGiven'
    BY <1>1, <1>2 DEF RoutesInv, NumbersGiven, Given
  <1>14. AskedOpen'
    BY <1>1, <1>2 DEF RoutesInv, AskedOpen
  <1>15. RoutesBacked'
    <2>1. \A q \in requests' : q \in asked' \/ Stranded(q)'
      BY <1>1, <1>2, ItsRoute DEF RoutesInv, RoutesBacked, Stranded
    <2> QED
      BY <1>1, <2>1 DEF RoutesInv, RoutesBacked
  <1> QED
    BY <1>9, <1>10, <1>11, <1>12, <1>13, <1>14, <1>15 DEF RoutesInv

(* Every step keeps the invariant.                                         *)
LEMMA NextInv ==
    ASSUME RoutesInv, [Next]_vars
    PROVE  RoutesInv'
  <1>1. CASE Calls
    <2>1. PICK k \in Callers, what \in Kinds, n \in Nat, e \in Nat : Call(k, what, n, e)
      <3>1. epoch \in Nat /\ 0 \in Nat /\ \A h \in handles : h.n \in Nat /\ h.epoch \in Nat
        BY DEF RoutesInv, TypeOK
      <3>2. Kinds = {"open", "close", "session", "upgrade", "request"}
        BY DEF Kinds
      <3>3. CASE CallOpen
        BY <3>1, <3>2, <3>3 DEF CallOpen
      <3>4. CASE CallClose
        <4>1. PICK k \in Callers, n \in {0} \cup {h.n : h \in handles} :
                Call(k, "close", n, epoch)
          BY <3>4 DEF CallClose
        <4>2. n \in Nat
          BY <3>1
        <4> QED
          BY <3>1, <3>2, <4>1, <4>2
      <3>5. CASE CallSession
        BY <3>1, <3>2, <3>5 DEF CallSession
      <3>6. CASE CallUpgrade
        BY <3>1, <3>2, <3>6 DEF CallUpgrade
      <3>7. CASE CallRequest
        BY <3>1, <3>2, <3>7 DEF CallRequest
      <3> QED
        BY <1>1, <3>3, <3>4, <3>5, <3>6, <3>7 DEF Calls
    <2> QED
      BY <2>1, CallInv
  <1>2. CASE Applies
    BY <1>2, ApplyOpenInv, ApplyCloseInv, ApplySessionInv, ApplyRequestInv, UpgradeInv, EndsInv
       DEF Applies
  <1>3. CASE Replies
    BY <1>3, ChannelOpenedInv, RefusedInv, ChannelClosedInv, EndsInv DEF Replies
  <1>4. CASE Peer
    BY <1>4, GreetingInv, PeerClosesInv, PeerStartsInv, AnswerReceivedInv, ReplyReceivedInv,
       EndsInv DEF Peer
  <1>5. CASE End
    BY <1>5, EndsInv
  <1>6. CASE UNCHANGED vars
    <2>1. UNCHANGED <<calls, handles, commands, running, epoch, state, channels, next_channel,
                      opens, closes, session_close, requests, ready, pending, asked, peer_channel>>
      BY <1>6 DEF vars, session, routes, peer
    <2>2. TypeOK' /\ Single' /\ FromSelf'
      BY <2>1 DEF RoutesInv, TypeOK, Single, FromSelf
    <2>3. Apart'
      BY <2>1 DEF RoutesInv, Apart, Kept, Waiting, Queued, Routed
    <2>4. NumbersGiven' /\ AskedOpen' /\ RoutesBacked'
      BY <2>1, SessionKept DEF session, peer
    <2> QED
      BY <2>2, <2>3, <2>4 DEF RoutesInv
  <1> QED
    BY <1>1, <1>2, <1>3, <1>4, <1>5, <1>6 DEF Next

-----------------------------------------------------------------------------
(* Theorems.                                                               *)

(* Each of the driver's steps keeps the oneshots apart, each in the place  *)
(* its call has reached, and what they wait for under way.                 *)
THEOREM Inductive == Spec => []RoutesInv
  BY InitInv, NextInv, PTL DEF Spec, Safety

(* The driver's fields, its queue and what its callers have been told have *)
(* their types, and message numbers stay in range when they wrap.          *)
THEOREM TypeCorrect == Spec => []TypeOK
  <1>1. RoutesInv => TypeOK
    BY DEF RoutesInv
  <1> QED
    BY Inductive, <1>1, PTL

(* Every request that is routed is one the peer has still to answer, or is *)
(* on a channel that has been closed, and so for opens, closes and the     *)
(* greeting: no route outlives what would complete it.                     *)
THEOREM Backed == Spec => []RoutesBacked
  <1>1. RoutesInv => RoutesBacked
    BY DEF RoutesInv
  <1> QED
    BY Inductive, <1>1, PTL

(* A set whose members are all the same has at most one.                   *)
LEMMA AtMostOne ==
    ASSUME NEW S, \A a, b \in S : a = b
    PROVE  Cardinality(S) = IF S = {} THEN 0 ELSE 1
  <1>1. CASE S = {}
    BY <1>1, FS_EmptySet
  <1>2. CASE S # {}
    <2>1. PICK a : S = {a}
      BY <1>2
    <2> QED
      BY <1>2, <2>1, FS_Singleton
  <1> QED
    BY <1>1, <1>2

(* How many oneshots of one caller a map holds.                            *)
LEMMA CountInMap ==
    ASSUME NEW map, NEW k, OneEach(map)
    PROVE  Cardinality({r \in map : r.k = k}) = IF k \in Holders(map) THEN 1 ELSE 0
  <1> DEFINE S == {r \in map : r.k = k}
  <1>1. \A a, b \in S : a = b
    BY DEF OneEach
  <1>2. S = {} <=> k \notin Holders(map)
    BY DEF Holders
  <1> HIDE DEF S
  <1>3. Cardinality(S) = IF k \in Holders(map) THEN 1 ELSE 0
    BY <1>1, <1>2, AtMostOne
  <1> QED
    BY <1>3 DEF S

(* How many oneshots of one caller a set of callers holds.                 *)
LEMMA CountInSet ==
    ASSUME NEW set, NEW k
    PROVE  Cardinality({k} \cap set) = IF k \in set THEN 1 ELSE 0
  <1> DEFINE S == {k} \cap set
  <1>1. (\A a, b \in S : a = b) /\ (S = {} <=> k \notin set)
    OBVIOUS
  <1> HIDE DEF S
  <1>2. Cardinality(S) = IF k \in set THEN 1 ELSE 0
    BY <1>1, AtMostOne
  <1> QED
    BY <1>2 DEF S

(* A caller waits exactly as long as its oneshot is in one place of the    *)
(* driver: in the queue of commands, in one of the maps of Routes, or with *)
(* those who wait for the greeting. None is mislaid and none is completed  *)
(* twice, whatever the peer does and however often the session is replaced.*)
THEOREM OneshotsHeldOnce == Spec => []HeldOnce
  <1>1. ASSUME RoutesInv, NEW k \in Callers
        PROVE  Places(k) = IF Waiting(k) THEN 1 ELSE 0
    <2> DEFINE S == {i \in 1 .. Len(commands) : commands[i].k = k}
    <2>1. Cardinality(S) = IF k \in Queued THEN 1 ELSE 0
      <3>1. \A a, b \in S : a = b
        BY <1>1 DEF RoutesInv, Single
      <3>2. S = {} <=> k \notin Queued
        BY DEF Queued
      <3> HIDE DEF S
      <3> QED
        BY <3>1, <3>2, AtMostOne
    <2>2. /\ Cardinality({r \in opens : r.k = k}) = IF k \in Holders(opens) THEN 1 ELSE 0
          /\ Cardinality({r \in closes : r.k = k}) = IF k \in Holders(closes) THEN 1 ELSE 0
          /\ Cardinality({r \in requests : r.k = k}) = IF k \in Holders(requests) THEN 1 ELSE 0
      BY <1>1, CountInMap DEF RoutesInv, Single
    <2>3. /\ Cardinality({k} \cap session_close) = IF k \in session_close THEN 1 ELSE 0
          /\ Cardinality({k} \cap ready) = IF k \in ready THEN 1 ELSE 0
      BY CountInSet
    <2>4. Places(k) = (IF k \in Queued THEN 1 ELSE 0)
                      + (IF k \in Holders(opens) THEN 1 ELSE 0)
                      + (IF k \in Holders(closes) THEN 1 ELSE 0)
                      + (IF k \in session_close THEN 1 ELSE 0)
                      + (IF k \in Holders(requests) THEN 1 ELSE 0)
                      + (IF k \in ready THEN 1 ELSE 0)
      <3> HIDE DEF S
      <3>1. Places(k) = Cardinality(S)
                        + Cardinality({r \in opens : r.k = k})
                        + Cardinality({r \in closes : r.k = k})
                        + Cardinality({k} \cap session_close)
                        + Cardinality({r \in requests : r.k = k})
                        + Cardinality({k} \cap ready)
        BY DEF Places, S
      <3> QED
        BY <2>1, <2>2, <2>3, <3>1
    <2>5. Kept(k)
      BY <1>1 DEF RoutesInv, Apart
    <2> QED
      BY <2>4, <2>5 DEF Kept, Routed
  <1>2. RoutesInv => HeldOnce
    BY <1>1 DEF HeldOnce
  <1> QED
    BY Inductive, <1>2, PTL

(* A reply reaches the caller whose message it answers, with all the       *)
(* answers that came before it: the route found under a channel and a      *)
(* message number is that of the message the peer answers.                 *)
THEOREM RepliesReachTheirCaller == Spec => []RightReply
  <1>1. ASSUME RoutesInv, NEW r \in asked, NEW q \in requests, r.n = q.n, r.msgno = q.msgno
        PROVE  r.k = q.k /\ r.answers = q.answers
    <2>1. q \in RouteOf(r)
      BY <1>1 DEF RouteOf
    <2>2. q = r
      BY <1>1, <2>1, ItsRoute
    <2> QED
      BY <2>2
  <1>2. RoutesInv => RightReply
    BY <1>1 DEF RightReply, RoutesInv, FromSelf
  <1> QED
    BY Inductive, <1>2, PTL
=============================================================================

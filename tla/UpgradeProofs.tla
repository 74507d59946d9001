--------------------------- MODULE UpgradeProofs ----------------------------
(***************************************************************************)
(* Theorems about Upgrade, for any amount of traffic on other channels and *)
(* reads of any size.                                                      *)
(***************************************************************************)
EXTENDS Upgrade, SequenceTheorems, TLAPS

-----------------------------------------------------------------------------
(* Queues and transports.                                                  *)

(* There are two ends.                                                     *)
LEMMA TwoEnds ==
    /\ Ends = {"initiator", "listener"}
    /\ Other("initiator") = "listener" /\ Other("listener") = "initiator"
  BY DEF Ends, Other

(* What is true of every token of a queue when more is put behind it.      *)
LEMMA Joined ==
    ASSUME NEW s \in Seq(Tokens), NEW t \in Seq(Tokens)
    PROVE  /\ s \o t \in Seq(Tokens)
           /\ \A T : Only(s \o t, T) <=> Only(s, T) /\ Only(t, T)
           /\ \A T : Without(s \o t, T) <=> Without(s, T) /\ Without(t, T)
           /\ \A x : Without(s, {x}) /\ Final(x, t) => Final(x, s \o t)
  <1> DEFINE u == s \o t
  <1>1. /\ u \in Seq(Tokens) /\ Len(u) = Len(s) + Len(t)
        /\ \A k \in 1 .. Len(s) + Len(t) :
             u[k] = IF k <= Len(s) THEN s[k] ELSE t[k - Len(s)]
    BY ConcatProperties
  <1>2. Len(s) \in Nat /\ Len(t) \in Nat
    BY LenProperties
  <1> HIDE DEF u
  <1>3. \A k \in 1 .. Len(s) : k \in 1 .. Len(u) /\ u[k] = s[k]
    BY <1>1, <1>2
  <1>4. \A k \in 1 .. Len(t) : k + Len(s) \in 1 .. Len(u) /\ u[k + Len(s)] = t[k]
    <2> SUFFICES ASSUME NEW k \in 1 .. Len(t)
                 PROVE  k + Len(s) \in 1 .. Len(u) /\ u[k + Len(s)] = t[k]
      OBVIOUS
    <2>1. PICK j \in 1 .. Len(s) + Len(t) : j = k + Len(s) /\ ~(j <= Len(s)) /\ j - Len(s) = k
      BY <1>2
    <2> QED
      BY <1>1, <2>1
  <1>5. \A k \in 1 .. Len(u) : \/ k \in 1 .. Len(s) /\ u[k] = s[k]
                               \/ k - Len(s) \in 1 .. Len(t) /\ u[k] = t[k - Len(s)]
    BY <1>1, <1>2
  <1>6. ASSUME NEW T
        PROVE  /\ Only(u, T) <=> Only(s, T) /\ Only(t, T)
               /\ Without(u, T) <=> Without(s, T) /\ Without(t, T)
    BY <1>3, <1>4, <1>5 DEF Only, Without
  <1>7. ASSUME NEW x, Without(s, {x}), Final(x, t)
        PROVE  Final(x, u)
    <2> SUFFICES ASSUME NEW k \in 1 .. Len(u), u[k] = x
                 PROVE  k = Len(u)
      BY DEF Final
    <2>1. k - Len(s) \in 1 .. Len(t) /\ u[k] = t[k - Len(s)]
      BY <1>5, <1>7 DEF Without
    <2>2. k - Len(s) = Len(t)
      BY <1>7, <2>1 DEF Final
    <2> QED
      BY <1>1, <1>2, <2>2
  <1> QED
    BY <1>1, <1>6, <1>7 DEF u

(* One token is queued.                                                    *)
LEMMA Queueing ==
    ASSUME NEW s \in Seq(Tokens), NEW t \in Tokens
    PROVE  /\ Append(s, t) \in Seq(Tokens)
           /\ \A T : Only(Append(s, t), T) <=> Only(s, T) /\ t \in T
           /\ \A T : Without(Append(s, t), T) <=> Without(s, T) /\ t \notin T
           /\ \A x : Without(s, {x}) => Final(x, Append(s, t))
  <1> DEFINE u == Append(s, t)
  <1>1. /\ u \in Seq(Tokens) /\ Len(u) = Len(s) + 1 /\ u[Len(s) + 1] = t
        /\ \A k \in 1 .. Len(s) : u[k] = s[k]
    BY AppendProperties
  <1>2. Len(s) \in Nat
    BY LenProperties
  <1> HIDE DEF u
  <1>3. \A k \in 1 .. Len(u) : \/ k \in 1 .. Len(s) /\ u[k] = s[k]
                               \/ k = Len(u) /\ u[k] = t
    BY <1>1, <1>2
  <1>4. \A k \in 1 .. Len(s) : k \in 1 .. Len(u) /\ u[k] = s[k]
    BY <1>1, <1>2
  <1>5. Len(u) \in 1 .. Len(u) /\ u[Len(u)] = t
    BY <1>1, <1>2
  <1>6. ASSUME NEW T
        PROVE  /\ Only(u, T) <=> Only(s, T) /\ t \in T
               /\ Without(u, T) <=> Without(s, T) /\ t \notin T
    BY <1>3, <1>4, <1>5 DEF Only, Without
  <1>7. ASSUME NEW x, Without(s, {x})
        PROVE  Final(x, u)
    BY <1>3, <1>7 DEF Without, Final
  <1> QED
    BY <1>1, <1>6, <1>7 DEF u

(* Nothing can be said against an empty queue.                             *)
LEMMA Nil ==
    /\ << >> \in Seq(Tokens)
    /\ \A T : Only(<< >>, T) /\ Without(<< >>, T)
    /\ \A x : Final(x, << >>)
  <1>1. << >> \in Seq(Tokens) /\ Len(<< >>) = 0
    BY EmptySeq
  <1> QED
    BY <1>1 DEF Only, Without, Final

(* A queue of one token.                                                   *)
LEMMA Single ==
    ASSUME NEW t \in Tokens
    PROVE  /\ <<t>> \in Seq(Tokens)
           /\ \A T : t \in T => Only(<<t>>, T)
           /\ \A T : t \notin T => Without(<<t>>, T)
  BY DEF Only, Without

(* Part of a queue is written or read: what goes and what stays.           *)
LEMMA Parted ==
    ASSUME NEW s \in Seq(Tokens), NEW n \in 1 .. Len(s)
    PROVE  LET p == SubSeq(s, 1, n)
               r == SubSeq(s, n + 1, Len(s))
           IN  /\ p \in Seq(Tokens) /\ r \in Seq(Tokens)
               /\ Len(p) = n /\ \A k \in 1 .. n : p[k] = s[k]
               /\ \A T : Only(s, T) => Only(p, T) /\ Only(r, T)
               /\ \A T : Without(s, T) => Without(p, T) /\ Without(r, T)
               /\ \A x : Final(x, s) => Final(x, p) /\ Final(x, r)
               /\ \A x : Final(x, s) /\ ~Without(p, {x}) => r = << >>
  <1> DEFINE p == SubSeq(s, 1, n)
             r == SubSeq(s, n + 1, Len(s))
  <1>1. Len(s) \in Nat /\ n \in Int /\ n + 1 \in Int /\ n \in Nat /\ 1 <= n /\ n <= Len(s)
    BY LenProperties
  <1>2. \A k \in 1 .. Len(s) : s[k] \in Tokens
    BY ElementOfSeq
  <1>3. p \in Seq(Tokens) /\ Len(p) = n /\ \A k \in 1 .. n : p[k] = s[k]
    <2>1. \A k \in 1 .. n : s[k] \in Tokens
      BY <1>1, <1>2
    <2>2. /\ p \in Seq(Tokens) /\ Len(p) = IF 1 <= n THEN n - 1 + 1 ELSE 0
          /\ \A k \in 1 .. n - 1 + 1 : p[k] = s[1 + k - 1]
      BY <1>1, <2>1, SubSeqProperties
    <2> HIDE DEF p
    <2> QED
      BY <1>1, <2>2
  <1>4. r \in Seq(Tokens) /\ Len(r) = Len(s) - n /\ \A k \in 1 .. Len(s) - n : r[k] = s[n + k]
    <2>1. \A k \in n + 1 .. Len(s) : s[k] \in Tokens
      BY <1>1, <1>2
    <2>2. /\ r \in Seq(Tokens)
          /\ Len(r) = IF n + 1 <= Len(s) THEN Len(s) - (n + 1) + 1 ELSE 0
          /\ \A k \in 1 .. Len(s) - (n + 1) + 1 : r[k] = s[n + 1 + k - 1]
      BY <1>1, <2>1, SubSeqProperties
    <2> HIDE DEF r
    <2> QED
      BY <1>1, <2>2
  <1> HIDE DEF p, r
  <1>5. /\ \A k \in 1 .. Len(p) : k \in 1 .. Len(s) /\ p[k] = s[k]
        /\ \A k \in 1 .. Len(r) : n + k \in 1 .. Len(s) /\ r[k] = s[n + k]
    BY <1>1, <1>3, <1>4
  <1>6. \A T : Only(s, T) => Only(p, T) /\ Only(r, T)
    BY <1>5 DEF Only
  <1>7. \A T : Without(s, T) => Without(p, T) /\ Without(r, T)
    BY <1>5 DEF Without
  <1>8. ASSUME NEW x, Final(x, s)
        PROVE  Final(x, p) /\ Final(x, r)
    <2>1. ASSUME NEW k \in 1 .. Len(p), p[k] = x
          PROVE  k = Len(p)
      BY <1>1, <1>3, <1>8, <1>5, <2>1 DEF Final
    <2>2. ASSUME NEW k \in 1 .. Len(r), r[k] = x
          PROVE  k = Len(r)
      <3>1. n + k = Len(s)
        BY <1>8, <1>5, <2>2 DEF Final
      <3> QED
        BY <1>1, <1>4, <3>1
    <2> QED
      BY <2>1, <2>2 DEF Final
  <1>9. ASSUME NEW x, Final(x, s), ~Without(p, {x})
        PROVE  r = << >>
    <2>1. Len(r) = 0
      BY <1>1, <1>3, <1>4, <1>9 DEF Without, Final
    <2> QED
      BY <1>4, <2>1, EmptySeq
  <1> QED
    BY <1>3, <1>4, <1>6, <1>7, <1>8, <1>9 DEF p, r

(* The first token is taken.                                               *)
LEMMA Taken ==
    ASSUME NEW s \in Seq(Tokens), s # << >>
    PROVE  /\ Head(s) \in Tokens /\ Tail(s) \in Seq(Tokens)
           /\ \A T : Only(s, T) => Only(Tail(s), T) /\ Head(s) \in T
           /\ \A T : Without(s, T) => Without(Tail(s), T) /\ Head(s) \notin T
           /\ \A x : Final(x, s) => Final(x, Tail(s))
  <1>1. /\ Head(s) \in Tokens /\ Tail(s) \in Seq(Tokens) /\ Len(Tail(s)) = Len(s) - 1
        /\ \A k \in 1 .. Len(Tail(s)) : Tail(s)[k] = s[k + 1]
    BY HeadTailProperties
  <1>2. Len(s) \in Nat \ {0} /\ Head(s) = s[1]
    BY EmptySeq
  <1> DEFINE r == Tail(s)
  <1> HIDE DEF r
  <1>3. Len(r) = Len(s) - 1 /\ \A k \in 1 .. Len(r) : r[k] = s[k + 1]
    BY <1>1 DEF r
  <1>4. \A T : Only(s, T) => Only(r, T) /\ Head(s) \in T
    BY <1>2, <1>3 DEF Only
  <1>5. \A T : Without(s, T) => Without(r, T) /\ Head(s) \notin T
    BY <1>2, <1>3 DEF Without
  <1>6. \A x : Final(x, s) => Final(x, r)
    BY <1>2, <1>3 DEF Final
  <1> QED
    BY <1>1, <1>4, <1>5, <1>6 DEF r

-----------------------------------------------------------------------------
(* The invariant, one action after another.                                *)

(* In the beginning nothing is queued or on its way.                       *)
LEMMA InitInv == Init => UpgradeInv
  <1> SUFFICES ASSUME Init
               PROVE  UpgradeInv
    OBVIOUS
  <1>1. TypeOK
    BY Nil, UpgradeAssumption DEF Init, TypeOK, Modes
  <1>2. \A e \in Ends : /\ mode[e] = "clear" /\ out[e] = << >> /\ wire[e] = << >>
                       /\ e \notin met
    BY DEF Init
  <1>3. Directed /\ Queued /\ InTurn /\ OnlyLateTraffic
    BY <1>2, Nil, TwoEnds DEF Init, Directed, Queued, InTurn, OnlyLateTraffic
  <1>4. LastWord
    BY <1>2, Nil, TwoEnds DEF Init, LastWord, Closing
  <1> QED
    BY <1>1, <1>3, <1>4 DEF UpgradeInv

(* The types of the four queues.                                           *)
LEMMA Queues ==
    ASSUME UpgradeInv
    PROVE  /\ out["initiator"] \in Seq(Tokens) /\ out["listener"] \in Seq(Tokens)
           /\ wire["initiator"] \in Seq(Tokens) /\ wire["listener"] \in Seq(Tokens)
  BY TwoEnds DEF UpgradeInv, TypeOK

(* A driver ends, and leaves what it had queued and what was on its way to *)
(* it: End and Told.                                                       *)
LEMMA EndInv ==
    ASSUME UpgradeInv, NEW e \in Ends, End(e), UNCHANGED <<out, wire, late>>,
           call' = call \/ call' \in {"handshake", "closed"},
           TypeOK', OnlyLateTraffic'
    PROVE  UpgradeInv'
  <1>1. /\ mode'[e] = "ended"
        /\ \A d \in Ends : d # e => mode'[d] = mode[d]
    BY DEF UpgradeInv, TypeOK, End
  <1>2. Directed'
    BY DEF UpgradeInv, Directed
  <1>3. Queued'
    BY <1>1, TwoEnds DEF UpgradeInv, Queued
  <1>4. InTurn'
    BY <1>1, TwoEnds DEF UpgradeInv, InTurn, Gone
  <1>5. LastWord'
    BY <1>1, TwoEnds DEF UpgradeInv, LastWord, Nothing, Closing
  <1> QED
    BY <1>2, <1>3, <1>4, <1>5 DEF UpgradeInv

(* Another channel sends, or a SEQ is due.                                 *)
LEMMA TalkInv ==
    ASSUME UpgradeInv, NEW e \in Ends, Talk(e)
    PROVE  UpgradeInv'
  <1>1. /\ mode[e] \in {"clear", "awaiting"} /\ out'[e] = Append(out[e], "app")
        /\ \A d \in Ends : d # e => out'[d] = out[d] /\ late'[d] = late[d]
        /\ UNCHANGED <<mode, wire, call, met>>
        /\ late'["initiator"] \in BOOLEAN /\ late'["listener"] \in BOOLEAN
        /\ late[e] => late'[e]
        /\ e = "initiator" /\ ~late'[e] => call = "idle"
        /\ e = "listener" /\ ~late'[e] => mode[e] = "clear"
    BY DEF UpgradeInv, TypeOK, Talk, Ends
  <1>2. /\ Append(out[e], "app") \in Seq(Tokens)
        /\ \A T : Only(Append(out[e], "app"), T) <=> Only(out[e], T) /\ "app" \in T
        /\ \A T : Without(Append(out[e], "app"), T) <=> Without(out[e], T) /\ "app" \notin T
        /\ \A x : Without(out[e], {x}) => Final(x, Append(out[e], "app"))
    <2>1. out[e] \in Seq(Tokens) /\ "app" \in Tokens
      BY DEF UpgradeInv, TypeOK, Tokens, Clear
    <2> QED
      BY <2>1, Queueing
  <1>3. TypeOK'
    BY <1>1, <1>2 DEF UpgradeInv, TypeOK, Talk
  <1>4. Directed'
    <2>1. CASE e = "initiator"
      BY <1>1, <1>2, <2>1, TwoEnds DEF UpgradeInv, Directed, ByInitiator
    <2>2. CASE e = "listener"
      BY <1>1, <1>2, <2>2, TwoEnds DEF UpgradeInv, Directed, ByListener
    <2> QED
      BY <2>1, <2>2, TwoEnds
  <1>5. Queued'
    BY <1>1, <1>2, TwoEnds DEF UpgradeInv, Queued, Clear
  <1>6. InTurn'
    BY <1>1, <1>2, TwoEnds DEF UpgradeInv, InTurn
  <1>7. LastWord'
    <2>1. CASE e = "initiator"
      BY <1>1, <1>2, <2>1, TwoEnds DEF UpgradeInv, LastWord, Nothing, Closing, InTurn, Gone
    <2>2. CASE e = "listener"
      BY <1>1, <1>2, <2>2, TwoEnds DEF UpgradeInv, LastWord, Nothing, Closing, InTurn, Queued, Gone
    <2> QED
      BY <2>1, <2>2, TwoEnds
  <1>8. OnlyLateTraffic'
    BY <1>1, TwoEnds DEF UpgradeInv, OnlyLateTraffic
  <1> QED
    BY <1>3, <1>4, <1>5, <1>6, <1>7, <1>8 DEF UpgradeInv

(* The start of the profile is queued.                                     *)
LEMMA AskInv ==
    ASSUME UpgradeInv, Ask
    PROVE  UpgradeInv'
  <1> DEFINE o == Append(out["initiator"], "start")
  <1>1. /\ mode["initiator"] = "clear" /\ call = "idle" /\ call' = "opening"
        /\ out'["initiator"] = o /\ out'["listener"] = out["listener"]
        /\ UNCHANGED <<mode, wire, late, met>>
    BY DEF UpgradeInv, TypeOK, Ask, Ends
  <1>2. /\ o \in Seq(Tokens)
        /\ \A T : Only(o, T) <=> Only(out["initiator"], T) /\ "start" \in T
        /\ \A T : Without(o, T) <=> Without(out["initiator"], T) /\ "start" \notin T
        /\ \A x : Without(out["initiator"], {x}) => Final(x, o)
    BY Queueing, Queues DEF Tokens, Clear
  <1>3. TypeOK'
    BY <1>2 DEF UpgradeInv, TypeOK, Ask
  <1> HIDE DEF o
  <1>4. Directed'
    BY <1>1, <1>2 DEF UpgradeInv, Directed, ByInitiator
  <1>5. Queued'
    BY <1>1, <1>2, TwoEnds DEF UpgradeInv, Queued, Clear
  <1>6. InTurn'
    BY <1>1 DEF UpgradeInv, InTurn
  <1>7. LastWord'
    BY <1>1, <1>2, TwoEnds DEF UpgradeInv, LastWord, Nothing, Closing, InTurn
  <1>8. OnlyLateTraffic'
    BY <1>1, TwoEnds DEF UpgradeInv, OnlyLateTraffic
  <1> QED
    BY <1>3, <1>4, <1>5, <1>6, <1>7, <1>8 DEF UpgradeInv

(* What is written arrives behind what is on its way already, or nowhere.  *)
LEMMA Sent ==
    ASSUME UpgradeInv, NEW e \in Ends, NEW tokens \in Seq(Tokens), Send(e, tokens)
    PROVE  LET o == Other(e) IN
           /\ wire' \in [Ends -> Seq(Tokens)] /\ wire'[e] = wire[e]
           /\ mode[o] = "ended" => wire'[o] = wire[o]
           /\ \A T : Only(wire[o], T) /\ Only(tokens, T) => Only(wire'[o], T)
           /\ \A T : Without(wire[o], T) /\ Without(tokens, T) => Without(wire'[o], T)
           /\ \A x : Without(wire[o], {x}) /\ Final(x, tokens) => Final(x, wire'[o])
  <1> DEFINE o == Other(e)
  <1>1. o \in Ends /\ o # e /\ wire[o] \in Seq(Tokens) /\ wire \in [Ends -> Seq(Tokens)]
    BY TwoEnds DEF UpgradeInv, TypeOK
  <1>2. wire' = [wire EXCEPT ![o] = IF mode[o] = "ended" THEN wire[o] ELSE wire[o] \o tokens]
    BY <1>1 DEF Send
  <1> HIDE DEF o
  <1>3. wire[o] \o tokens \in Seq(Tokens)
    BY <1>1, Joined
  <1>4. /\ wire' \in [Ends -> Seq(Tokens)] /\ wire'[e] = wire[e]
        /\ mode[o] = "ended" => wire'[o] = wire[o]
        /\ mode[o] # "ended" => wire'[o] = wire[o] \o tokens
    BY <1>1, <1>2, <1>3
  <1>5. \A x : Without(wire[o], {x}) => Final(x, wire[o])
    BY DEF Without, Final
  <1>6. CASE mode[o] = "ended"
    BY <1>4, <1>5, <1>6 DEF o
  <1>7. CASE mode[o] # "ended"
    <2> DEFINE w == wire[o] \o tokens
    <2>1. /\ \A T : Only(w, T) <=> Only(wire[o], T) /\ Only(tokens, T)
          /\ \A T : Without(w, T) <=> Without(wire[o], T) /\ Without(tokens, T)
          /\ \A x : Without(wire[o], {x}) /\ Final(x, tokens) => Final(x, w)
      BY <1>1, Joined
    <2>2. wire'[o] = w
      BY <1>4, <1>7
    <2> HIDE DEF w
    <2> QED
      BY <1>4, <1>7, <2>1, <2>2 DEF o
  <1> QED
    BY <1>6, <1>7

(* pump writes some of what is queued: all of it in the clear.             *)
LEMMA WriteInv ==
    ASSUME UpgradeInv, NEW e \in Ends, NEW n \in 1 .. Len(out[e]), Write(e, n)
    PROVE  UpgradeInv'
  <1>1. PICK p, r : p = SubSeq(out[e], 1, n) /\ r = SubSeq(out[e], n + 1, Len(out[e]))
    OBVIOUS
  <1>2. out[e] \in Seq(Tokens) /\ mode[e] = "clear"
    BY DEF UpgradeInv, TypeOK, Write
  <1>3. /\ p \in Seq(Tokens) /\ r \in Seq(Tokens) /\ Len(p) = n
        /\ \A T : Only(out[e], T) => Only(p, T) /\ Only(r, T)
        /\ \A T : Without(out[e], T) => Without(p, T) /\ Without(r, T)
        /\ \A x : Final(x, out[e]) => Final(x, p) /\ Final(x, r)
        /\ \A x : Final(x, out[e]) /\ ~Without(p, {x}) => r = << >>
    BY <1>1, <1>2, Parted
  <1>4. /\ Send(e, p) /\ out' = [out EXCEPT ![e] = r] /\ out'[e] = r
        /\ \A d \in Ends : d # e => out'[d] = out[d]
        /\ UNCHANGED <<mode, call, name, budget, late, met, choices>>
    BY <1>1, <1>2 DEF UpgradeInv, TypeOK, Write
  <1>5. out[e] # << >>
    BY <1>2, EmptySeq
  <1>6. /\ wire' \in [Ends -> Seq(Tokens)] /\ wire'[e] = wire[e]
        /\ \A T : Only(wire[Other(e)], T) /\ Only(p, T) => Only(wire'[Other(e)], T)
        /\ \A T : Without(wire[Other(e)], T) /\ Without(p, T) => Without(wire'[Other(e)], T)
        /\ \A x : Without(wire[Other(e)], {x}) /\ Final(x, p) => Final(x, wire'[Other(e)])
    BY <1>3, <1>4, Sent
  <1>7. TypeOK'
    BY <1>3, <1>4, <1>6 DEF UpgradeInv, TypeOK
  <1>8. OnlyLateTraffic'
    BY <1>4, TwoEnds DEF UpgradeInv, OnlyLateTraffic
  <1>9. Only(out[e], Clear)
    BY <1>2 DEF UpgradeInv, Queued
  <1>10. Queued'
    BY <1>3, <1>4, <1>2, <1>9, TwoEnds DEF UpgradeInv, Queued
  <1>11. CASE e = "initiator"
    <2>1. Directed'
      BY <1>3, <1>4, <1>6, <1>11, TwoEnds DEF UpgradeInv, Directed
    <2>2. InTurn'
      BY <1>2, <1>3, <1>4, <1>6, <1>9, <1>11, TwoEnds DEF UpgradeInv, InTurn
    <2>3. LastWord'
      <3>1. ASSUME ~late["initiator"], mode["listener"] = "clear"
            PROVE  Closing("initiator", "start")'
        <4>1. /\ Final("start", out["initiator"])
              /\ Without(wire["listener"], {"start"})
          BY <1>5, <1>11, <3>1, TwoEnds DEF UpgradeInv, LastWord, Closing
        <4> QED
          BY <1>3, <1>4, <1>6, <1>11, <4>1, TwoEnds DEF Closing
      <3>2. ASSUME ~late["initiator"], mode["listener"] \in {"awaiting", "shaking", "new"}
            PROVE  Nothing("initiator")'
        BY <1>3, <1>4, <1>6, <1>11, <3>2, TwoEnds DEF UpgradeInv, LastWord, Nothing
      <3> QED
        BY <1>4, <1>6, <1>11, <3>1, <3>2, TwoEnds DEF UpgradeInv, LastWord, Nothing, Closing
    <2> QED
      BY <1>7, <1>8, <1>10, <2>1, <2>2, <2>3 DEF UpgradeInv
  <1>12. CASE e = "listener"
    <2>1. Directed'
      BY <1>3, <1>4, <1>6, <1>12, TwoEnds DEF UpgradeInv, Directed
    <2>2. /\ Without(out["listener"], {"proceed"}) /\ Without(wire["initiator"], {"proceed"})
          /\ call # "proceeding" /\ mode["initiator"] \notin {"shaking", "new"}
      BY <1>2, <1>12 DEF UpgradeInv, Queued, InTurn, Gone
    <2>3. Without(wire'["initiator"], {"proceed"}) /\ Without(out'["listener"], {"proceed"})
      BY <1>3, <1>4, <1>6, <1>12, <2>2, TwoEnds
    <2>4. InTurn'
      BY <1>2, <1>3, <1>4, <1>6, <1>9, <1>12, <2>3, TwoEnds DEF UpgradeInv, InTurn
    <2>5. Final("proceed", wire'["initiator"]) /\ Final("proceed", out'["listener"])
      BY <2>3 DEF Final, Without
    <2>6. LastWord'
      BY <1>4, <1>6, <1>12, <2>2, <2>3, <2>5, TwoEnds DEF UpgradeInv, LastWord, Nothing, Closing
    <2> QED
      BY <1>7, <1>8, <1>10, <2>1, <2>4, <2>6 DEF UpgradeInv
  <1> QED
    BY <1>11, <1>12, TwoEnds

(* pump reads a chunk: it is all frames, and what stays on the transport   *)
(* is what followed it.                                                    *)
LEMMA ReadChunk ==
    ASSUME UpgradeInv, NEW e \in Ends, NEW n \in 1 .. MaxRead, n <= Len(wire[e]), Read(e, n)
    PROVE  \E p, r \in Seq(Tokens) :
             /\ p = SubSeq(wire[e], 1, n) /\ r = SubSeq(wire[e], n + 1, Len(wire[e]))
             /\ wire' = [wire EXCEPT ![e] = r]
             /\ \A T : Only(wire[e], T) => Only(p, T) /\ Only(r, T)
             /\ \A T : Without(wire[e], T) => Without(p, T) /\ Without(r, T)
             /\ \A x : Final(x, wire[e]) => Final(x, r)
             /\ \A x : Final(x, wire[e]) /\ ~Without(p, {x}) => r = << >>
             /\ \A x : Occurs(x, p) <=> ~Without(p, {x})
             /\ mode[e] = "clear" /\ Only(wire[e], Clear)
             /\ \A k \in 1 .. n : p[k] \in Clear
  <1>1. PICK p, r : p = SubSeq(wire[e], 1, n) /\ r = SubSeq(wire[e], n + 1, Len(wire[e]))
    OBVIOUS
  <1>2. wire[e] \in Seq(Tokens) /\ mode[e] = "clear" /\ n \in 1 .. Len(wire[e])
    BY LenProperties, UpgradeAssumption DEF UpgradeInv, TypeOK, Read
  <1>3. /\ p \in Seq(Tokens) /\ r \in Seq(Tokens) /\ Len(p) = n
        /\ \A T : Only(wire[e], T) => Only(p, T) /\ Only(r, T)
        /\ \A T : Without(wire[e], T) => Without(p, T) /\ Without(r, T)
        /\ \A x : Final(x, wire[e]) => Final(x, p) /\ Final(x, r)
        /\ \A x : Final(x, wire[e]) /\ ~Without(p, {x}) => r = << >>
    BY <1>1, <1>2, Parted
  <1>4. wire' = [wire EXCEPT ![e] = r]
    BY <1>1, <1>2 DEF UpgradeInv, TypeOK, Read
  <1>5. Only(wire[e], Clear)
    BY <1>2, TwoEnds DEF UpgradeInv, InTurn, Gone
  <1>6. \A k \in 1 .. n : p[k] \in Clear
    BY <1>3, <1>5 DEF Only
  <1>7. \A x : Occurs(x, p) <=> ~Without(p, {x})
    BY DEF Occurs, Without
  <1> QED
    BY <1>1, <1>2, <1>3, <1>4, <1>5, <1>6, <1>7

(* The initiator reads frames, and perhaps the answer to its start.        *)
LEMMA ReadInitiatorInv ==
    ASSUME UpgradeInv, NEW n \in 1 .. MaxRead, n <= Len(wire["initiator"]),
           Read("initiator", n)
    PROVE  UpgradeInv'
  <1> DEFINE w == wire["initiator"]
  <1>1. PICK p \in Seq(Tokens), r \in Seq(Tokens) :
             /\ p = SubSeq(w, 1, n) /\ r = SubSeq(w, n + 1, Len(w))
             /\ wire' = [wire EXCEPT !["initiator"] = r]
             /\ \A T : Only(w, T) => Only(p, T) /\ Only(r, T)
             /\ \A T : Without(w, T) => Without(p, T) /\ Without(r, T)
             /\ \A x : Final(x, w) => Final(x, r)
             /\ \A x : Final(x, w) /\ ~Without(p, {x}) => r = << >>
             /\ \A x : Occurs(x, p) <=> ~Without(p, {x})
             /\ mode["initiator"] = "clear" /\ Only(w, Clear)
             /\ \A k \in 1 .. n : p[k] \in Clear
    <2>1. "initiator" \in Ends
      BY TwoEnds
    <2> QED
      BY <2>1, ReadChunk
  <1> HIDE DEF w
  <1>2. ~Occurs("start", p)
    <2>1. Only(p, ByListener)
      BY <1>1 DEF UpgradeInv, Directed, w
    <2> QED
      BY <2>1 DEF Only, Occurs, ByListener
  <1>3. /\ call' = IF Occurs("proceed", p) THEN "proceeding"
                   ELSE IF Occurs("error", p) THEN "refused" ELSE call
        /\ UNCHANGED <<mode, out, name, met, choices, budget, late>>
    BY <1>1, <1>2 DEF Read, w
  <1>4. wire'["initiator"] = r /\ wire'["listener"] = wire["listener"]
    BY <1>1, TwoEnds DEF UpgradeInv, TypeOK
  <1>5. TypeOK'
    BY <1>1, <1>3 DEF UpgradeInv, TypeOK
  <1>6. Directed' /\ Queued' /\ OnlyLateTraffic'
    BY <1>1, <1>3, <1>4, TwoEnds DEF UpgradeInv, Directed, Queued, OnlyLateTraffic, w
  <1>7. InTurn'
    BY <1>1, <1>3, <1>4 DEF UpgradeInv, InTurn, w
  <1>8. LastWord'
    <2>1. ASSUME ~late["listener"]
          PROVE  Closing("listener", "proceed")'
      BY <1>1, <1>3, <1>4, <2>1, TwoEnds DEF UpgradeInv, LastWord, Closing, w
    <2>2. ASSUME ~late["listener"], call' = "proceeding"
          PROVE  Nothing("listener")'
      <3>1. CASE Occurs("proceed", p)
        <4>1. /\ Final("proceed", w) /\ ~Without(p, {"proceed"}) /\ ~Without(w, {"proceed"})
              /\ ~Without(w, {"proceed"}) => out["listener"] = << >>
          BY <1>1, <2>2, <3>1, TwoEnds DEF UpgradeInv, LastWord, Closing, w
        <4>2. r = << >> /\ out["listener"] = << >>
          BY <1>1, <4>1
        <4> QED
          BY <1>3, <1>4, <4>2, Nil, TwoEnds DEF Nothing
      <3>2. CASE call = "proceeding"
        BY <1>1, <1>3, <1>4, <2>2, <3>2, TwoEnds DEF UpgradeInv, LastWord, Nothing, w
      <3> QED
        BY <1>3, <2>2, <3>1, <3>2
    <2>3. /\ Nothing("initiator")' <=> Nothing("initiator")
          /\ Closing("initiator", "start")' <=> Closing("initiator", "start")
      BY <1>3, <1>4, TwoEnds DEF Nothing, Closing
    <2>4. mode'["initiator"] = "clear" /\ late' = late /\ mode' = mode
      BY <1>1, <1>3
    <2> QED
      BY <2>1, <2>2, <2>3, <2>4 DEF UpgradeInv, LastWord
  <1> QED
    BY <1>5, <1>6, <1>7, <1>8 DEF UpgradeInv

(* The listener reads frames, and perhaps the start of the profile, which  *)
(* it accepts and waits, or refuses and goes on.                           *)
LEMMA ReadListenerInv ==
    ASSUME UpgradeInv, NEW n \in 1 .. MaxRead, n <= Len(wire["listener"]),
           Read("listener", n)
    PROVE  UpgradeInv'
  <1> DEFINE w == wire["listener"]
  <1>1. PICK p \in Seq(Tokens), r \in Seq(Tokens) :
             /\ p = SubSeq(w, 1, n) /\ r = SubSeq(w, n + 1, Len(w))
             /\ wire' = [wire EXCEPT !["listener"] = r]
             /\ \A T : Only(w, T) => Only(p, T) /\ Only(r, T)
             /\ \A T : Without(w, T) => Without(p, T) /\ Without(r, T)
             /\ \A x : Final(x, w) => Final(x, r)
             /\ \A x : Final(x, w) /\ ~Without(p, {x}) => r = << >>
             /\ \A x : Occurs(x, p) <=> ~Without(p, {x})
             /\ mode["listener"] = "clear" /\ Only(w, Clear)
             /\ \A k \in 1 .. n : p[k] \in Clear
    <2>1. "listener" \in Ends
      BY TwoEnds
    <2> QED
      BY <2>1, ReadChunk
  <1> HIDE DEF w
  <1>2. ~Occurs("proceed", p) /\ ~Occurs("error", p)
    <2>1. Only(p, ByInitiator)
      BY <1>1 DEF UpgradeInv, Directed, w
    <2> QED
      BY <2>1 DEF Only, Occurs, ByInitiator
  <1>3. wire'["listener"] = r /\ wire'["initiator"] = wire["initiator"]
    BY <1>1, TwoEnds DEF UpgradeInv, TypeOK
  <1>4. /\ Without(out["listener"], {"proceed"}) /\ Without(wire["initiator"], {"proceed"})
        /\ call # "proceeding" /\ mode["initiator"] \notin {"shaking", "new"}
    BY <1>1 DEF UpgradeInv, Queued, InTurn, Gone
  <1>5. CASE ~Occurs("start", p)
    <2>1. UNCHANGED <<mode, out, call, name, met, choices, budget, late>>
      BY <1>1, <1>2, <1>5 DEF Read, w
    <2>2. TypeOK'
      BY <1>1, <2>1 DEF UpgradeInv, TypeOK
    <2>3. Directed' /\ Queued' /\ OnlyLateTraffic'
      BY <1>1, <1>3, <2>1, TwoEnds DEF UpgradeInv, Directed, Queued, OnlyLateTraffic, w
    <2>4. InTurn'
      BY <1>1, <1>3, <2>1 DEF UpgradeInv, InTurn, w
    <2>5. LastWord'
      BY <1>1, <1>3, <2>1, TwoEnds DEF UpgradeInv, LastWord, Nothing, Closing, w
    <2> QED
      BY <2>2, <2>3, <2>4, <2>5 DEF UpgradeInv
  <1>6. ASSUME NEW t \in {"proceed", "error"}, Answer("listener", t)
        PROVE  LET o == out'["listener"] IN
               /\ out'["initiator"] = out["initiator"] /\ out' \in [Ends -> Seq(Tokens)]
               /\ \A T : Only(o, T) <=> Only(out["listener"], T) /\ t \in T
               /\ \A T : Without(o, T) <=> Without(out["listener"], T) /\ t \notin T
               /\ Final("proceed", o)
    <2>1. out["listener"] \in Seq(Tokens) /\ t \in Tokens
      BY Queues DEF Tokens, Clear
    <2>2. /\ Append(out["listener"], t) \in Seq(Tokens)
          /\ \A T : Only(Append(out["listener"], t), T) <=> Only(out["listener"], T) /\ t \in T
          /\ \A T : Without(Append(out["listener"], t), T)
                      <=> Without(out["listener"], T) /\ t \notin T
          /\ Final("proceed", Append(out["listener"], t))
      BY <1>4, <2>1, Queueing
    <2>3. /\ out'["listener"] = Append(out["listener"], t)
          /\ out'["initiator"] = out["initiator"] /\ out' \in [Ends -> Seq(Tokens)]
      BY <1>6, <2>2, TwoEnds DEF UpgradeInv, TypeOK, Answer
    <2> QED
      BY <2>2, <2>3
  <1>7. CASE Occurs("start", p)
    <2>1. /\ ~Without(p, {"start"}) /\ ~Without(w, {"start"}) /\ call # "idle"
      BY <1>1, <1>7 DEF UpgradeInv, InTurn, w
    <2>2. ASSUME ~late["initiator"], out'["initiator"] = out["initiator"]
          PROVE  Nothing("initiator")'
      <3>1. Final("start", w) /\ out["initiator"] = << >>
        BY <1>1, <2>1, <2>2, TwoEnds DEF UpgradeInv, LastWord, Closing, w
      <3>2. r = << >>
        BY <1>1, <2>1, <3>1
      <3> QED
        BY <1>3, <2>2, <3>1, <3>2, Nil, TwoEnds DEF Nothing
    <2>3. CASE /\ Answer("listener", "proceed")
               /\ mode' = [mode EXCEPT !["listener"] = "awaiting"]
               /\ name' = [name EXCEPT !["listener"] = TRUE]
               /\ UNCHANGED <<call, met, choices, budget, late>>
      <3>1. mode'["listener"] = "awaiting" /\ mode'["initiator"] = mode["initiator"]
        BY <2>3, TwoEnds DEF UpgradeInv, TypeOK
      <3>2. LET o == out'["listener"] IN
            /\ out'["initiator"] = out["initiator"] /\ out' \in [Ends -> Seq(Tokens)]
            /\ \A T : Only(o, T) <=> Only(out["listener"], T) /\ "proceed" \in T
            /\ \A T : Without(o, T) <=> Without(out["listener"], T) /\ "proceed" \notin T
            /\ Final("proceed", o)
        BY <1>6, <2>3
      <3>3. TypeOK'
        BY <1>1, <2>3, <3>2 DEF UpgradeInv, TypeOK, Modes
      <3>4. Directed'
        BY <1>1, <1>3, <3>2 DEF UpgradeInv, Directed, ByListener, w
      <3>5. Queued'
        BY <1>1, <3>1, <3>2, TwoEnds DEF UpgradeInv, Queued, Clear
      <3>6. InTurn'
        BY <1>1, <1>3, <1>4, <2>1, <2>3, <3>1 DEF UpgradeInv, InTurn, w
      <3>7. LastWord'
        <4>1. late' = late /\ call' # "proceeding" /\ mode'["initiator"] \notin {"shaking", "new"}
          BY <1>4, <2>3, <3>1
        <4>2. ASSUME ~late["initiator"] PROVE Nothing("initiator")'
          BY <2>2, <3>2, <4>2
        <4>3. Closing("listener", "proceed")'
          BY <1>3, <1>4, <3>2, TwoEnds DEF Closing, Final, Without
        <4> QED
          BY <3>1, <4>1, <4>2, <4>3 DEF LastWord
      <3>8. OnlyLateTraffic'
        BY <2>3, TwoEnds DEF UpgradeInv, OnlyLateTraffic
      <3> QED
        BY <3>3, <3>4, <3>5, <3>6, <3>7, <3>8 DEF UpgradeInv
    <2>4. CASE /\ Answer("listener", "error")
               /\ name' = [name EXCEPT !["listener"] = TRUE]
               /\ choices' = choices \cup {"refused"}
               /\ UNCHANGED <<mode, call, met, budget, late>>
      <3>1. LET o == out'["listener"] IN
            /\ out'["initiator"] = out["initiator"] /\ out' \in [Ends -> Seq(Tokens)]
            /\ \A T : Only(o, T) <=> Only(out["listener"], T) /\ "error" \in T
            /\ \A T : Without(o, T) <=> Without(out["listener"], T) /\ "error" \notin T
            /\ Final("proceed", o)
        BY <1>6, <2>4
      <3>2. TypeOK'
        BY <1>1, <2>4, <3>1 DEF UpgradeInv, TypeOK
      <3>3. Directed'
        BY <1>1, <1>3, <3>1 DEF UpgradeInv, Directed, ByListener, w
      <3>4. Queued'
        BY <1>1, <2>4, <3>1, TwoEnds DEF UpgradeInv, Queued, Clear
      <3>5. InTurn'
        BY <1>1, <1>3, <2>4, <3>1 DEF UpgradeInv, InTurn, w
      <3>6. LastWord'
        <4>1. ASSUME ~late["initiator"]
              PROVE  Closing("initiator", "start")'
          BY <1>1, <1>3, <3>1, <4>1, TwoEnds DEF UpgradeInv, LastWord, Closing, w
        <4>2. Closing("listener", "proceed")'
          BY <1>3, <1>4, <3>1, TwoEnds DEF Closing, Final, Without
        <4> QED
          BY <1>1, <1>4, <2>4, <4>1, <4>2 DEF LastWord
      <3>7. OnlyLateTraffic'
        BY <2>4, TwoEnds DEF UpgradeInv, OnlyLateTraffic
      <3> QED
        BY <3>2, <3>3, <3>4, <3>5, <3>6, <3>7 DEF UpgradeInv
    <2> QED
      BY <1>1, <1>7, <2>3, <2>4 DEF Read, Accepted, w
  <1> QED
    BY <1>5, <1>7

(* The initiator's swap: everything queued, and then its hello.            *)
LEMMA UpgradeInitiatorInv ==
    ASSUME UpgradeInv, UpgradeInitiator
    PROVE  UpgradeInv'
  <1>1. /\ mode["initiator"] = "clear" /\ call = "proceeding" /\ call' = "shaking"
        /\ mode'["initiator"] = "shaking" /\ mode'["listener"] = mode["listener"]
        /\ out'["initiator"] = << >> /\ out'["listener"] = out["listener"]
        /\ UNCHANGED <<name, budget, late, met, choices>>
    BY TwoEnds DEF UpgradeInv, TypeOK, UpgradeInitiator, Swap
  <1>2. PICK tokens : tokens = out["initiator"] \o <<"hello">>
    OBVIOUS
  <1>3. /\ tokens \in Seq(Tokens)
        /\ \A T : Only(out["initiator"], T) /\ "hello" \in T => Only(tokens, T)
        /\ \A T : Without(out["initiator"], T) /\ "hello" \notin T => Without(tokens, T)
    <2>1. "hello" \in Tokens
      BY DEF Tokens
    <2>2. /\ <<"hello">> \in Seq(Tokens)
          /\ \A T : "hello" \in T => Only(<<"hello">>, T)
          /\ \A T : "hello" \notin T => Without(<<"hello">>, T)
      BY <2>1, Single
    <2> QED
      BY <1>2, <2>2, Joined, Queues
  <1>4. /\ wire' \in [Ends -> Seq(Tokens)] /\ wire'["initiator"] = wire["initiator"]
        /\ \A T : Only(wire["listener"], T) /\ Only(tokens, T) => Only(wire'["listener"], T)
        /\ \A T : Without(wire["listener"], T) /\ Without(tokens, T)
                    => Without(wire'["listener"], T)
    <2>1. Send("initiator", tokens)
      BY <1>2 DEF UpgradeInitiator, Swap, Flushed
    <2> QED
      BY <1>3, <2>1, Sent, TwoEnds
  <1>5. TypeOK'
    BY <1>1, <1>4, Nil DEF UpgradeInv, TypeOK, UpgradeInitiator, Swap, Modes
  <1>6. Directed'
    BY <1>1, <1>3, <1>4, Nil DEF UpgradeInv, Directed, ByInitiator
  <1>7. Queued'
    BY <1>1, TwoEnds DEF UpgradeInv, Queued
  <1>8. InTurn'
    BY <1>1, <1>4 DEF UpgradeInv, InTurn, Gone
  <1>9. LastWord'
    <2>1. mode["listener"] \in Gone
      BY <1>1 DEF UpgradeInv, InTurn
    <2>2. ASSUME ~late["initiator"], mode["listener"] \in {"shaking", "new"}
          PROVE  Nothing("initiator")'
      <3>1. Without(out["initiator"], Clear) /\ Without(wire["listener"], Clear)
        BY <2>2, TwoEnds DEF UpgradeInv, LastWord, Nothing
      <3> QED
        BY <1>1, <1>3, <1>4, <3>1, Nil, TwoEnds DEF Nothing, Clear
    <2>3. ASSUME ~late["listener"]
          PROVE  Nothing("listener")'
      BY <1>1, <1>4, <2>3, TwoEnds DEF UpgradeInv, LastWord, Nothing
    <2> QED
      BY <1>1, <2>1, <2>2, <2>3 DEF LastWord, Gone
  <1>10. OnlyLateTraffic'
    BY <1>1, TwoEnds DEF UpgradeInv, OnlyLateTraffic
  <1> QED
    BY <1>5, <1>6, <1>7, <1>8, <1>9, <1>10 DEF UpgradeInv

(* The listener flushes what it has queued, <proceed /> included, and      *)
(* leaves the clear.                                                       *)
LEMMA FlushInv ==
    ASSUME UpgradeInv, mode["listener"] = "awaiting", Send("listener", out["listener"]),
           out' = [out EXCEPT !["listener"] = << >>],
           NEW m \in {"shaking", "ended"}, mode' = [mode EXCEPT !["listener"] = m],
           UNCHANGED <<call, name, budget, late, met>>,
           choices' \subseteq choices \cup {"abandoned"}
    PROVE  UpgradeInv'
  <1>1. /\ mode'["listener"] = m /\ mode'["initiator"] = mode["initiator"]
        /\ out'["listener"] = << >> /\ out'["initiator"] = out["initiator"]
    BY TwoEnds DEF UpgradeInv, TypeOK
  <1>2. /\ wire' \in [Ends -> Seq(Tokens)] /\ wire'["listener"] = wire["listener"]
        /\ \A T : Only(wire["initiator"], T) /\ Only(out["listener"], T)
                    => Only(wire'["initiator"], T)
        /\ \A x : Without(wire["initiator"], {x}) /\ Final(x, out["listener"])
                    => Final(x, wire'["initiator"])
    BY Sent, Queues, TwoEnds
  <1>3. /\ Only(out["listener"], Clear) /\ Without(wire["initiator"], {"proceed"})
        /\ call \notin {"proceeding", "idle"} /\ mode["initiator"] \notin {"shaking", "new"}
    BY TwoEnds DEF UpgradeInv, Queued, InTurn, Gone
  <1>4. TypeOK'
    BY <1>2, Nil DEF UpgradeInv, TypeOK, Modes
  <1>5. Directed'
    BY <1>1, <1>2, Nil DEF UpgradeInv, Directed
  <1>6. Queued'
    BY <1>1, TwoEnds DEF UpgradeInv, Queued
  <1>7. InTurn'
    BY <1>1, <1>2, <1>3 DEF UpgradeInv, InTurn, Gone
  <1>8. LastWord'
    <2>1. ASSUME ~late["initiator"]
          PROVE  Nothing("initiator")'
      BY <1>1, <1>2, <2>1, TwoEnds DEF UpgradeInv, LastWord, Nothing
    <2>2. ASSUME ~late["listener"], mode["initiator"] = "clear"
          PROVE  Closing("listener", "proceed")'
      BY <1>1, <1>2, <1>3, <2>2, Nil, TwoEnds DEF UpgradeInv, LastWord, Closing
    <2> QED
      BY <1>1, <1>3, <2>1, <2>2 DEF LastWord
  <1>9. OnlyLateTraffic'
    BY TwoEnds DEF UpgradeInv, OnlyLateTraffic
  <1> QED
    BY <1>4, <1>5, <1>6, <1>7, <1>8, <1>9 DEF UpgradeInv

(* The listener's swap.                                                    *)
LEMMA UpgradeListenerInv ==
    ASSUME UpgradeInv, UpgradeListener
    PROVE  UpgradeInv'
  <1>1. out["listener"] \o << >> = out["listener"]
    BY Queues, ConcatEmptySeq
  <1>2. /\ mode["listener"] = "awaiting" /\ Send("listener", out["listener"])
        /\ out' = [out EXCEPT !["listener"] = << >>]
        /\ mode' = [mode EXCEPT !["listener"] = "shaking"]
        /\ UNCHANGED <<call, name, budget, late, met>> /\ choices' = choices
    BY <1>1 DEF UpgradeListener, Swap, Flushed
  <1> QED
    BY <1>2, FlushInv

(* The policy gives the tuning up.                                         *)
LEMMA AbandonInv ==
    ASSUME UpgradeInv, Abandon
    PROVE  UpgradeInv'
  <1>1. /\ mode["listener"] = "awaiting" /\ Send("listener", out["listener"])
        /\ out' = [out EXCEPT !["listener"] = << >>]
        /\ mode' = [mode EXCEPT !["listener"] = "ended"]
        /\ UNCHANGED <<call, name, budget, late, met>>
        /\ choices' \subseteq choices \cup {"abandoned"}
    BY DEF Abandon, End
  <1> QED
    BY <1>1, FlushInv

(* A token of the handshake at the head of the transport: it was sent      *)
(* after both ends had left the clear.                                     *)
LEMMA Shaken ==
    ASSUME UpgradeInv, NEW e \in Ends, NEW t \in Tokens \ Clear, Shake(e, t)
    PROVE  /\ wire[e] \in Seq(Tokens) /\ wire[e] # << >> /\ mode[e] = "shaking"
           /\ Tail(wire[e]) \in Seq(Tokens)
           /\ \A T : Only(wire[e], T) => Only(Tail(wire[e]), T)
           /\ \A T : Without(wire[e], T) => Without(Tail(wire[e]), T)
           /\ mode["initiator"] \in Gone
           /\ e = "initiator" => mode["listener"] \in Gone
  <1>1. wire[e] \in Seq(Tokens) /\ wire[e] # << >> /\ mode[e] = "shaking" /\ Head(wire[e]) = t
    BY DEF UpgradeInv, TypeOK, Shake
  <1>2. /\ Tail(wire[e]) \in Seq(Tokens)
        /\ \A T : Only(wire[e], T) => Only(Tail(wire[e]), T) /\ Head(wire[e]) \in T
        /\ \A T : Without(wire[e], T) => Without(Tail(wire[e]), T)
    BY <1>1, Taken
  <1>3. ~Only(wire[e], Clear)
    BY <1>1, <1>2
  <1> QED
    BY <1>1, <1>2, <1>3, TwoEnds DEF UpgradeInv, InTurn

(* The listener answers the hello.                                         *)
LEMMA ListenerShakesInv ==
    ASSUME UpgradeInv, ListenerShakes
    PROVE  UpgradeInv'
  <1> DEFINE w == wire["initiator"]
             v == Append(w, "shake")
             r == Tail(wire["listener"])
  <1>1. /\ mode["listener"] = "shaking" /\ mode["initiator"] \in Gone /\ r \in Seq(Tokens)
        /\ \A T : Only(wire["listener"], T) => Only(r, T)
        /\ \A T : Without(wire["listener"], T) => Without(r, T)
    <2>1. "hello" \in Tokens \ Clear /\ "listener" \in Ends /\ Shake("listener", "hello")
      BY TwoEnds DEF Tokens, Clear, ListenerShakes
    <2> QED
      BY <2>1, Shaken
  <1>2. /\ v \in Seq(Tokens)
        /\ \A T : Only(v, T) <=> Only(w, T) /\ "shake" \in T
        /\ \A T : Without(v, T) <=> Without(w, T) /\ "shake" \notin T
    BY Queueing, Queues DEF Tokens
  <1>3. /\ wire' \in [Ends -> Seq(Tokens)] /\ wire'["listener"] = r
        /\ wire'["initiator"] = w \/ wire'["initiator"] = v
    BY <1>1, <1>2, Queues, TwoEnds DEF UpgradeInv, TypeOK, ListenerShakes
  <1>4. UNCHANGED <<mode, out, call, name, budget, late, met, choices>>
    BY DEF ListenerShakes
  <1> HIDE DEF w, v, r
  <1>5. TypeOK'
    BY <1>3, <1>4 DEF UpgradeInv, TypeOK
  <1>6. Directed'
    BY <1>1, <1>2, <1>3, <1>4 DEF UpgradeInv, Directed, ByListener, w
  <1>7. Queued' /\ OnlyLateTraffic'
    BY <1>4, TwoEnds DEF UpgradeInv, Queued, OnlyLateTraffic
  <1>8. InTurn'
    BY <1>1, <1>2, <1>3, <1>4 DEF UpgradeInv, InTurn, Gone, w
  <1>9. LastWord'
    BY <1>1, <1>2, <1>3, <1>4, TwoEnds DEF UpgradeInv, LastWord, Nothing, Closing, Gone, Clear, w
  <1> QED
    BY <1>5, <1>6, <1>7, <1>8, <1>9 DEF UpgradeInv

(* The greeting of a new session is queued by itself.                      *)
LEMMA Refreshed ==
    ASSUME UpgradeInv, NEW e \in Ends, Fresh(e)
    PROVE  /\ mode'[e] = "new" /\ \A d \in Ends : d # e => mode'[d] = mode[d] /\ out'[d] = out[d]
           /\ out' \in [Ends -> Seq(Tokens)] /\ mode' \in [Ends -> Modes] /\ name' = name
           /\ Only(out'[e], {"greeting"}) /\ Without(out'[e], Clear)
           /\ \A T : "greeting" \in T => Only(out'[e], T)
  <1>1. "greeting" \in Tokens \ Clear
    BY DEF Tokens, Clear
  <1>2. /\ <<"greeting">> \in Seq(Tokens)
        /\ \A T : "greeting" \in T => Only(<<"greeting">>, T)
        /\ \A T : "greeting" \notin T => Without(<<"greeting">>, T)
    BY <1>1, Single
  <1>3. /\ mode' = [mode EXCEPT ![e] = "new"] /\ name' = name
        /\ out' = [out EXCEPT ![e] = <<"greeting">>]
    BY DEF Fresh
  <1>4. mode \in [Ends -> Modes] /\ out \in [Ends -> Seq(Tokens)]
    BY DEF UpgradeInv, TypeOK
  <1>5. out'[e] = <<"greeting">> /\ out' \in [Ends -> Seq(Tokens)]
    BY <1>2, <1>3, <1>4
  <1>6. mode'[e] = "new" /\ mode' \in [Ends -> Modes]
    BY <1>3, <1>4 DEF Modes
  <1> QED
    BY <1>1, <1>2, <1>3, <1>4, <1>5, <1>6

(* The initiator finishes its handshake.                                   *)
LEMMA InitiatorShakesInv ==
    ASSUME UpgradeInv, InitiatorShakes
    PROVE  UpgradeInv'
  <1> DEFINE w == wire["listener"]
             v == Append(w, "finish")
             r == Tail(wire["initiator"])
  <1>1. /\ mode["initiator"] = "shaking" /\ mode["listener"] \in Gone /\ r \in Seq(Tokens)
        /\ \A T : Only(wire["initiator"], T) => Only(r, T)
        /\ \A T : Without(wire["initiator"], T) => Without(r, T)
    <2>1. /\ "shake" \in Tokens \ Clear /\ "initiator" \in Ends
          /\ Shake("initiator", "shake")
      BY TwoEnds DEF Tokens, Clear, InitiatorShakes
    <2> QED
      BY <2>1, Shaken
  <1>2. /\ v \in Seq(Tokens)
        /\ \A T : Only(v, T) <=> Only(w, T) /\ "finish" \in T
        /\ \A T : Without(v, T) <=> Without(w, T) /\ "finish" \notin T
    BY Queueing, Queues DEF Tokens
  <1>3. /\ wire' \in [Ends -> Seq(Tokens)] /\ wire'["initiator"] = r
        /\ wire'["listener"] = w \/ wire'["listener"] = v
    BY <1>1, <1>2, Queues, TwoEnds DEF UpgradeInv, TypeOK, InitiatorShakes
  <1>4. /\ mode'["initiator"] = "new" /\ mode'["listener"] = mode["listener"]
        /\ out'["listener"] = out["listener"]
        /\ out' \in [Ends -> Seq(Tokens)] /\ mode' \in [Ends -> Modes] /\ name' = name
        /\ Without(out'["initiator"], Clear)
        /\ Only(out'["initiator"], {"greeting"}) /\ Only(out'["initiator"], ByInitiator)
    <2>1. "initiator" \in Ends /\ Fresh("initiator")
      BY TwoEnds DEF InitiatorShakes
    <2> QED
      BY <2>1, Refreshed, TwoEnds DEF ByInitiator
  <1>5. UNCHANGED <<call, budget, late, met, choices>>
    BY DEF InitiatorShakes
  <1> HIDE DEF w, v, r
  <1>6. TypeOK'
    BY <1>3, <1>4, <1>5 DEF UpgradeInv, TypeOK
  <1>7. Directed'
    BY <1>1, <1>2, <1>3, <1>4 DEF UpgradeInv, Directed, ByInitiator, w
  <1>8. Queued' /\ OnlyLateTraffic'
    BY <1>4, <1>5, TwoEnds DEF UpgradeInv, Queued, OnlyLateTraffic
  <1>9. InTurn'
    <2>1. Without(out'["initiator"], {"start"})
      BY <1>4 DEF Only, Without
    <2> QED
      BY <1>1, <1>2, <1>3, <1>4, <1>5, <2>1 DEF UpgradeInv, InTurn, Gone, w
  <1>10. LastWord'
    BY <1>1, <1>2, <1>3, <1>4, <1>5, TwoEnds
       DEF UpgradeInv, LastWord, Nothing, Closing, Gone, Clear, w
  <1> QED
    BY <1>6, <1>7, <1>8, <1>9, <1>10 DEF UpgradeInv

(* The listener finishes its handshake.                                    *)
LEMMA ListenerFinishesInv ==
    ASSUME UpgradeInv, ListenerFinishes
    PROVE  UpgradeInv'
  <1> DEFINE r == Tail(wire["listener"])
  <1>1. /\ mode["listener"] = "shaking" /\ mode["initiator"] \in Gone /\ r \in Seq(Tokens)
        /\ \A T : Only(wire["listener"], T) => Only(r, T)
        /\ \A T : Without(wire["listener"], T) => Without(r, T)
    <2>1. "finish" \in Tokens \ Clear /\ "listener" \in Ends /\ Shake("listener", "finish")
      BY TwoEnds DEF Tokens, Clear, ListenerFinishes
    <2> QED
      BY <2>1, Shaken
  <1>2. /\ wire' \in [Ends -> Seq(Tokens)] /\ wire'["listener"] = r
        /\ wire'["initiator"] = wire["initiator"]
    BY <1>1, TwoEnds DEF UpgradeInv, TypeOK, ListenerFinishes, Take
  <1>3. /\ mode'["listener"] = "new" /\ mode'["initiator"] = mode["initiator"]
        /\ out'["initiator"] = out["initiator"]
        /\ out' \in [Ends -> Seq(Tokens)] /\ mode' \in [Ends -> Modes] /\ name' = name
        /\ Without(out'["listener"], Clear) /\ Only(out'["listener"], ByListener)
    <2>1. "listener" \in Ends /\ Fresh("listener")
      BY TwoEnds DEF ListenerFinishes
    <2> QED
      BY <2>1, Refreshed, TwoEnds DEF ByListener
  <1>4. UNCHANGED <<call, budget, late, met, choices>>
    BY DEF ListenerFinishes
  <1> HIDE DEF r
  <1>5. TypeOK'
    BY <1>2, <1>3, <1>4 DEF UpgradeInv, TypeOK
  <1>6. Directed'
    BY <1>1, <1>2, <1>3 DEF UpgradeInv, Directed
  <1>7. Queued' /\ OnlyLateTraffic'
    BY <1>3, <1>4, TwoEnds DEF UpgradeInv, Queued, OnlyLateTraffic
  <1>8. InTurn'
    BY <1>1, <1>2, <1>3, <1>4 DEF UpgradeInv, InTurn, Gone
  <1>9. LastWord'
    BY <1>1, <1>2, <1>3, <1>4, TwoEnds DEF UpgradeInv, LastWord, Nothing, Closing, Gone
  <1> QED
    BY <1>5, <1>6, <1>7, <1>8, <1>9 DEF UpgradeInv

(* A handshake that meets a frame meets one its peer sent late.            *)
LEMMA ShakeFailsInv ==
    ASSUME UpgradeInv, NEW e \in Ends, ShakeFails(e)
    PROVE  UpgradeInv'
  <1>1. /\ mode[e] = "shaking" /\ End(e) /\ UNCHANGED <<out, wire, late>>
        /\ call' = call \/ call' \in {"handshake", "closed"}
        /\ UNCHANGED <<name, budget, choices>>
        /\ met' = met \/ met' = met \cup {e}
    BY DEF ShakeFails, Told, FailureTold
  <1>2. TypeOK'
    BY <1>1, TwoEnds DEF UpgradeInv, TypeOK, End, Modes
  <1>3. ASSUME e \in met', e \notin met
        PROVE  late[Other(e)]
    <2>1. wire[e] \in Seq(Tokens) /\ wire[e] # << >> /\ Head(wire[e]) \in Clear
      BY <1>3 DEF UpgradeInv, TypeOK, ShakeFails
    <2>2. ~Without(wire[e], Clear)
      BY <2>1, Taken
    <2>3. ~Nothing(Other(e))
      BY <2>2, TwoEnds DEF Nothing
    <2> QED
      BY <1>1, <2>3, TwoEnds DEF UpgradeInv, LastWord
  <1>4. OnlyLateTraffic'
    BY <1>1, <1>3, TwoEnds DEF UpgradeInv, OnlyLateTraffic
  <1> QED
    BY <1>1, <1>2, <1>4, EndInv

(* The other ways a driver ends.                                           *)
LEMMA FailureInv ==
    ASSUME UpgradeInv, NEW e \in Ends, CertificateFails(e) \/ EndOfFile(e) \/ WriteFails(e)
    PROVE  UpgradeInv'
  <1>1. /\ End(e) /\ UNCHANGED <<out, wire, late, name, budget, met>>
        /\ call' = call \/ call' \in {"handshake", "closed"}
        /\ choices' \subseteq choices \cup {"certificate"}
    BY DEF CertificateFails, EndOfFile, WriteFails, Told, FailureTold
  <1>2. TypeOK'
    BY <1>1, TwoEnds DEF UpgradeInv, TypeOK, End, Modes
  <1>3. OnlyLateTraffic'
    BY <1>1, TwoEnds DEF UpgradeInv, OnlyLateTraffic
  <1> QED
    BY <1>1, <1>2, <1>3, EndInv

(* The greeting of the new session goes out.                               *)
LEMMA GreetInv ==
    ASSUME UpgradeInv, NEW e \in Ends, Greet(e)
    PROVE  UpgradeInv'
  <1>1. /\ mode[e] = "new" /\ out[e] \in Seq(Tokens) /\ out'[e] = << >>
        /\ \A d \in Ends : d # e => out'[d] = out[d]
        /\ out' \in [Ends -> Seq(Tokens)]
        /\ UNCHANGED <<mode, call, name, budget, late, met, choices>>
    BY Nil DEF UpgradeInv, TypeOK, Greet
  <1>2. /\ wire' \in [Ends -> Seq(Tokens)] /\ wire'[e] = wire[e]
        /\ \A T : Only(wire[Other(e)], T) /\ Only(out[e], T) => Only(wire'[Other(e)], T)
        /\ \A T : Without(wire[Other(e)], T) /\ Without(out[e], T)
                    => Without(wire'[Other(e)], T)
    <2>1. Send(e, out[e])
      BY DEF Greet
    <2> QED
      BY <1>1, <2>1, Sent
  <1>3. TypeOK'
    BY <1>1, <1>2 DEF UpgradeInv, TypeOK
  <1>4. Directed'
    BY <1>1, <1>2, Nil, TwoEnds DEF UpgradeInv, Directed
  <1>5. Queued' /\ OnlyLateTraffic'
    BY <1>1, Nil, TwoEnds DEF UpgradeInv, Queued, OnlyLateTraffic
  <1>6. Without(out[e], Clear) /\ mode["listener"] \in Gone /\ mode["initiator"] \in Gone
    BY <1>1, TwoEnds DEF UpgradeInv, Queued, InTurn, Gone
  <1>7. Without(out[e], {"start"})
    BY <1>6 DEF Without, Clear
  <1>8. InTurn'
    <2>1. CASE e = "initiator"
      BY <1>1, <1>2, <1>6, <1>7, <2>1, Nil, TwoEnds DEF UpgradeInv, InTurn
    <2>2. CASE e = "listener"
      BY <1>1, <1>2, <1>6, <2>2, TwoEnds DEF UpgradeInv, InTurn
    <2> QED
      BY <2>1, <2>2, TwoEnds
  <1>9. LastWord'
    <2>1. CASE e = "initiator"
      BY <1>1, <1>2, <1>6, <2>1, Nil, TwoEnds DEF UpgradeInv, LastWord, Nothing, Gone
    <2>2. CASE e = "listener"
      BY <1>1, <1>2, <1>6, <2>2, Nil, TwoEnds DEF UpgradeInv, LastWord, Nothing, Gone
    <2> QED
      BY <2>1, <2>2, TwoEnds
  <1> QED
    BY <1>3, <1>4, <1>5, <1>8, <1>9 DEF UpgradeInv

(* The peer's greeting comes in.                                           *)
LEMMA GreetedInv ==
    ASSUME UpgradeInv, NEW e \in Ends, Greeted(e)
    PROVE  UpgradeInv'
  <1> DEFINE r == Tail(wire[e])
  <1>1. /\ mode[e] = "new" /\ wire[e] \in Seq(Tokens) /\ wire[e] # << >>
        /\ wire' = [wire EXCEPT ![e] = r] /\ wire'[e] = r
        /\ \A d \in Ends : d # e => wire'[d] = wire[d]
        /\ call' = call \/ call' = "greeted"
        /\ UNCHANGED <<mode, out, name, budget, late, met, choices>>
    BY DEF UpgradeInv, TypeOK, Greeted, Take, Told
  <1>2. /\ r \in Seq(Tokens)
        /\ \A T : Only(wire[e], T) => Only(r, T)
        /\ \A T : Without(wire[e], T) => Without(r, T)
    BY <1>1, Taken
  <1> HIDE DEF r
  <1>3. TypeOK'
    BY <1>1, <1>2 DEF UpgradeInv, TypeOK
  <1>4. Directed'
    BY <1>1, <1>2, TwoEnds DEF UpgradeInv, Directed
  <1>5. Queued' /\ OnlyLateTraffic'
    BY <1>1, TwoEnds DEF UpgradeInv, Queued, OnlyLateTraffic
  <1>6. mode["listener"] \in Gone /\ mode["initiator"] \in Gone
    BY <1>1, TwoEnds DEF UpgradeInv, InTurn, Gone
  <1>7. InTurn'
    <2>1. CASE e = "initiator"
      BY <1>1, <1>2, <1>6, <2>1, TwoEnds DEF UpgradeInv, InTurn
    <2>2. CASE e = "listener"
      BY <1>1, <1>2, <1>6, <2>2, TwoEnds DEF UpgradeInv, InTurn
    <2> QED
      BY <2>1, <2>2, TwoEnds
  <1>8. LastWord'
    BY <1>1, <1>2, <1>6, TwoEnds DEF UpgradeInv, LastWord, Nothing, Gone
  <1> QED
    BY <1>3, <1>4, <1>5, <1>7, <1>8 DEF UpgradeInv

(* Every step of the two drivers keeps the invariant.                      *)
LEMMA NextInv == UpgradeInv /\ [Next]_vars => UpgradeInv'
  <1> SUFFICES ASSUME UpgradeInv, [Next]_vars
               PROVE  UpgradeInv'
    OBVIOUS
  <1>1. ASSUME NEW e \in Ends, Drive(e)
        PROVE  UpgradeInv'
    <2>1. ASSUME NEW n \in 1 .. Len(out[e]), Write(e, n)
          PROVE  UpgradeInv'
      BY <2>1, WriteInv
    <2>2. ASSUME NEW n \in 1 .. MaxRead, n <= Len(wire[e]), Read(e, n)
          PROVE  UpgradeInv'
      <3>1. CASE e = "initiator"
        BY <2>2, <3>1, ReadInitiatorInv
      <3>2. CASE e = "listener"
        BY <2>2, <3>2, ReadListenerInv
      <3> QED
        BY <3>1, <3>2, TwoEnds
    <2>3. CASE ShakeFails(e)
      BY <2>3, ShakeFailsInv
    <2>4. CASE Greet(e)
      BY <2>4, GreetInv
    <2>5. CASE Greeted(e)
      BY <2>5, GreetedInv
    <2>6. CASE EndOfFile(e) \/ WriteFails(e)
      BY <2>6, FailureInv
    <2> QED
      BY <1>1, <2>1, <2>2, <2>3, <2>4, <2>5, <2>6 DEF Drive
  <1>2. CASE Ask
    BY <1>2, AskInv
  <1>3. CASE Initiator
    BY <1>1, <1>3, UpgradeInitiatorInv, InitiatorShakesInv, TwoEnds DEF Initiator
  <1>4. CASE Listener
    BY <1>1, <1>4, UpgradeListenerInv, AbandonInv, ListenerShakesInv, ListenerFinishesInv,
       TwoEnds DEF Listener
  <1>5. ASSUME NEW e \in Ends, Talk(e)
        PROVE  UpgradeInv'
    BY <1>5, TalkInv
  <1>6. ASSUME NEW e \in Ends, CertificateFails(e)
        PROVE  UpgradeInv'
    BY <1>6, FailureInv
  <1>7. CASE UNCHANGED vars
    <2>1. UNCHANGED <<mode, out, wire, call, name, budget, late, met, choices>>
      BY <1>7 DEF vars
    <2> QED
      BY <2>1 DEF UpgradeInv, TypeOK, Directed, Queued, InTurn, LastWord, Nothing, Closing,
                  OnlyLateTraffic
  <1> QED
    BY <1>2, <1>3, <1>4, <1>5, <1>6, <1>7 DEF Next

-----------------------------------------------------------------------------
(* The theorems.                                                           *)

(* The two drivers leave the clear in turn, and an end that has not talked *)
(* since the exchange began leaves nothing in the clear behind its part.   *)
THEOREM Inductive == Spec => []UpgradeInv
  BY InitInv, NextInv, PTL DEF Spec

(* The drivers, their queues and the transport are always well formed.     *)
THEOREM TypeCorrect == Spec => []TypeOK
  <1>1. UpgradeInv => TypeOK
    BY DEF UpgradeInv
  <1> QED
    BY <1>1, Inductive, PTL

(* Whatever the amount of other traffic and the size of the reads, no      *)
(* parser is given octets of a handshake, and a handshake is given a frame *)
(* only if its peer sent one after the exchange had begun: what            *)
(* Driver::upgrade flushes is read before the transports are replaced.     *)
THEOREM CleanSwap == Spec => []OnlyLateTraffic
  <1>1. UpgradeInv => OnlyLateTraffic
    BY DEF UpgradeInv
  <1> QED
    BY <1>1, Inductive, PTL
=============================================================================

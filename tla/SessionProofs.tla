---------------------------- MODULE SessionProofs ----------------------------
(***************************************************************************)
(* Theorems about Session, for any number of channels, message numbers and *)
(* calls of the two applications.                                          *)
(***************************************************************************)
EXTENDS Session, SequenceTheorems, WellFoundedInduction, TLAPS

-----------------------------------------------------------------------------
(* Sequences of frames and of events.                                      *)

(* There are two peers.                                                    *)
LEMMA TwoPeers ==
    \A p \in Peers : /\ Other(p) \in Peers /\ Other(p) # p /\ Other(Other(p)) = p
                     /\ \A x \in Peers : x = p \/ x = Other(p)
  BY DEF Peers, Other

(* One more at the end.                                                    *)
LEMMA AtEnd ==
    ASSUME NEW T, NEW s \in Seq(T), NEW f \in T
    PROVE  /\ Append(s, f) \in Seq(T) /\ Len(Append(s, f)) = Len(s) + 1 /\ Len(s) \in Nat
           /\ Append(s, f)[Len(s) + 1] = f
           /\ \A i \in 1 .. Len(s) : Append(s, f)[i] = s[i]
           /\ Members(Append(s, f)) = Members(s) \cup {f}
  <1>1. /\ Append(s, f) \in Seq(T) /\ Len(Append(s, f)) = Len(s) + 1 /\ Len(s) \in Nat
        /\ Append(s, f)[Len(s) + 1] = f
        /\ \A i \in 1 .. Len(s) : Append(s, f)[i] = s[i]
    BY AppendProperties, LenProperties
  <1>2. ASSUME NEW x \in Members(Append(s, f)) PROVE x \in Members(s) \cup {f}
    <2>1. PICK i \in 1 .. Len(s) + 1 : x = Append(s, f)[i]
      BY <1>1 DEF Members
    <2>2. CASE i = Len(s) + 1
      BY <1>1, <2>1, <2>2
    <2>3. CASE i \in 1 .. Len(s)
      BY <1>1, <2>1, <2>3 DEF Members
    <2> QED
      BY <1>1, <2>2, <2>3
  <1>3. ASSUME NEW x \in Members(s) PROVE x \in Members(Append(s, f))
    <2>1. PICK i \in 1 .. Len(s) : x = s[i]
      BY DEF Members
    <2>2. i \in 1 .. Len(Append(s, f)) /\ x = Append(s, f)[i]
      BY <1>1, <2>1
    <2> QED
      BY <2>2 DEF Members
  <1>4. f \in Members(Append(s, f))
    <2>1. Len(s) + 1 \in 1 .. Len(Append(s, f))
      BY <1>1
    <2> QED
      BY <1>1, <2>1 DEF Members
  <1> QED
    BY <1>1, <1>2, <1>3, <1>4

(* One less at the front.                                                  *)
LEMMA AtFront ==
    ASSUME NEW T, NEW s \in Seq(T), s # << >>
    PROVE  /\ Tail(s) \in Seq(T) /\ Head(s) \in T /\ Head(s) = s[1]
           /\ Len(s) \in Nat \ {0} /\ Len(Tail(s)) = Len(s) - 1 /\ 1 \in 1 .. Len(s)
           /\ \A i \in 1 .. Len(Tail(s)) : i + 1 \in 1 .. Len(s) /\ Tail(s)[i] = s[i + 1]
           /\ \A i \in 1 .. Len(s) : i # 1 =>
                i - 1 \in 1 .. Len(Tail(s)) /\ Tail(s)[i - 1] = s[i]
           /\ Members(s) = Members(Tail(s)) \cup {Head(s)}
  <1>1. /\ Tail(s) \in Seq(T) /\ Head(s) \in T /\ Len(Tail(s)) = Len(s) - 1
        /\ \A i \in 1 .. Len(Tail(s)) : Tail(s)[i] = s[i + 1]
    BY HeadTailProperties
  <1>2. Len(s) \in Nat \ {0} /\ Head(s) = s[1]
    BY EmptySeq
  <1>3. 1 \in 1 .. Len(s)
    BY <1>2
  <1>4. \A i \in 1 .. Len(Tail(s)) : i + 1 \in 1 .. Len(s)
    BY <1>1, <1>2
  <1>5. ASSUME NEW i \in 1 .. Len(s), i # 1
        PROVE  i - 1 \in 1 .. Len(Tail(s)) /\ Tail(s)[i - 1] = s[i]
    <2>1. PICK j \in 1 .. Len(Tail(s)) : j = i - 1 /\ j + 1 = i
      BY <1>1, <1>2, <1>5
    <2> QED
      BY <1>1, <2>1
  <1>6. ASSUME NEW x \in Members(s), x # s[1] PROVE x \in Members(Tail(s))
    <2>1. PICK i \in 1 .. Len(s) : x = s[i]
      BY DEF Members
    <2>2. i - 1 \in 1 .. Len(Tail(s)) /\ Tail(s)[i - 1] = x
      BY <1>5, <1>6, <2>1
    <2> QED
      BY <2>2 DEF Members
  <1>7. ASSUME NEW x \in Members(Tail(s)) PROVE x \in Members(s)
    <2>1. PICK i \in 1 .. Len(Tail(s)) : x = Tail(s)[i]
      BY DEF Members
    <2>2. i + 1 \in 1 .. Len(s) /\ x = s[i + 1]
      BY <1>1, <1>4, <2>1
    <2> QED
      BY <2>2 DEF Members
  <1>8. s[1] \in Members(s)
    BY <1>3 DEF Members
  <1> QED
    BY <1>1, <1>2, <1>3, <1>4, <1>5, <1>6, <1>7, <1>8

(* One more behind two sequences.                                          *)
LEMMA BehindBoth ==
    ASSUME NEW T, NEW s \in Seq(T), NEW t \in Seq(T), NEW f \in T
    PROVE  s \o Append(t, f) = Append(s \o t, f)
  <1>1. /\ s \o t \in Seq(T) /\ Len(s) \in Nat /\ Len(t) \in Nat
        /\ Len(s \o t) = Len(s) + Len(t)
        /\ \A i \in 1 .. Len(s) + Len(t) :
             (s \o t)[i] = IF i <= Len(s) THEN s[i] ELSE t[i - Len(s)]
    BY ConcatProperties, LenProperties
  <1>2. s \o Append(t, f) = Append(s \o t, f)
    <2> DEFINE a == Append(t, f)
               u == s \o a
               v == Append(s \o t, f)
    <2>1. /\ a \in Seq(T) /\ Len(a) = Len(t) + 1 /\ a[Len(t) + 1] = f
          /\ \A i \in 1 .. Len(t) : a[i] = t[i]
      BY AtEnd
    <2> HIDE DEF a
    <2>2. /\ u \in Seq(T) /\ Len(u) = Len(s) + Len(a)
          /\ \A i \in 1 .. Len(s) + Len(a) : u[i] = IF i <= Len(s) THEN s[i] ELSE a[i - Len(s)]
      BY <2>1, ConcatProperties
    <2>3. /\ v \in Seq(T) /\ Len(v) = Len(s) + Len(t) + 1 /\ v[Len(s) + Len(t) + 1] = f
          /\ \A i \in 1 .. Len(s) + Len(t) : v[i] = (s \o t)[i]
      BY <1>1, AtEnd
    <2> HIDE DEF u, v
    <2>4. ASSUME NEW i \in 1 .. Len(s) + Len(t) + 1
          PROVE  u[i] = v[i]
      <3>1. CASE i <= Len(s)
        <4>1. i \in 1 .. Len(s) + Len(t) /\ i \in 1 .. Len(s) + Len(a)
          BY <1>1, <2>1, <3>1
        <4> QED
          BY <1>1, <2>2, <2>3, <3>1, <4>1
      <3>2. CASE i > Len(s) /\ i <= Len(s) + Len(t)
        <4>1. i - Len(s) \in 1 .. Len(t)
          BY <1>1, <3>2
        <4> QED
          BY <1>1, <2>1, <2>2, <2>3, <3>2, <4>1
      <3>3. CASE i = Len(s) + Len(t) + 1
        <4>1. i - Len(s) = Len(t) + 1 /\ ~(i <= Len(s)) /\ i \in 1 .. Len(s) + Len(a)
          BY <1>1, <2>1, <3>3
        <4> QED
          BY <2>1, <2>2, <2>3, <3>3, <4>1
      <3> QED
        BY <1>1, <3>1, <3>2, <3>3
    <2>5. u = v
      BY <1>1, <2>1, <2>2, <2>3, <2>4, SeqEqual
    <2> QED
      BY <2>5 DEF u, v, a
  <1> QED
    BY <1>2

(* Two sequences, one behind the other.                                    *)
LEMMA Behind ==
    ASSUME NEW T, NEW s \in Seq(T), NEW t \in Seq(T)
    PROVE  /\ t # << >> => Append(s, Head(t)) \o Tail(t) = s \o t
           /\ s # << >> => /\ s \o t # << >> /\ Head(s \o t) = Head(s)
                           /\ Tail(s \o t) = Tail(s) \o t
  <1>1. /\ s \o t \in Seq(T) /\ Len(s) \in Nat /\ Len(t) \in Nat
        /\ Len(s \o t) = Len(s) + Len(t)
        /\ \A i \in 1 .. Len(s) + Len(t) :
             (s \o t)[i] = IF i <= Len(s) THEN s[i] ELSE t[i - Len(s)]
    BY ConcatProperties, LenProperties
  <1>2. ASSUME t # << >>
        PROVE  Append(s, Head(t)) \o Tail(t) = s \o t
    <2> DEFINE a == Append(s, Head(t))
               b == Tail(t)
               u == a \o b
               v == s \o t
    <2>1. /\ Head(t) \in T /\ Head(t) = t[1] /\ b \in Seq(T) /\ Len(b) = Len(t) - 1
          /\ Len(t) >= 1 /\ \A i \in 1 .. Len(b) : b[i] = t[i + 1]
      BY <1>2, AtFront
    <2>2. /\ a \in Seq(T) /\ Len(a) = Len(s) + 1 /\ a[Len(s) + 1] = t[1]
          /\ \A i \in 1 .. Len(s) : a[i] = s[i]
      BY <2>1, AtEnd
    <2> HIDE DEF a, b
    <2>3. /\ u \in Seq(T) /\ Len(u) = Len(a) + Len(b)
          /\ \A i \in 1 .. Len(a) + Len(b) : u[i] = IF i <= Len(a) THEN a[i] ELSE b[i - Len(a)]
      BY <2>1, <2>2, ConcatProperties
    <2>4. /\ v \in Seq(T) /\ Len(v) = Len(s) + Len(t)
          /\ \A i \in 1 .. Len(s) + Len(t) : v[i] = IF i <= Len(s) THEN s[i] ELSE t[i - Len(s)]
      BY <1>1
    <2> HIDE DEF u, v
    <2>5. ASSUME NEW i \in 1 .. Len(s) + Len(t)
          PROVE  u[i] = v[i]
      <3>1. CASE i <= Len(s)
        <4>1. i \in 1 .. Len(s) /\ i \in 1 .. Len(a) + Len(b) /\ i <= Len(a)
          BY <1>1, <2>1, <2>2, <3>1
        <4> QED
          BY <2>2, <2>3, <2>4, <3>1, <4>1
      <3>2. CASE i = Len(s) + 1
        <4>1. i - Len(s) = 1 /\ ~(i <= Len(s)) /\ i <= Len(a) /\ i \in 1 .. Len(a) + Len(b)
          BY <1>1, <2>1, <2>2, <3>2
        <4> QED
          BY <2>2, <2>3, <2>4, <3>2, <4>1
      <3>3. CASE i > Len(s) + 1
        <4>1. PICK j \in 1 .. Len(b) : j = i - Len(a) /\ j + 1 = i - Len(s)
          <5>1. i - Len(a) \in 1 .. Len(b) /\ (i - Len(a)) + 1 = i - Len(s)
            BY <1>1, <2>1, <2>2, <3>3
          <5> QED
            BY <5>1
        <4>2. ~(i <= Len(s)) /\ ~(i <= Len(a)) /\ i \in 1 .. Len(a) + Len(b)
          BY <1>1, <2>1, <2>2, <3>3
        <4> QED
          BY <2>1, <2>3, <2>4, <4>1, <4>2
      <3> QED
        BY <1>1, <3>1, <3>2, <3>3
    <2>6. u = v
      BY <1>1, <2>1, <2>2, <2>3, <2>4, <2>5, SeqEqual
    <2> QED
      BY <2>6 DEF u, v, a, b
  <1>3. ASSUME s # << >>
        PROVE  /\ s \o t # << >> /\ Head(s \o t) = Head(s)
               /\ Tail(s \o t) = Tail(s) \o t
    <2>1. /\ Len(s) \in Nat \ {0} /\ Len(t) \in Nat /\ Len(s \o t) = Len(s) + Len(t)
          /\ \A i \in 1 .. Len(s) + Len(t) :
               (s \o t)[i] = IF i <= Len(s) THEN s[i] ELSE t[i - Len(s)]
      BY <1>3, ConcatProperties, EmptySeq, LenProperties
    <2>2. s \o t # << >>
      BY <2>1, EmptySeq
    <2>3. /\ Tail(s) \in Seq(T) /\ Len(Tail(s)) = Len(s) - 1 /\ Head(s) = s[1]
          /\ \A i \in 1 .. Len(s) - 1 : Tail(s)[i] = s[i + 1]
      BY <1>3, AtFront
    <2>4. /\ Tail(s \o t) \in Seq(T) /\ Len(Tail(s \o t)) = Len(s) + Len(t) - 1
          /\ Head(s \o t) = (s \o t)[1]
          /\ \A i \in 1 .. Len(s) + Len(t) - 1 : Tail(s \o t)[i] = (s \o t)[i + 1]
      BY <1>1, <2>1, <2>2, AtFront
    <2>5. /\ Tail(s) \o t \in Seq(T) /\ Len(Tail(s) \o t) = Len(s) - 1 + Len(t)
          /\ \A i \in 1 .. Len(s) - 1 + Len(t) :
               (Tail(s) \o t)[i] = IF i <= Len(s) - 1 THEN Tail(s)[i] ELSE t[i - (Len(s) - 1)]
      BY <2>3, ConcatProperties
    <2>6. ASSUME NEW i \in 1 .. Len(s) + Len(t) - 1
          PROVE  Tail(s \o t)[i] = (Tail(s) \o t)[i]
      <3>1. CASE i <= Len(s) - 1
        <4>1. i \in 1 .. Len(s) - 1 /\ i + 1 <= Len(s) /\ i + 1 \in 1 .. Len(s) + Len(t)
              /\ i \in 1 .. Len(s) - 1 + Len(t)
          BY <2>1, <3>1
        <4> QED
          BY <2>1, <2>3, <2>4, <2>5, <3>1, <4>1
      <3>2. CASE ~(i <= Len(s) - 1)
        <4>1. /\ ~(i + 1 <= Len(s)) /\ i + 1 \in 1 .. Len(s) + Len(t)
              /\ i \in 1 .. Len(s) - 1 + Len(t) /\ (i + 1) - Len(s) = i - (Len(s) - 1)
          BY <2>1, <3>2
        <4>2. (s \o t)[i + 1] = t[i - (Len(s) - 1)]
          BY <2>1, <4>1
        <4> QED
          BY <2>4, <2>5, <3>2, <4>1, <4>2
      <3> QED
        BY <3>1, <3>2
    <2>7. Tail(s \o t) = Tail(s) \o t
      BY <2>1, <2>4, <2>5, <2>6, SeqEqual
    <2>8. Head(s \o t) = Head(s)
      BY <2>1, <2>3, <2>4
    <2> QED
      BY <2>2, <2>7, <2>8
  <1> QED
    BY <1>2, <1>3

(* What is queued, written and read of what a peer has sent.               *)
LEMMA SentQueued ==
    ASSUME TypeOK, NEW p \in Peers, NEW f \in Frames, Queue(p, f), UNCHANGED wire
    PROVE  /\ Sent(p)' = Append(Sent(p), f) /\ Sent(Other(p))' = Sent(Other(p))
           /\ out' \in [Peers -> Seq(Frames)]
  <1>1. wire[p] \in Seq(Frames) /\ out[p] \in Seq(Frames)
    BY DEF TypeOK
  <1>2. out'[p] = Append(out[p], f) /\ out'[Other(p)] = out[Other(p)]
    BY TwoPeers DEF Queue, TypeOK
  <1>3. out' \in [Peers -> Seq(Frames)]
    BY <1>1, AtEnd DEF Queue, TypeOK
  <1>4. wire[p] \o Append(out[p], f) = Append(wire[p] \o out[p], f)
    <2>1. \A T : \A s, t \in Seq(T) : \A g \in T : s \o Append(t, g) = Append(s \o t, g)
      BY BehindBoth
    <2>2. \A s, t \in Seq(Frames) : s \o Append(t, f) = Append(s \o t, f)
      BY <2>1
    <2> QED
      BY <1>1, <2>2
  <1> QED
    BY <1>2, <1>3, <1>4 DEF Sent

(* Writing moves a frame on.                                               *)
LEMMA SentWritten ==
    ASSUME TypeOK, NEW p \in Peers, Write(p)
    PROVE  /\ \A x \in Peers : Sent(x)' = Sent(x)
           /\ out' \in [Peers -> Seq(Frames)] /\ wire' \in [Peers -> Seq(Frames)]
  <1>1. wire[p] \in Seq(Frames) /\ out[p] \in Seq(Frames) /\ out[p] # << >>
    BY DEF TypeOK, Write
  <1>2. PICK h \in Frames, t \in Seq(Frames) : h = Head(out[p]) /\ t = Tail(out[p])
    BY <1>1, AtFront
  <1>3. /\ out' = [out EXCEPT ![p] = t]
        /\ wire' = [wire EXCEPT ![p] = Append(@, h)]
    BY <1>2 DEF Write
  <1>4. Append(wire[p], h) \in Seq(Frames)
    BY <1>1, AtEnd
  <1>5. out' \in [Peers -> Seq(Frames)] /\ wire' \in [Peers -> Seq(Frames)]
    BY <1>3, <1>4 DEF TypeOK
  <1>6. Append(wire[p], h) \o t = wire[p] \o out[p]
    BY <1>1, <1>2, Behind
  <1>7. \A x \in Peers : x # p => out'[x] = out[x] /\ wire'[x] = wire[x]
    BY <1>3 DEF TypeOK
  <1>8. out'[p] = t /\ wire'[p] = Append(wire[p], h)
    BY <1>3 DEF TypeOK
  <1> QED
    BY <1>5, <1>6, <1>7, <1>8 DEF Sent

(* Reading takes the oldest frame.                                         *)
LEMMA SentRead ==
    ASSUME TypeOK, NEW p \in Peers, NEW t, Receive(p, t), out'[Other(p)] = out[Other(p)]
    PROVE  /\ Sent(Other(p)) # << >> /\ Head(Sent(Other(p))) = Frame(p)
           /\ Sent(Other(p))' = Tail(Sent(Other(p)))
           /\ Sent(p)' = wire[p] \o out'[p]
           /\ wire' \in [Peers -> Seq(Frames)]
  <1>1. PICK q \in Peers : q = Other(p) /\ q # p
    BY TwoPeers
  <1>2. /\ wire[q] \in Seq(Frames) /\ out[q] \in Seq(Frames) /\ wire[q] # << >>
        /\ wire' = [wire EXCEPT ![q] = Tail(@)]
    BY <1>1 DEF TypeOK, Receive
  <1>3. Tail(wire[q]) \in Seq(Frames)
    BY <1>2, AtFront
  <1>4. wire' \in [Peers -> Seq(Frames)] /\ wire'[q] = Tail(wire[q]) /\ wire'[p] = wire[p]
    BY <1>1, <1>2, <1>3 DEF TypeOK
  <1>5. /\ wire[q] \o out[q] # << >> /\ Head(wire[q] \o out[q]) = Head(wire[q])
        /\ Tail(wire[q] \o out[q]) = Tail(wire[q]) \o out[q]
    BY <1>2, Behind
  <1> QED
    BY <1>1, <1>4, <1>5 DEF Sent, Frame

-----------------------------------------------------------------------------
(* Message numbers under way.                                              *)

(* The numbers of a set with one more.                                     *)
LEMMA NosAdd ==
    ASSUME NEW S, NEW x
    PROVE  \A m : m \in Nos(S \cup {x}) <=> m \in Nos(S) \/ m = x.msgno
  BY DEF Nos

(* The numbers of a set with one less, if no other has its number.         *)
LEMMA NosDrop ==
    ASSUME NEW S, NEW x \in S, \A y \in S : y.msgno = x.msgno => y = x
    PROVE  \A m : m \in Nos(S \ {x}) <=> m \in Nos(S) /\ m # x.msgno
  BY DEF Nos

(* A peer asks for something.                                              *)
LEMMA ExactAsks ==
    ASSUME NEW R, NEW A, NEW H, NEW S, Exact(R, A, H, S), NEW r, NEW f,
           r.msgno \notin Nos(R), f.msgno = r.msgno, f.t = r.what, f.n = r.n
    PROVE  Exact(R \cup {r}, A \cup {f}, H, S)
  <1>1. /\ \A m : m \in Nos(R \cup {r}) <=> m \in Nos(R) \/ m = r.msgno
        /\ \A m : m \in Nos(A \cup {f}) <=> m \in Nos(A) \/ m = r.msgno
    BY NosAdd
  <1>2. r.msgno \notin Nos(A) /\ r.msgno \notin Nos(H) /\ r.msgno \notin Nos(S)
    BY DEF Exact
  <1>3. /\ Nos(R \cup {r}) = Nos(A \cup {f}) \cup Nos(H) \cup Nos(S)
        /\ Nos(A \cup {f}) \cap Nos(H) = {}
        /\ (Nos(A \cup {f}) \cup Nos(H)) \cap Nos(S) = {}
    BY <1>1, <1>2 DEF Exact
  <1>4. \A s, u \in R \cup {r} : s.msgno = u.msgno => s = u
    BY DEF Exact, Nos
  <1>5. \A s \in R \cup {r} : \A g \in A \cup {f} : g.msgno = s.msgno => g.t = s.what /\ g.n = s.n
    BY <1>2 DEF Exact, Nos
  <1>6. /\ \A e \in H : e.msgno # r.msgno
        /\ \A g \in S : g.msgno # r.msgno
    BY <1>2 DEF Nos
  <1>7. \A s \in R \cup {r} :
          /\ \A e \in H : e.msgno = s.msgno => e.e = Requested(s.what) /\ e.n = s.n
          /\ \A g \in S : g.msgno = s.msgno => s.what = IF g.t = "ok" THEN "close" ELSE "start"
    BY <1>6 DEF Exact
  <1> QED
    BY <1>3, <1>4, <1>5, <1>7 DEF Exact

(* The other peer reads it.                                                *)
LEMMA ExactHears ==
    ASSUME NEW R, NEW A, NEW H, NEW S, Exact(R, A, H, S), NEW f \in A, NEW e,
           \A g \in A : g.msgno = f.msgno => g = f,
           e.msgno = f.msgno, e.e = Requested(f.t), e.n = f.n
    PROVE  Exact(R, A \ {f}, H \cup {e}, S)
  <1>1. /\ \A m : m \in Nos(A \ {f}) <=> m \in Nos(A) /\ m # f.msgno
        /\ \A m : m \in Nos(H \cup {e}) <=> m \in Nos(H) \/ m = f.msgno
    BY NosAdd, NosDrop
  <1>2. f.msgno \in Nos(A) /\ f.msgno \notin Nos(H) /\ f.msgno \notin Nos(S)
    BY DEF Exact, Nos
  <1>3. /\ Nos(R) = Nos(A \ {f}) \cup Nos(H \cup {e}) \cup Nos(S)
        /\ Nos(A \ {f}) \cap Nos(H \cup {e}) = {}
        /\ (Nos(A \ {f}) \cup Nos(H \cup {e})) \cap Nos(S) = {}
    BY <1>1, <1>2, ZenonT(60) DEF Exact
  <1>4. \A r \in R : \A d \in H \cup {e} :
          d.msgno = r.msgno => d.e = Requested(r.what) /\ d.n = r.n
    BY DEF Exact
  <1> QED
    BY <1>3, <1>4 DEF Exact

(* It replies.                                                             *)
LEMMA ExactSays ==
    ASSUME NEW R, NEW A, NEW H, NEW S, Exact(R, A, H, S), NEW e \in H, NEW f,
           \A d \in H : d.msgno = e.msgno => d = e,
           f.msgno = e.msgno, \A r \in R : r.what \in {"start", "close"},
           f.t = "ok" <=> e.e = "CloseRequested"
    PROVE  Exact(R, A, H \ {e}, S \cup {f})
  <1>1. /\ \A m : m \in Nos(H \ {e}) <=> m \in Nos(H) /\ m # e.msgno
        /\ \A m : m \in Nos(S \cup {f}) <=> m \in Nos(S) \/ m = e.msgno
    BY NosAdd, NosDrop
  <1>2. e.msgno \in Nos(H) /\ e.msgno \notin Nos(A) /\ e.msgno \notin Nos(S)
    BY DEF Exact, Nos
  <1>3. /\ Nos(R) = Nos(A) \cup Nos(H \ {e}) \cup Nos(S \cup {f})
        /\ Nos(A) \cap Nos(H \ {e}) = {}
        /\ (Nos(A) \cup Nos(H \ {e})) \cap Nos(S \cup {f}) = {}
    BY <1>1, <1>2, ZenonT(60) DEF Exact
  <1>4. \A r \in R : e.msgno = r.msgno => r.what = IF f.t = "ok" THEN "close" ELSE "start"
    BY DEF Exact, Requested
  <1>5. \A r \in R : \A g \in S \cup {f} :
          g.msgno = r.msgno => r.what = IF g.t = "ok" THEN "close" ELSE "start"
    BY <1>4 DEF Exact
  <1> QED
    BY <1>3, <1>5 DEF Exact

(* The reply is read.                                                      *)
LEMMA ExactEnds ==
    ASSUME NEW R, NEW A, NEW H, NEW S, Exact(R, A, H, S), NEW f \in S, NEW r \in R,
           \A g \in S : g.msgno = f.msgno => g = f, r.msgno = f.msgno
    PROVE  Exact(R \ {r}, A, H, S \ {f})
  <1>1. \A s \in R : s.msgno = r.msgno => s = r
    BY DEF Exact
  <1>2. /\ \A m : m \in Nos(R \ {r}) <=> m \in Nos(R) /\ m # f.msgno
        /\ \A m : m \in Nos(S \ {f}) <=> m \in Nos(S) /\ m # f.msgno
    BY <1>1, NosDrop
  <1>3. f.msgno \in Nos(S) /\ f.msgno \notin Nos(A) /\ f.msgno \notin Nos(H)
    BY DEF Exact, Nos
  <1>4. /\ Nos(R \ {r}) = Nos(A) \cup Nos(H) \cup Nos(S \ {f})
        /\ (Nos(A) \cup Nos(H)) \cap Nos(S \ {f}) = {}
    BY <1>2, <1>3, ZenonT(60) DEF Exact
  <1> QED
    BY <1>4 DEF Exact

(* Every request under way is pending.                                     *)
LEMMA ItsRequest ==
    ASSUME NEW R, NEW A, NEW H, NEW S, Exact(R, A, H, S)
    PROVE  /\ \A f \in A : \E r \in R : r.msgno = f.msgno /\ f.t = r.what /\ f.n = r.n
           /\ \A e \in H : \E r \in R : /\ r.msgno = e.msgno /\ e.e = Requested(r.what)
                                        /\ e.n = r.n /\ r.msgno \notin Nos(A) \cup Nos(S)
           /\ \A f \in S : \E r \in R : /\ r.msgno = f.msgno
                                        /\ r.what = (IF f.t = "ok" THEN "close" ELSE "start")
                                        /\ r.msgno \notin Nos(A) \cup Nos(H)
  <1>1. ASSUME NEW f \in A
        PROVE  \E r \in R : r.msgno = f.msgno /\ f.t = r.what /\ f.n = r.n
    <2>1. f.msgno \in Nos(A)
      BY DEF Nos
    <2>2. f.msgno \in Nos(R)
      BY <2>1 DEF Exact
    <2>3. PICK r \in R : r.msgno = f.msgno
      BY <2>2 DEF Nos
    <2> QED
      BY <2>3 DEF Exact
  <1>2. ASSUME NEW e \in H
        PROVE  \E r \in R : /\ r.msgno = e.msgno /\ e.e = Requested(r.what)
                            /\ e.n = r.n /\ r.msgno \notin Nos(A) \cup Nos(S)
    <2>1. e.msgno \in Nos(H)
      BY DEF Nos
    <2>2. e.msgno \in Nos(R)
      BY <2>1 DEF Exact
    <2>3. PICK r \in R : r.msgno = e.msgno
      BY <2>2 DEF Nos
    <2>4. e.msgno \notin Nos(A) \cup Nos(S)
      BY <2>1 DEF Exact
    <2> QED
      BY <2>3, <2>4 DEF Exact
  <1>3. ASSUME NEW f \in S
        PROVE  \E r \in R : /\ r.msgno = f.msgno
                            /\ r.what = (IF f.t = "ok" THEN "close" ELSE "start")
                            /\ r.msgno \notin Nos(A) \cup Nos(H)
    <2>1. f.msgno \in Nos(S)
      BY DEF Nos
    <2>2. f.msgno \in Nos(R)
      BY <2>1 DEF Exact
    <2>3. PICK r \in R : r.msgno = f.msgno
      BY <2>2 DEF Nos
    <2>4. f.msgno \notin Nos(A) \cup Nos(H)
      BY <2>1 DEF Exact
    <2> QED
      BY <2>3, <2>4 DEF Exact
  <1> QED
    BY <1>1, <1>2, <1>3

-----------------------------------------------------------------------------
(* What a frame queued or read does to the requests and replies under way. *)

(* A frame is queued.                                                      *)
LEMMA QueuedFrame ==
    ASSUME NEW s \in Seq(Frames), NEW f \in Frames, NEW t, t = Append(s, f)
    PROVE  /\ {g \in Members(t) : IsRequest(g)} =
                {g \in Members(s) : IsRequest(g)} \cup {g \in {f} : IsRequest(g)}
           /\ {g \in Members(t) : IsReply(g)} =
                {g \in Members(s) : IsReply(g)} \cup {g \in {f} : IsReply(g)}
           /\ OnceSent(s)
              /\ (\A g \in Members(s) : /\ IsRequest(f) /\ IsRequest(g) => g.msgno # f.msgno
                                        /\ IsReply(f) /\ IsReply(g) => g.msgno # f.msgno)
              => OnceSent(t)
           /\ \A m, n :
                InFront(s, m, n)
                /\ (f.t = "profile" /\ f.msgno = m =>
                      \A g \in Members(s) : ~(g.t = "close" /\ g.n = n))
                => InFront(t, m, n)
  <1>1. /\ t \in Seq(Frames) /\ Len(t) = Len(s) + 1 /\ Len(s) \in Nat /\ t[Len(s) + 1] = f
        /\ \A i \in 1 .. Len(s) : t[i] = s[i]
        /\ Members(t) = Members(s) \cup {f}
    BY AtEnd
  <1>2. \A i \in 1 .. Len(s) : s[i] \in Members(s)
    BY DEF Members
  <1>3. \A i \in 1 .. Len(t) : i \in 1 .. Len(s) \/ i = Len(s) + 1
    BY <1>1
  <1>4. ASSUME OnceSent(s),
               \A g \in Members(s) : /\ IsRequest(f) /\ IsRequest(g) => g.msgno # f.msgno
                                     /\ IsReply(f) /\ IsReply(g) => g.msgno # f.msgno
        PROVE  OnceSent(t)
    <2>1. SUFFICES ASSUME NEW i \in 1 .. Len(t), NEW j \in 1 .. Len(t)
                   PROVE  /\ IsRequest(t[i]) /\ IsRequest(t[j]) /\ t[i].msgno = t[j].msgno => i = j
                          /\ IsReply(t[i]) /\ IsReply(t[j]) /\ t[i].msgno = t[j].msgno => i = j
      BY DEF OnceSent
    <2>2. CASE i \in 1 .. Len(s) /\ j \in 1 .. Len(s)
      BY <1>1, <1>4, <2>2 DEF OnceSent
    <2>3. CASE i \in 1 .. Len(s) /\ j = Len(s) + 1
      BY <1>1, <1>2, <1>4, <2>3
    <2>4. CASE i = Len(s) + 1 /\ j \in 1 .. Len(s)
      BY <1>1, <1>2, <1>4, <2>4
    <2> QED
      BY <1>3, <2>2, <2>3, <2>4
  <1>5. ASSUME NEW m, NEW n, InFront(s, m, n),
               f.t = "profile" /\ f.msgno = m => \A g \in Members(s) : ~(g.t = "close" /\ g.n = n)
        PROVE  InFront(t, m, n)
    <2>1. SUFFICES ASSUME NEW i \in 1 .. Len(t), NEW j \in 1 .. Len(t),
                          t[i].t = "profile", t[i].msgno = m, t[j].t = "close", t[j].n = n
                   PROVE  i < j
      BY DEF InFront
    <2>2. CASE i \in 1 .. Len(s) /\ j \in 1 .. Len(s)
      BY <1>1, <1>5, <2>1, <2>2 DEF InFront
    <2>3. CASE i \in 1 .. Len(s) /\ j = Len(s) + 1
      BY <1>1, <2>3
    <2>4. CASE i = Len(s) + 1 /\ j \in 1 .. Len(s)
      BY <1>1, <1>2, <1>5, <2>1, <2>4
    <2>5. CASE i = Len(s) + 1 /\ j = Len(s) + 1
      BY <1>1, <2>1, <2>5
    <2> QED
      BY <1>3, <2>2, <2>3, <2>4, <2>5
  <1>6. /\ {g \in Members(t) : IsRequest(g)} =
             {g \in Members(s) : IsRequest(g)} \cup {g \in {f} : IsRequest(g)}
        /\ {g \in Members(t) : IsReply(g)} =
             {g \in Members(s) : IsReply(g)} \cup {g \in {f} : IsReply(g)}
    BY <1>1
  <1> QED
    BY <1>4, <1>5, <1>6

(* The first frame is read.                                                *)
LEMMA ReadFrame ==
    ASSUME NEW s \in Seq(Frames), s # << >>, OnceSent(s), NEW f, f = Head(s),
           NEW t, t = Tail(s)
    PROVE  /\ {g \in Members(t) : IsRequest(g)} =
                {g \in Members(s) : IsRequest(g)} \ {g \in {f} : IsRequest(g)}
           /\ {g \in Members(t) : IsReply(g)} =
                {g \in Members(s) : IsReply(g)} \ {g \in {f} : IsReply(g)}
           /\ f \in Members(s) /\ OnceSent(t)
           /\ \A g \in Members(s) :
                /\ IsRequest(f) /\ IsRequest(g) /\ g.msgno = f.msgno => g = f
                /\ IsReply(f) /\ IsReply(g) /\ g.msgno = f.msgno => g = f
           /\ \A m, n : InFront(s, m, n) => InFront(t, m, n)
           /\ \A m, n : /\ InFront(s, m, n) /\ f.t = "close" /\ f.n = n
                        => \A g \in Members(s) : ~(g.t = "profile" /\ g.msgno = m)
  <1>1. /\ t \in Seq(Frames) /\ f = s[1] /\ Len(s) \in Nat \ {0} /\ Len(t) = Len(s) - 1
        /\ 1 \in 1 .. Len(s)
        /\ \A i \in 1 .. Len(t) : i + 1 \in 1 .. Len(s) /\ t[i] = s[i + 1]
        /\ Members(s) = Members(t) \cup {f}
    BY AtFront
  <1>2. OnceSent(t)
    <2>1. SUFFICES ASSUME NEW i \in 1 .. Len(t), NEW j \in 1 .. Len(t)
                   PROVE  /\ IsRequest(t[i]) /\ IsRequest(t[j]) /\ t[i].msgno = t[j].msgno => i = j
                          /\ IsReply(t[i]) /\ IsReply(t[j]) /\ t[i].msgno = t[j].msgno => i = j
      BY DEF OnceSent
    <2>2. /\ IsRequest(t[i]) /\ IsRequest(t[j]) /\ t[i].msgno = t[j].msgno => i + 1 = j + 1
          /\ IsReply(t[i]) /\ IsReply(t[j]) /\ t[i].msgno = t[j].msgno => i + 1 = j + 1
      BY <1>1 DEF OnceSent
    <2> QED
      BY <1>1, <2>2
  <1>3. \A i \in 1 .. Len(s) : /\ IsRequest(f) /\ IsRequest(s[i]) /\ s[i].msgno = f.msgno => i = 1
                               /\ IsReply(f) /\ IsReply(s[i]) /\ s[i].msgno = f.msgno => i = 1
    BY <1>1 DEF OnceSent
  <1>4. \A g \in Members(s) :
          /\ IsRequest(f) /\ IsRequest(g) /\ g.msgno = f.msgno => g = f
          /\ IsReply(f) /\ IsReply(g) /\ g.msgno = f.msgno => g = f
    BY <1>1, <1>3 DEF Members
  <1>5. ASSUME NEW g \in Members(t)
        PROVE  ~(IsRequest(f) /\ g = f) /\ ~(IsReply(f) /\ g = f)
    <2>1. PICK i \in 1 .. Len(t) : g = t[i]
      BY DEF Members
    <2>2. i + 1 # 1 /\ i + 1 \in 1 .. Len(s) /\ g = s[i + 1]
      BY <1>1, <2>1
    <2> QED
      BY <1>3, <2>2
  <1>6. ASSUME NEW m, NEW n, InFront(s, m, n) PROVE InFront(t, m, n)
    <2>1. SUFFICES ASSUME NEW i \in 1 .. Len(t), NEW j \in 1 .. Len(t),
                          t[i].t = "profile", t[i].msgno = m, t[j].t = "close", t[j].n = n
                   PROVE  i < j
      BY DEF InFront
    <2>2. i + 1 < j + 1
      BY <1>1, <1>6, <2>1 DEF InFront
    <2> QED
      BY <1>1, <2>2
  <1>7. ASSUME NEW m, NEW n, InFront(s, m, n), f.t = "close", f.n = n, NEW g \in Members(s),
               g.t = "profile", g.msgno = m
        PROVE  FALSE
    <2>1. PICK i \in 1 .. Len(s) : g = s[i]
      BY DEF Members
    <2>2. i < 1
      BY <1>1, <1>7, <2>1 DEF InFront
    <2> QED
      BY <1>1, <2>2
  <1>8. /\ {g \in Members(t) : IsRequest(g)} =
             {g \in Members(s) : IsRequest(g)} \ {g \in {f} : IsRequest(g)}
        /\ {g \in Members(t) : IsReply(g)} =
             {g \in Members(s) : IsReply(g)} \ {g \in {f} : IsReply(g)}
    BY <1>1, <1>5
  <1> QED
    BY <1>1, <1>2, <1>4, <1>6, <1>7, <1>8

(* The same of a peer.                                                     *)
LEMMA Queueing ==
    ASSUME TypeOK, NEW p \in Peers, OnceSent(Sent(p)), NEW f \in Frames,
           Sent(p)' = Append(Sent(p), f)
    PROVE  /\ Asks(p)' = Asks(p) \cup {g \in {f} : IsRequest(g)}
           /\ Says(p)' = Says(p) \cup {g \in {f} : IsReply(g)}
           /\ (IsRequest(f) => f.msgno \notin Nos(Asks(p)))
              /\ (IsReply(f) => f.msgno \notin Nos(Says(p))) => OnceSent(Sent(p))'
           /\ \A m, n :
                InFront(Sent(p), m, n)
                /\ (f.t = "profile" /\ f.msgno = m =>
                      \A g \in Asks(p) : ~(g.t = "close" /\ g.n = n))
                => InFront(Sent(p), m, n)'
           /\ Sent(p) \in Seq(Frames) /\ Sent(p)' \in Seq(Frames)
           /\ Len(Sent(p)) \in Nat /\ Len(Sent(p)') = Len(Sent(p)) + 1
           /\ Sent(p)'[Len(Sent(p)) + 1] = f
           /\ \A i \in 1 .. Len(Sent(p)) : Sent(p)'[i] = Sent(p)[i]
  <1>1. PICK s \in Seq(Frames) : s = Sent(p)
    <2>1. wire[p] \in Seq(Frames) /\ out[p] \in Seq(Frames)
      BY DEF TypeOK
    <2> QED
      BY <2>1, ConcatProperties DEF Sent
  <1>2. PICK t : t = Append(s, f)
    OBVIOUS
  <1>3. Sent(p)' = t
    BY <1>1, <1>2
  <1>4. /\ Asks(p) = {g \in Members(s) : IsRequest(g)} /\ Says(p) = {g \in Members(s) : IsReply(g)}
        /\ Asks(p)' = {g \in Members(t) : IsRequest(g)} /\ Says(p)' = {g \in Members(t) : IsReply(g)}
    BY <1>1, <1>3 DEF Asks, Says
  <1>5. /\ Asks(p)' = Asks(p) \cup {g \in {f} : IsRequest(g)}
        /\ Says(p)' = Says(p) \cup {g \in {f} : IsReply(g)}
    <2>1. /\ {g \in Members(t) : IsRequest(g)} =
               {g \in Members(s) : IsRequest(g)} \cup {g \in {f} : IsRequest(g)}
          /\ {g \in Members(t) : IsReply(g)} =
               {g \in Members(s) : IsReply(g)} \cup {g \in {f} : IsReply(g)}
      BY <1>2, QueuedFrame
    <2> QED
      BY <1>4, <2>1
  <1>6. ASSUME IsRequest(f) => f.msgno \notin Nos(Asks(p)),
               IsReply(f) => f.msgno \notin Nos(Says(p))
        PROVE  OnceSent(Sent(p))'
    <2>1. \A g \in Members(s) : /\ IsRequest(f) /\ IsRequest(g) => g.msgno # f.msgno
                                /\ IsReply(f) /\ IsReply(g) => g.msgno # f.msgno
      BY <1>4, <1>6 DEF Nos
    <2>2. OnceSent(t)
      BY <1>1, <1>2, <2>1, QueuedFrame
    <2> QED
      BY <1>3, <2>2
  <1>7. ASSUME NEW m, NEW n, InFront(Sent(p), m, n),
               f.t = "profile" /\ f.msgno = m => \A g \in Asks(p) : ~(g.t = "close" /\ g.n = n)
        PROVE  InFront(Sent(p), m, n)'
    <2>1. f.t = "profile" /\ f.msgno = m => \A g \in Members(s) : ~(g.t = "close" /\ g.n = n)
      BY <1>4, <1>7 DEF IsRequest
    <2>2. InFront(t, m, n)
      BY <1>1, <1>2, <1>7, <2>1, QueuedFrame
    <2> QED
      BY <1>3, <2>2
  <1>8. /\ t \in Seq(Frames) /\ Len(t) = Len(s) + 1 /\ Len(s) \in Nat /\ t[Len(s) + 1] = f
        /\ \A i \in 1 .. Len(s) : t[i] = s[i]
    BY <1>2, AtEnd
  <1> QED
    BY <1>1, <1>3, <1>5, <1>6, <1>7, <1>8

(* What a read takes from the head of what was sent.                       *)
LEMMA Reading ==
    ASSUME TypeOK, NEW q \in Peers, OnceSent(Sent(q)), Sent(q) # << >>,
           Sent(q)' = Tail(Sent(q)), NEW f, f = Head(Sent(q))
    PROVE  /\ Asks(q)' = Asks(q) \ {g \in {f} : IsRequest(g)}
           /\ Says(q)' = Says(q) \ {g \in {f} : IsReply(g)}
           /\ OnceSent(Sent(q))' /\ f \in Frames
           /\ IsRequest(f) => f \in Asks(q) /\ \A g \in Asks(q) : g.msgno = f.msgno => g = f
           /\ IsReply(f) => f \in Says(q) /\ \A g \in Says(q) : g.msgno = f.msgno => g = f
           /\ \A m, n : InFront(Sent(q), m, n) => InFront(Sent(q), m, n)'
           /\ \A m, n : /\ InFront(Sent(q), m, n) /\ Head(Sent(q)).t = "close"
                        /\ Head(Sent(q)).n = n
                        => \A g \in Says(q) : ~(g.t = "profile" /\ g.msgno = m)
           /\ Sent(q)' \in Seq(Frames) /\ f = Sent(q)[1] /\ Len(Sent(q)) \in Nat \ {0}
           /\ Len(Sent(q)') = Len(Sent(q)) - 1 /\ 1 \in 1 .. Len(Sent(q))
           /\ \A i \in 1 .. Len(Sent(q)') :
                i + 1 \in 1 .. Len(Sent(q)) /\ Sent(q)'[i] = Sent(q)[i + 1]
           /\ \A i \in 1 .. Len(Sent(q)) : i # 1 =>
                i - 1 \in 1 .. Len(Sent(q)') /\ Sent(q)'[i - 1] = Sent(q)[i]
  <1>1. PICK s \in Seq(Frames) : s = Sent(q)
    <2>1. wire[q] \in Seq(Frames) /\ out[q] \in Seq(Frames)
      BY DEF TypeOK
    <2> QED
      BY <2>1, ConcatProperties DEF Sent
  <1>2. PICK t : t = Tail(s)
    OBVIOUS
  <1>3. Sent(q)' = t
    BY <1>1, <1>2
  <1>4. /\ Asks(q) = {g \in Members(s) : IsRequest(g)} /\ Says(q) = {g \in Members(s) : IsReply(g)}
        /\ Asks(q)' = {g \in Members(t) : IsRequest(g)} /\ Says(q)' = {g \in Members(t) : IsReply(g)}
    BY <1>1, <1>3 DEF Asks, Says
  <1>5. /\ {g \in Members(t) : IsRequest(g)} =
             {g \in Members(s) : IsRequest(g)} \ {g \in {f} : IsRequest(g)}
        /\ {g \in Members(t) : IsReply(g)} =
             {g \in Members(s) : IsReply(g)} \ {g \in {f} : IsReply(g)}
        /\ f \in Members(s) /\ OnceSent(t)
        /\ \A g \in Members(s) :
             /\ IsRequest(f) /\ IsRequest(g) /\ g.msgno = f.msgno => g = f
             /\ IsReply(f) /\ IsReply(g) /\ g.msgno = f.msgno => g = f
        /\ \A m, n : InFront(s, m, n) => InFront(t, m, n)
        /\ \A m, n : /\ InFront(s, m, n) /\ f.t = "close" /\ f.n = n
                     => \A g \in Members(s) : ~(g.t = "profile" /\ g.msgno = m)
    <2>1. s # << >> /\ OnceSent(s) /\ f = Head(s)
      BY <1>1
    <2> QED
      BY <1>2, <2>1, ReadFrame
  <1>6. \A g \in Says(q) : g \in Members(s)
    BY <1>4
  <1>7. /\ t \in Seq(Frames) /\ f \in Frames /\ f = s[1] /\ Len(s) \in Nat \ {0}
        /\ Len(t) = Len(s) - 1 /\ 1 \in 1 .. Len(s)
        /\ \A i \in 1 .. Len(t) : i + 1 \in 1 .. Len(s) /\ t[i] = s[i + 1]
        /\ \A i \in 1 .. Len(s) : i # 1 => i - 1 \in 1 .. Len(t) /\ t[i - 1] = s[i]
    BY <1>1, <1>2, AtFront
  <1>8. /\ Asks(q)' = Asks(q) \ {g \in {f} : IsRequest(g)}
        /\ Says(q)' = Says(q) \ {g \in {f} : IsReply(g)}
        /\ IsRequest(f) => f \in Asks(q) /\ \A g \in Asks(q) : g.msgno = f.msgno => g = f
        /\ IsReply(f) => f \in Says(q) /\ \A g \in Says(q) : g.msgno = f.msgno => g = f
    BY <1>4, <1>5
  <1>9. /\ OnceSent(Sent(q))'
        /\ \A m, n : InFront(Sent(q), m, n) => InFront(Sent(q), m, n)'
        /\ \A m, n : /\ InFront(Sent(q), m, n) /\ Head(Sent(q)).t = "close"
                     /\ Head(Sent(q)).n = n
                     => \A g \in Says(q) : ~(g.t = "profile" /\ g.msgno = m)
    BY <1>1, <1>3, <1>5, <1>6
  <1> QED
    BY <1>1, <1>3, <1>7, <1>8, <1>9

(* The same for each kind of frame.                                        *)
LEMMA QueueRequest ==
    ASSUME TypeOK, NEW p \in Peers, OnceSent(Sent(p)), NEW f \in Frames,
           Sent(p)' = Append(Sent(p), f), IsRequest(f), f.msgno \notin Nos(Asks(p))
    PROVE  /\ Asks(p)' = Asks(p) \cup {f} /\ Says(p)' = Says(p) /\ OnceSent(Sent(p))'
           /\ \A m, n : InFront(Sent(p), m, n) => InFront(Sent(p), m, n)'
  <1>1. ~IsReply(f) /\ f.t # "profile"
    BY DEF IsRequest, IsReply
  <1>2. /\ Asks(p)' = Asks(p) \cup {g \in {f} : IsRequest(g)}
        /\ Says(p)' = Says(p) \cup {g \in {f} : IsReply(g)}
    BY Queueing
  <1>3. Asks(p)' = Asks(p) \cup {f} /\ Says(p)' = Says(p)
    BY <1>1, <1>2
  <1>4. /\ OnceSent(Sent(p))'
        /\ \A m, n : InFront(Sent(p), m, n) => InFront(Sent(p), m, n)'
    BY <1>1, Queueing
  <1> QED
    BY <1>3, <1>4

(* Queueing a reply.                                                       *)
LEMMA QueueReply ==
    ASSUME TypeOK, NEW p \in Peers, OnceSent(Sent(p)), NEW f \in Frames,
           Sent(p)' = Append(Sent(p), f), IsReply(f), f.msgno \notin Nos(Says(p))
    PROVE  /\ Asks(p)' = Asks(p) /\ Says(p)' = Says(p) \cup {f} /\ OnceSent(Sent(p))'
           /\ \A m, n :
                InFront(Sent(p), m, n)
                /\ (f.t = "profile" /\ f.msgno = m =>
                      \A g \in Asks(p) : ~(g.t = "close" /\ g.n = n))
                => InFront(Sent(p), m, n)'
  <1>1. ~IsRequest(f)
    BY DEF IsRequest, IsReply
  <1>2. /\ Asks(p)' = Asks(p) \cup {g \in {f} : IsRequest(g)}
        /\ Says(p)' = Says(p) \cup {g \in {f} : IsReply(g)}
    BY Queueing
  <1>3. Asks(p)' = Asks(p) /\ Says(p)' = Says(p) \cup {f}
    BY <1>1, <1>2
  <1>4. OnceSent(Sent(p))'
    BY <1>1, Queueing
  <1>5. \A m, n :
          InFront(Sent(p), m, n)
          /\ (f.t = "profile" /\ f.msgno = m => \A g \in Asks(p) : ~(g.t = "close" /\ g.n = n))
          => InFront(Sent(p), m, n)'
    BY Queueing
  <1> QED
    BY <1>3, <1>4, <1>5

(* Queueing a frame of an ordinary channel.                                *)
LEMMA QueueTraffic ==
    ASSUME TypeOK, NEW p \in Peers, OnceSent(Sent(p)), NEW f \in Frames,
           Sent(p)' = Append(Sent(p), f), IsTraffic(f)
    PROVE  /\ Asks(p)' = Asks(p) /\ Says(p)' = Says(p) /\ OnceSent(Sent(p))'
           /\ \A m, n : InFront(Sent(p), m, n) => InFront(Sent(p), m, n)'
  <1>1. ~IsReply(f) /\ ~IsRequest(f) /\ f.t # "profile"
    BY DEF IsRequest, IsReply, IsTraffic
  <1>2. /\ Asks(p)' = Asks(p) \cup {g \in {f} : IsRequest(g)}
        /\ Says(p)' = Says(p) \cup {g \in {f} : IsReply(g)}
    BY Queueing
  <1>3. Asks(p)' = Asks(p) /\ Says(p)' = Says(p)
    BY <1>1, <1>2
  <1>4. /\ OnceSent(Sent(p))'
        /\ \A m, n : InFront(Sent(p), m, n) => InFront(Sent(p), m, n)'
    BY <1>1, Queueing
  <1> QED
    BY <1>3, <1>4

(* Nothing of it changes when what the peer has sent does not.             *)
LEMMA Resting ==
    ASSUME NEW p \in Peers, Sent(p)' = Sent(p)
    PROVE  /\ Asks(p)' = Asks(p) /\ Says(p)' = Says(p)
           /\ OnceSent(Sent(p)) => OnceSent(Sent(p))'
           /\ \A m, n : InFront(Sent(p), m, n) => InFront(Sent(p), m, n)'
  BY DEF Asks, Says

(* An event is raised.                                                     *)
LEMMA Raising ==
    ASSUME TypeOK, NEW p \in Peers, NEW e \in Events, Raise(p, e), OnceHeard(events[p])
    PROVE  /\ Heard(p)' = Heard(p) \cup {d \in {e} : IsRequested(d)}
           /\ Heard(Other(p))' = Heard(Other(p))
           /\ events' \in [Peers -> Seq(Events)] /\ events'[Other(p)] = events[Other(p)]
           /\ (IsRequested(e) => e.msgno \notin Nos(Heard(p))) => OnceHeard(events'[p])
  <1>1. PICK s \in Seq(Events) : s = events[p]
    BY DEF TypeOK
  <1>2. PICK t : t = Append(s, e)
    OBVIOUS
  <1>3. /\ t \in Seq(Events) /\ Len(t) = Len(s) + 1 /\ Len(s) \in Nat /\ t[Len(s) + 1] = e
        /\ \A i \in 1 .. Len(s) : t[i] = s[i]
        /\ Members(t) = Members(s) \cup {e}
    BY <1>2, AtEnd
  <1>4. events' = [events EXCEPT ![p] = t]
    BY <1>1, <1>2 DEF Raise
  <1>5. /\ events'[p] = t /\ events'[Other(p)] = events[Other(p)]
        /\ events' \in [Peers -> Seq(Events)]
    BY <1>3, <1>4, TwoPeers DEF TypeOK
  <1>6. /\ Heard(p)' = Heard(p) \cup {d \in {e} : IsRequested(d)}
        /\ Heard(Other(p))' = Heard(Other(p))
    BY <1>1, <1>3, <1>5 DEF Heard
  <1>7. ASSUME IsRequested(e) => e.msgno \notin Nos(Heard(p))
        PROVE  OnceHeard(t)
    <2>1. SUFFICES ASSUME NEW i \in 1 .. Len(t), NEW j \in 1 .. Len(t),
                          IsRequested(t[i]), IsRequested(t[j]), t[i].msgno = t[j].msgno
                   PROVE  i = j
      BY DEF OnceHeard
    <2>2. \A k \in 1 .. Len(s) : IsRequested(s[k]) => s[k] \in Heard(p)
      BY <1>1 DEF Heard, Members
    <2>3. \A k \in 1 .. Len(t) : k \in 1 .. Len(s) \/ k = Len(s) + 1
      BY <1>3
    <2>4. \A k \in 1 .. Len(s) : IsRequested(e) /\ IsRequested(s[k]) => s[k].msgno # e.msgno
      BY <1>7, <2>2 DEF Nos
    <2>5. CASE i \in 1 .. Len(s) /\ j \in 1 .. Len(s)
      BY <1>1, <1>3, <2>1, <2>5 DEF OnceHeard
    <2>6. CASE i \in 1 .. Len(s) /\ j = Len(s) + 1
      BY <1>3, <2>1, <2>4, <2>6
    <2>7. CASE i = Len(s) + 1 /\ j \in 1 .. Len(s)
      BY <1>3, <2>1, <2>4, <2>7
    <2> QED
      BY <2>3, <2>5, <2>6, <2>7
  <1> QED
    BY <1>5, <1>6, <1>7

(* The first event is handled, which may raise one that asks for nothing.  *)
LEMMA Taking ==
    ASSUME TypeOK, NEW p \in Peers, NEW es, NEW raised, Take(p, es, raised),
           OnceHeard(events[p]),
           raised = << >> \/ \E d \in Events : raised = <<d>> /\ ~IsRequested(d)
    PROVE  LET e == Head(events[p])
           IN  /\ e \in Events /\ e.e \in es
               /\ IsRequested(e) => e \in Heard(p) /\ \A d \in Heard(p) : d.msgno = e.msgno => d = e
               /\ Heard(p)' = Heard(p) \ {d \in {e} : IsRequested(d)}
               /\ Heard(Other(p))' = Heard(Other(p))
               /\ events' \in [Peers -> Seq(Events)] /\ events'[Other(p)] = events[Other(p)]
               /\ draining' \in [Peers -> BOOLEAN]
               /\ OnceHeard(events'[p])
  <1>1. PICK s \in Seq(Events) : s = events[p]
    BY DEF TypeOK
  <1>2. s # << >> /\ Head(s).e \in es /\ events' = [events EXCEPT ![p] = Tail(s) \o raised]
    BY <1>1 DEF Take
  <1>3. PICK e, t : e = Head(s) /\ t = Tail(s)
    OBVIOUS
  <1>4. /\ t \in Seq(Events) /\ e \in Events /\ e = s[1] /\ Len(s) \in Nat \ {0}
        /\ Len(t) = Len(s) - 1 /\ 1 \in 1 .. Len(s)
        /\ \A i \in 1 .. Len(t) : i + 1 \in 1 .. Len(s) /\ t[i] = s[i + 1]
        /\ Members(s) = Members(t) \cup {e}
    BY <1>2, <1>3, AtFront
  <1>5. PICK u : u = t \o raised
    OBVIOUS
  <1>6. \A i, j \in 1 .. Len(s) :
          IsRequested(s[i]) /\ IsRequested(s[j]) /\ s[i].msgno = s[j].msgno => i = j
    BY <1>1 DEF OnceHeard
  <1>7. \A i \in 1 .. Len(s) : IsRequested(e) /\ IsRequested(s[i]) /\ s[i].msgno = e.msgno => i = 1
    BY <1>4, <1>6
  <1>8. \A d \in Members(s) : IsRequested(e) /\ IsRequested(d) /\ d.msgno = e.msgno => d = e
    BY <1>4, <1>7 DEF Members
  <1>9. ASSUME NEW d \in Members(t) PROVE ~(IsRequested(e) /\ d = e)
    <2>1. PICK i \in 1 .. Len(t) : d = t[i]
      BY DEF Members
    <2>2. i + 1 # 1 /\ i + 1 \in 1 .. Len(s) /\ d = s[i + 1]
      BY <1>4, <2>1
    <2> QED
      BY <1>7, <2>2
  <1>10. \A i, j \in 1 .. Len(t) :
           IsRequested(t[i]) /\ IsRequested(t[j]) /\ t[i].msgno = t[j].msgno => i = j
    <2>1. SUFFICES ASSUME NEW i \in 1 .. Len(t), NEW j \in 1 .. Len(t),
                          IsRequested(t[i]), IsRequested(t[j]), t[i].msgno = t[j].msgno
                   PROVE  i = j
      OBVIOUS
    <2>2. i + 1 = j + 1
      BY <1>4, <1>6, <2>1
    <2> QED
      BY <1>4, <2>2
  <1>11. /\ u \in Seq(Events) /\ OnceHeard(u)
         /\ {d \in Members(u) : IsRequested(d)} = {d \in Members(t) : IsRequested(d)}
    <2>1. CASE raised = << >>
      <3>1. u = t
        BY <1>4, <1>5, <2>1, ConcatEmptySeq
      <3> QED
        BY <1>4, <1>10, <3>1 DEF OnceHeard
    <2>2. ASSUME NEW d \in Events, raised = <<d>>, ~IsRequested(d)
          PROVE  /\ u \in Seq(Events) /\ OnceHeard(u)
                 /\ {c \in Members(u) : IsRequested(c)} = {c \in Members(t) : IsRequested(c)}
      <3>1. u = Append(t, d)
        BY <1>4, <1>5, <2>2, AppendIsConcat
      <3>2. /\ u \in Seq(Events) /\ Len(u) = Len(t) + 1 /\ Len(t) \in Nat /\ u[Len(t) + 1] = d
            /\ \A i \in 1 .. Len(t) : u[i] = t[i]
            /\ Members(u) = Members(t) \cup {d}
        BY <1>4, <3>1, AtEnd
      <3>3. \A i \in 1 .. Len(u) : IsRequested(u[i]) => i \in 1 .. Len(t)
        BY <2>2, <3>2
      <3>4. OnceHeard(u)
        BY <1>10, <3>2, <3>3 DEF OnceHeard
      <3> QED
        BY <2>2, <3>2, <3>4
    <2> QED
      BY <2>1, <2>2
  <1>12. /\ events'[p] = u /\ events'[Other(p)] = events[Other(p)]
         /\ events' \in [Peers -> Seq(Events)]
    BY <1>2, <1>3, <1>5, <1>11, TwoPeers DEF TypeOK
  <1>13. draining' \in [Peers -> BOOLEAN]
    BY DEF Take, TypeOK
  <1>14. /\ Heard(p)' = {d \in Members(t) : IsRequested(d)}
         /\ Heard(p) = {d \in Members(s) : IsRequested(d)}
         /\ Heard(Other(p))' = Heard(Other(p))
    BY <1>1, <1>11, <1>12 DEF Heard
  <1>15. /\ Heard(p)' = Heard(p) \ {d \in {e} : IsRequested(d)}
         /\ IsRequested(e) => e \in Heard(p) /\ \A d \in Heard(p) : d.msgno = e.msgno => d = e
    BY <1>4, <1>8, <1>9, <1>14
  <1> QED
    BY <1>1, <1>2, <1>3, <1>4, <1>11, <1>12, <1>13, <1>14, <1>15

-----------------------------------------------------------------------------
(* Numbers.                                                                *)

(* Channel::allocate_msgno finds a number that is not in use.              *)
LEMMA Allocates ==
    ASSUME TypeOK, NEW p \in Peers, MsgNos \ Outstanding(p) # {}
    PROVE  AllocateMsgNo(p) \in MsgNos \ Nos(pending[p])
  <1> DEFINE free == MsgNos \ Outstanding(p)
             Distances == {Ahead(p, m) : m \in free}
  <1>1. MaxMsgNo \in Nat /\ next_msgno[p] \in 0 .. MaxMsgNo
    BY SessionAssumption DEF TypeOK, MsgNos
  <1>2. \A m \in free : Ahead(p, m) \in Nat
    BY <1>1 DEF MsgNos, Ahead
  <1>3. Distances \subseteq Nat /\ Distances # {}
    BY <1>2
  <1>4. PICK d \in Distances : \A b \in Distances : ~(<<b, d>> \in OpToRel(<, Nat))
    BY <1>3, NatLessThanWellFounded, WFMin
  <1>5. PICK m \in free : d = Ahead(p, m)
    BY <1>4
  <1>6. \A l \in free : Ahead(p, m) <= Ahead(p, l)
    <2>1. \A a, b \in Nat : a < b => <<a, b>> \in OpToRel(<, Nat)
      BY DEF OpToRel
    <2> SUFFICES ASSUME NEW l \in free
                 PROVE  Ahead(p, m) <= Ahead(p, l)
      OBVIOUS
    <2>2. PICK b \in Distances : b = Ahead(p, l)
      OBVIOUS
    <2>3. b \in Nat /\ d \in Nat
      BY <1>3
    <2>4. ~(b < d)
      BY <1>4, <2>1, <2>3
    <2> QED
      BY <1>5, <2>2, <2>3, <2>4
  <1>7. AllocateMsgNo(p) \in free
    BY <1>5, <1>6 DEF AllocateMsgNo
  <1>8. Outstanding(p) = Nos(pending[p])
    BY DEF Outstanding, Nos
  <1> QED
    BY <1>7, <1>8

(* No number is given by both peers, and none given is 0.                  *)
LEMMA GivenByOne ==
    \A p \in Peers : \A n : Gave(p, n) => n # 0 /\ ~Owns(Other(p), n) /\ ~Gave(Other(p), n)
  BY DEF Gave, Owns, FirstChannel, Other, Peers

(* The next number of a peer is its own, and nobody has given it.          *)
LEMMA NextNumber ==
    ASSUME TypeOK, NEW p \in Peers, NumbersGiven(p)
    PROVE  /\ next_channel[p] \in Nat \ {0} /\ Owns(p, next_channel[p])
           /\ ~Given(next_channel[p])
           /\ calls[p].start < MaxStarts => next_channel[p] + 2 \in Numbers
  <1>1. PICK k \in Nat : /\ k = calls[p].start /\ next_channel[p] = FirstChannel(p) + 2 * k
                         /\ k <= MaxStarts
    BY SessionAssumption DEF TypeOK, NumbersGiven
  <1>2. next_channel[p] \in Nat \ {0}
    BY <1>1 DEF FirstChannel
  <1>3. Owns(p, next_channel[p])
    BY <1>1 DEF FirstChannel, Owns
  <1>4. ~Owns(Other(p), next_channel[p])
    <2>1. next_channel[p] % 2 = FirstChannel(p) % 2
      BY <1>3 DEF Owns
    <2> QED
      BY <2>1 DEF FirstChannel, Owns, Other, Peers
  <1>5. ASSUME NEW x \in Peers, Gave(x, next_channel[p]) PROVE FALSE
    <2>1. x = p \/ x = Other(p)
      BY TwoPeers
    <2>2. CASE x = p
      BY <1>2, <1>5, <2>2 DEF Gave
    <2>3. CASE x = Other(p)
      BY <1>4, <1>5, <2>3 DEF Gave
    <2> QED
      BY <2>1, <2>2, <2>3
  <1>6. calls[p].start < MaxStarts => next_channel[p] + 2 \in Numbers
    BY <1>1, SessionAssumption DEF FirstChannel, Numbers
  <1> QED
    BY <1>2, <1>3, <1>5, <1>6 DEF Given

(* Numbers stay given.                                                     *)
LEMMA StayGiven ==
    ASSUME TypeOK, TypeOK', \A x \in Peers : next_channel[x] <= next_channel'[x]
    PROVE  /\ \A x \in Peers : \A n \in Numbers : Gave(x, n) => Gave(x, n)'
           /\ \A n \in Numbers : Given(n) => Given(n)'
  <1>1. ASSUME NEW x \in Peers, NEW n \in Numbers, Gave(x, n) PROVE Gave(x, n)'
    <2>1. next_channel[x] \in Nat /\ next_channel'[x] \in Nat /\ n \in Nat
      BY DEF TypeOK, Numbers
    <2> QED
      BY <1>1, <2>1 DEF Gave, Owns
  <1> QED
    BY <1>1 DEF Given

-----------------------------------------------------------------------------
(* What the parts of the invariant depend on.                              *)

(* What exactness of Session.pending depends on.                           *)
LEMMA SettledKept ==
    ASSUME NEW x \in Peers, Settled(x), pending'[x] = pending[x], Asks(x)' = Asks(x),
           Heard(Other(x))' = Heard(Other(x)), Says(Other(x))' = Says(Other(x))
    PROVE  Settled(x)'
  BY DEF Settled

(* What the numbers given to channels depend on.                           *)
LEMMA NumbersKept ==
    ASSUME NEW x \in Peers, NumbersGiven(x), next_channel' = next_channel,
           calls'[x].start = calls[x].start, pending'[x] \subseteq pending[x],
           \A n \in channels'[x] : n \in channels[x] \/ Given(n)
    PROVE  NumbersGiven(x)'
  <1>1. \A n : Given(n)' <=> Given(n)
    BY DEF Given, Gave, Owns, FirstChannel
  <1>2. \A n : Gave(x, n)' <=> Gave(x, n)
    BY DEF Gave, Owns, FirstChannel
  <1>3. \A n \in channels'[x] : Given(n)'
    BY <1>1 DEF NumbersGiven
  <1>4. \A r \in pending'[x] : IF r.what = "start" THEN Gave(x, r.n)' ELSE r.n = 0 \/ Given(r.n)'
    BY <1>1, <1>2 DEF NumbersGiven
  <1> QED
    BY <1>3, <1>4 DEF NumbersGiven, FirstChannel

(* What the state of a channel asked for depends on.                       *)
LEMMA UnopenedKept ==
    ASSUME NEW x \in Peers, NEW y, y = Other(x), NEW m, NEW n, Unopened(x, m, n),
           n \notin channels'[x],
           Agreed(x, m)' <=> Agreed(x, m),
           Agreed(x, m) /\ (n \in channels[y] \/ state[y] = "Closed")
             => n \in channels'[y] \/ state'[y] = "Closed",
           ~Agreed(x, m) /\ n \notin channels[y] => n \notin channels'[y],
           pending'[y] \subseteq pending[y],
           Agreed(x, m) =>
             \A s \in pending'[y] : s.n = n /\ s.msgno \in Nos(Asks(y)) => s.msgno \in Nos(Asks(y))',
           InFront(Sent(y), m, n) => InFront(Sent(y), m, n)'
    PROVE  Unopened(x, m, n)'
  <1>1. CASE Agreed(x, m)
    <2>1. /\ n \in channels[y] \/ state[y] = "Closed"
          /\ \A s \in pending[y] : s.n = n => s.msgno \in Nos(Asks(y))
          /\ InFront(Sent(y), m, n)
      BY <1>1 DEF Unopened
    <2>2. /\ n \in channels'[y] \/ state'[y] = "Closed"
          /\ \A s \in pending'[y] : s.n = n => s.msgno \in Nos(Asks(y))'
          /\ InFront(Sent(y), m, n)'
      BY <1>1, <2>1
    <2>3. Agreed(x, m)'
      BY <1>1
    <2> QED
      BY <2>2, <2>3 DEF Unopened
  <1>2. CASE ~Agreed(x, m)
    <2>1. /\ n \notin channels[y]
          /\ \A s \in pending[y] : s.n # n
      BY <1>2 DEF Unopened
    <2>2. /\ n \notin channels'[y]
          /\ \A s \in pending'[y] : s.n # n
      BY <1>2, <2>1
    <2>3. ~Agreed(x, m)'
      BY <1>2
    <2> QED
      BY <2>2, <2>3 DEF Unopened
  <1> QED
    BY <1>1, <1>2

(* Agreement is the replies on their way.                                  *)
LEMMA AgreedKept ==
    ASSUME NEW x \in Peers, Says(Other(x))' = Says(Other(x))
    PROVE  \A m : Agreed(x, m)' <=> Agreed(x, m)
  BY DEF Agreed

(* What agreed closes depend on.                                           *)
LEMMA ClosingKept ==
    ASSUME NEW x \in Peers, ClosingOver(x), pending'[x] \subseteq pending[x],
           \A f \in Says(Other(x))' : f.t = "ok" => f \in Says(Other(x)),
           channels'[Other(x)] \subseteq channels[Other(x)],
           state[Other(x)] = "Closed" => state'[Other(x)] = "Closed"
    PROVE  ClosingOver(x)'
  BY DEF ClosingOver

(* What the agreement on channels depends on.                              *)
LEMMA AgreeingKept ==
    ASSUME NEW x \in Peers, Agreeing(x), channels'[x] \subseteq channels[x],
           channels[Other(x)] \subseteq channels'[Other(x)],
           state[Other(x)] = "Closed" => state'[Other(x)] = "Closed",
           pending[x] \subseteq pending'[x], pending[Other(x)] \subseteq pending'[Other(x)]
    PROVE  Agreeing(x)'
  BY DEF Agreeing

(* Nothing is asked, heard or said.                                        *)
LEMMA QuietTables ==
    ASSUME SessionInv, UNCHANGED <<channels, pending>>,
           \A x \in Peers : /\ Asks(x)' = Asks(x) /\ Says(x)' = Says(x) /\ Heard(x)' = Heard(x)
                            /\ state[x] = "Closed" => state'[x] = "Closed"
                            /\ \A m, n : InFront(Sent(x), m, n) => InFront(Sent(x), m, n)'
    PROVE  \A x \in Peers : Settled(x)' /\ Starting(x)' /\ ClosingOver(x)' /\ Agreeing(x)'
  <1> SUFFICES ASSUME NEW x \in Peers
               PROVE  Settled(x)' /\ Starting(x)' /\ ClosingOver(x)' /\ Agreeing(x)'
    OBVIOUS
  <1>1. PICK y \in Peers : y = Other(x)
    BY TwoPeers
  <1>2. /\ Settled(x) /\ Starting(x) /\ ClosingOver(x) /\ Agreeing(x)
    BY DEF SessionInv
  <1>3. Settled(x)'
    BY <1>1, <1>2, SettledKept
  <1>5. ASSUME NEW r \in pending'[x], r.what = "start" PROVE Unopened(x, r.msgno, r.n)'
    <2>1. PICK m, n : m = r.msgno /\ n = r.n
      OBVIOUS
    <2>2. Unopened(x, m, n)
      BY <1>2, <1>5, <2>1 DEF Starting
    <2>3. Agreed(x, m)' <=> Agreed(x, m)
      BY <1>1, AgreedKept
    <2>4. n \notin channels'[x]
      BY <2>2 DEF Unopened
    <2>5. Asks(y)' = Asks(y) /\ (InFront(Sent(y), m, n) => InFront(Sent(y), m, n)')
      OBVIOUS
    <2>6. Nos(Asks(y))' = Nos(Asks(y))
      BY <2>5 DEF Nos
    <2>7. Unopened(x, m, n)'
      BY <1>1, <2>2, <2>3, <2>4, <2>5, <2>6, UnopenedKept
    <2> QED
      BY <2>1, <2>7
  <1>6. Starting(x)'
    BY <1>5 DEF Starting
  <1>7. ClosingOver(x)'
    BY <1>1, <1>2, ClosingKept
  <1>8. Agreeing(x)'
    BY <1>1, <1>2, AgreeingKept
  <1> QED
    BY <1>3, <1>6, <1>7, <1>8

(* And no number is given.                                                 *)
LEMMA Quiet ==
    ASSUME SessionInv, UNCHANGED <<channels, pending, next_channel>>,
           \A x \in Peers : /\ calls'[x].start = calls[x].start
                            /\ Asks(x)' = Asks(x) /\ Says(x)' = Says(x) /\ Heard(x)' = Heard(x)
                            /\ state[x] = "Closed" => state'[x] = "Closed"
                            /\ \A m, n : InFront(Sent(x), m, n) => InFront(Sent(x), m, n)'
    PROVE  \A x \in Peers : /\ Settled(x)' /\ NumbersGiven(x)' /\ Starting(x)'
                            /\ ClosingOver(x)' /\ Agreeing(x)'
  <1>1. \A x \in Peers : NumbersGiven(x)
    BY DEF SessionInv
  <1>2. \A x \in Peers : NumbersGiven(x)'
    BY <1>1, NumbersKept
  <1> QED
    BY <1>2, QuietTables

(* What a peer has sent stays, or grows by one frame of these types.       *)
Grows(p, types) ==
    \/ Sent(p)' = Sent(p)
    \/ \E f \in Frames : f.t \in types /\ Sent(p)' = Append(Sent(p), f)

(* A peer that queues a frame leaves what is in front of it.               *)
LEMMA GrowsBehind ==
    ASSUME TypeOK, NEW p \in Peers, NEW types, Grows(p, types)
    PROVE  /\ Len(Sent(p)) \in Nat /\ Len(Sent(p)') \in Nat /\ Len(Sent(p)) <= Len(Sent(p)')
           /\ \A i \in 1 .. Len(Sent(p)) : Sent(p)'[i] = Sent(p)[i]
           /\ \A i \in 1 .. Len(Sent(p)') : i \in 1 .. Len(Sent(p)) \/ Sent(p)'[i].t \in types
           /\ Sent(p) # << >> => Sent(p)' # << >>
  <1>1. PICK s \in Seq(Frames) : s = Sent(p)
    <2>1. wire[p] \in Seq(Frames) /\ out[p] \in Seq(Frames)
      BY DEF TypeOK
    <2> QED
      BY <2>1, ConcatProperties DEF Sent
  <1>2. CASE Sent(p)' = Sent(p)
    BY <1>1, <1>2, LenProperties
  <1>3. ASSUME NEW f \in Frames, f.t \in types, Sent(p)' = Append(Sent(p), f)
        PROVE  /\ Len(Sent(p)) \in Nat /\ Len(Sent(p)') \in Nat /\ Len(Sent(p)) <= Len(Sent(p)')
               /\ \A i \in 1 .. Len(Sent(p)) : Sent(p)'[i] = Sent(p)[i]
               /\ \A i \in 1 .. Len(Sent(p)') : i \in 1 .. Len(Sent(p)) \/ Sent(p)'[i].t \in types
               /\ Sent(p)' # << >>
    <2>1. PICK t : t = Append(s, f)
      OBVIOUS
    <2>2. /\ t \in Seq(Frames) /\ Len(t) = Len(s) + 1 /\ Len(s) \in Nat /\ t[Len(s) + 1] = f
          /\ \A i \in 1 .. Len(s) : t[i] = s[i]
      BY <2>1, AtEnd
    <2>3. \A i \in 1 .. Len(t) : i \in 1 .. Len(s) \/ i = Len(s) + 1
      BY <2>2
    <2>4. t # << >>
      BY <2>2, EmptySeq
    <2>5. Sent(p)' = t
      BY <1>1, <1>3, <2>1
    <2>6. \A i \in 1 .. Len(t) : i \in 1 .. Len(s) \/ t[i].t \in types
      BY <1>3, <2>2, <2>3
    <2>7. Len(t) \in Nat /\ Len(s) <= Len(t)
      BY <2>2
    <2> QED
      BY <1>1, <2>2, <2>4, <2>5, <2>6, <2>7
  <1> QED
    BY <1>2, <1>3 DEF Grows

(* The greeting stays first while frames are queued behind it.             *)
LEMMA GreetingKept ==
    ASSUME TypeOK, NEW x \in Peers, GreetingFirst(x), NEW types, Grows(Other(x), types),
           "greeting" \notin types,
           state'[x] = "AwaitingGreeting" <=> state[x] = "AwaitingGreeting",
           state[x] = "AwaitingGreeting" => events'[x] = << >>,
           ended'[x] \in {ended[x], "closed", "eof", "Io", "dropped", "NoSuchChannel"}
    PROVE  GreetingFirst(x)'
  <1>1. PICK y \in Peers : y = Other(x)
    BY TwoPeers
  <1>2. /\ Len(Sent(y)) \in Nat /\ Len(Sent(y)') \in Nat /\ Len(Sent(y)) <= Len(Sent(y)')
        /\ \A i \in 1 .. Len(Sent(y)) : Sent(y)'[i] = Sent(y)[i]
        /\ \A i \in 1 .. Len(Sent(y)') : i \in 1 .. Len(Sent(y)) \/ Sent(y)'[i].t \in types
        /\ Sent(y) # << >> => Sent(y)' # << >>
    BY <1>1, GrowsBehind
  <1>3. ASSUME state'[x] = "AwaitingGreeting", Running(x)'
        PROVE  /\ Sent(y)' # << >> /\ Sent(y)'[1].t = "greeting"
               /\ Sent(y)'[1].more = (y \in BigGreeting)
               /\ y \notin BigGreeting => \A i \in 2 .. Len(Sent(y)') : Sent(y)'[i].t # "greeting"
    <2>1. Running(x)
      BY <1>3 DEF Running
    <2>2. /\ Sent(y) # << >> /\ Sent(y)[1].t = "greeting" /\ Sent(y)[1].more = (y \in BigGreeting)
          /\ y \notin BigGreeting => \A i \in 2 .. Len(Sent(y)) : Sent(y)[i].t # "greeting"
      BY <1>1, <1>3, <2>1 DEF GreetingFirst
    <2>3. 1 \in 1 .. Len(Sent(y))
      <3>1. wire[y] \in Seq(Frames) /\ out[y] \in Seq(Frames)
        BY DEF TypeOK
      <3>2. Sent(y) \in Seq(Frames)
        BY <3>1, ConcatProperties DEF Sent
      <3> QED
        BY <2>2, <3>2, AtFront
    <2>4. \A i \in 2 .. Len(Sent(y)') :
            i \in 2 .. Len(Sent(y)) \/ Sent(y)'[i].t # "greeting"
      BY <1>2
    <2>5. \A i \in 2 .. Len(Sent(y)) : Sent(y)'[i] = Sent(y)[i]
      BY <1>2
    <2>6. Sent(y)'[1] = Sent(y)[1]
      BY <1>2, <2>3
    <2> QED
      BY <1>2, <2>2, <2>4, <2>5, <2>6
  <1>4. ASSUME state'[x] # "AwaitingGreeting", NEW i \in 1 .. Len(Sent(y)')
        PROVE  Sent(y)'[i].t # "greeting"
    <2>1. \A j \in 1 .. Len(Sent(y)) : Sent(y)[j].t # "greeting"
      BY <1>1, <1>4 DEF GreetingFirst
    <2> QED
      BY <1>2, <2>1
  <1>5. /\ state'[x] = "AwaitingGreeting" => events'[x] = << >>
        /\ ended'[x] = "NotAGreeting" => y \in BigGreeting
        /\ ended'[x] # "UnknownMsgNo"
    BY <1>1 DEF GreetingFirst
  <1> QED
    BY <1>1, <1>3, <1>4, <1>5 DEF GreetingFirst

(* Once the greeting is read, no frame is one.                             *)
LEMMA GreetingRead ==
    ASSUME TypeOK, NEW x \in Peers, GreetingFirst(x), Sent(Other(x)) # << >>,
           Sent(Other(x))' = Tail(Sent(Other(x))),
           state[x] # "AwaitingGreeting", state'[x] # "AwaitingGreeting",
           ended'[x] \in {ended[x], "NoSuchChannel"}
    PROVE  GreetingFirst(x)'
  <1>1. PICK y \in Peers : y = Other(x)
    BY TwoPeers
  <1>2. PICK s \in Seq(Frames) : s = Sent(y)
    <2>1. wire[y] \in Seq(Frames) /\ out[y] \in Seq(Frames)
      BY DEF TypeOK
    <2> QED
      BY <2>1, ConcatProperties DEF Sent
  <1>3. PICK t : t = Tail(s)
    OBVIOUS
  <1>4. \A i \in 1 .. Len(t) : i + 1 \in 1 .. Len(s) /\ t[i] = s[i + 1]
    BY <1>1, <1>2, <1>3, AtFront
  <1>5. \A i \in 1 .. Len(s) : s[i].t # "greeting"
    BY <1>1, <1>2 DEF GreetingFirst
  <1>6. \A i \in 1 .. Len(t) : t[i].t # "greeting"
    BY <1>4, <1>5
  <1>7. Sent(y)' = t
    BY <1>1, <1>2, <1>3
  <1>8. /\ ended'[x] = "NotAGreeting" => y \in BigGreeting
        /\ ended'[x] # "UnknownMsgNo"
    BY <1>1 DEF GreetingFirst
  <1> QED
    BY <1>1, <1>6, <1>7, <1>8 DEF GreetingFirst

(* Traffic while frames other than traffic are queued.                     *)
LEMMA TrafficKept ==
    ASSUME TypeOK, NEW x \in Peers, Traffic(x), NEW types, Grows(Other(x), types),
           {"data", "seq"} \cap types = {},
           NoSends' => NoSends,
           NoCloses' => /\ NoCloses /\ state'[x] # "Closed"
                        /\ \A z \in Peers : channels[z] \subseteq channels'[z]
                        /\ pending[x] \subseteq pending'[x]
                        /\ \A r \in pending'[x] : r.what = "start",
           ended'[x] \in {ended[x], "closed", "eof", "Io", "dropped", "NotAGreeting"}
    PROVE  Traffic(x)'
  <1>1. PICK y \in Peers : y = Other(x)
    BY TwoPeers
  <1>2. PICK s, t : s = Sent(y) /\ t = Sent(y)'
    OBVIOUS
  <1>3. /\ Len(s) \in Nat /\ Len(t) \in Nat /\ Len(s) <= Len(t)
        /\ \A i \in 1 .. Len(s) : t[i] = s[i]
        /\ \A i \in 1 .. Len(t) : i \in 1 .. Len(s) \/ t[i].t \in types
    BY <1>1, <1>2, GrowsBehind
  <1>4. \A j \in 1 .. Len(t) : IsTraffic(t[j]) => j \in 1 .. Len(s) /\ t[j] = s[j]
    BY <1>3 DEF IsTraffic
  <1>5. ASSUME NoSends', NEW j \in 1 .. Len(t) PROVE ~IsTraffic(t[j])
    BY <1>1, <1>2, <1>4, <1>5 DEF Traffic
  <1>6. ASSUME NoCloses', NEW j \in 1 .. Len(t), IsTraffic(t[j])
        PROVE  t[j].n \in channels'[y] /\ Reaches(x, j)'
    <2>1. j \in 1 .. Len(s) /\ t[j] = s[j]
      BY <1>4, <1>6
    <2>2. s[j].n \in channels[y] /\ Reaches(x, j)
      BY <1>1, <1>2, <1>6, <2>1 DEF Traffic
    <2>3. CASE s[j].n \in channels[x]
      BY <1>1, <1>2, <1>6, <2>1, <2>2, <2>3 DEF Reaches
    <2>4. ASSUME NEW i \in 1 .. j - 1, NEW r \in pending[x], r.what = "start", r.n = s[j].n,
                 s[i].t = "profile", s[i].msgno = r.msgno
          PROVE  t[j].n \in channels'[y] /\ Reaches(x, j)'
      <3>1. i \in 1 .. Len(s)
        BY <1>3, <2>1
      <3>2. t[i] = s[i] /\ r \in pending'[x]
        BY <1>3, <1>6, <3>1
      <3> QED
        BY <1>1, <1>2, <1>6, <2>1, <2>2, <2>4, <3>2 DEF Reaches
    <2> QED
      BY <1>1, <1>2, <2>2, <2>3, <2>4 DEF Reaches
  <1>7. NoSends' \/ NoCloses' => ended'[x] # "NoSuchChannel"
    BY DEF Traffic
  <1>8. NoCloses' => state'[x] # "Closed" /\ \A r \in pending'[x] : r.what = "start"
    OBVIOUS
  <1> QED
    BY <1>1, <1>2, <1>5, <1>6, <1>7, <1>8 DEF Traffic

(* Traffic while a frame of the other peer is read.                        *)
LEMMA TrafficRead ==
    ASSUME TypeOK, NEW x \in Peers, Traffic(x), Sent(Other(x)) # << >>,
           Sent(Other(x))' = Tail(Sent(Other(x))), NEW f, f = Head(Sent(Other(x))),
           NoSends' => NoSends,
           NoCloses' => /\ NoCloses /\ state'[x] # "Closed"
                        /\ \A z \in Peers : channels[z] \subseteq channels'[z]
                        /\ \A r \in pending'[x] : r.what = "start"
                        /\ \A r \in pending[x] :
                             /\ r \in pending'[x] \/ r.n \in channels'[x] \/ ~Agreed(x, r.msgno)
                             /\ f.t = "profile" /\ f.msgno = r.msgno => r.n \in channels'[x],
           NoSends' \/ NoCloses' => ended'[x] # "NoSuchChannel"
    PROVE  Traffic(x)'
  <1>1. PICK y \in Peers : y = Other(x)
    BY TwoPeers
  <1>2. PICK s \in Seq(Frames) : s = Sent(y)
    <2>1. wire[y] \in Seq(Frames) /\ out[y] \in Seq(Frames)
      BY DEF TypeOK
    <2> QED
      BY <2>1, ConcatProperties DEF Sent
  <1>3. PICK t : t = Tail(s)
    OBVIOUS
  <1>4. /\ f = s[1] /\ Len(s) \in Nat \ {0} /\ Len(t) = Len(s) - 1
        /\ \A i \in 1 .. Len(t) : i + 1 \in 1 .. Len(s) /\ t[i] = s[i + 1]
        /\ \A i \in 1 .. Len(s) : i # 1 => i - 1 \in 1 .. Len(t) /\ t[i - 1] = s[i]
    BY <1>1, <1>2, <1>3, AtFront
  <1>5. Sent(y)' = t
    BY <1>1, <1>2, <1>3
  <1>6. ASSUME NoSends', NEW j \in 1 .. Len(t) PROVE ~IsTraffic(t[j])
    BY <1>1, <1>2, <1>4, <1>6 DEF Traffic
  <1>7. ASSUME NoCloses', NEW j \in 1 .. Len(t), IsTraffic(t[j])
        PROVE  t[j].n \in channels'[y] /\ Reaches(x, j)'
    <2>1. j + 1 \in 1 .. Len(s) /\ t[j] = s[j + 1]
      BY <1>4
    <2>2. s[j + 1].n \in channels[y] /\ Reaches(x, j + 1)
      BY <1>1, <1>2, <1>7, <2>1 DEF Traffic
    <2>3. t[j].n \in channels'[y]
      BY <1>7, <2>1, <2>2
    <2>4. CASE t[j].n \in channels'[x]
      BY <1>1, <1>5, <2>3, <2>4 DEF Reaches
    <2>5. ASSUME NEW i \in 1 .. (j + 1) - 1, NEW r \in pending[x], r.what = "start",
                 r.n = s[j + 1].n, s[i].t = "profile", s[i].msgno = r.msgno,
                 t[j].n \notin channels'[x]
          PROVE  Reaches(x, j)'
      <3>1. i \in 1 .. Len(s)
        BY <1>4, <2>1
      <3>2. i # 1
        BY <1>4, <1>7, <2>1, <2>5
      <3>3. i - 1 \in 1 .. j - 1 /\ t[i - 1] = s[i]
        BY <1>4, <2>1, <3>1, <3>2
      <3>4. s[i] \in Says(y)
        BY <1>2, <2>5, <3>1 DEF Says, Members, IsReply
      <3>5. Agreed(x, r.msgno)
        BY <1>1, <2>5, <3>4 DEF Agreed
      <3>6. r \in pending'[x]
        BY <1>7, <2>1, <2>5, <3>5
      <3> QED
        BY <1>1, <1>5, <2>1, <2>5, <3>3, <3>6 DEF Reaches
    <2>6. CASE s[j + 1].n \in channels[x]
      BY <1>7, <2>1, <2>4, <2>6
    <2> QED
      BY <1>1, <1>2, <2>2, <2>3, <2>4, <2>5, <2>6 DEF Reaches
  <1>8. NoCloses' => state'[x] # "Closed" /\ \A r \in pending'[x] : r.what = "start"
    OBVIOUS
  <1> QED
    BY <1>1, <1>5, <1>6, <1>7, <1>8 DEF Traffic

(* What a peer sends on a channel it has reaches the other.                *)
LEMMA TrafficMore ==
    ASSUME SessionInv, NEW x \in Peers, NEW f \in Frames, IsTraffic(f),
           f.n \in channels[Other(x)], Sent(Other(x))' = Append(Sent(Other(x)), f),
           UNCHANGED <<channels, pending, state>>, ~NoSends', NoCloses' => NoCloses,
           ended'[x] = ended[x]
    PROVE  Traffic(x)'
  <1>1. PICK y \in Peers : y = Other(x) /\ x = Other(y) /\ y # x
    BY TwoPeers
  <1>2. /\ TypeOK /\ Traffic(x) /\ Traffic(y) /\ Starting(x) /\ Starting(y) /\ Agreeing(y)
    BY DEF SessionInv
  <1>3. PICK s \in Seq(Frames) : s = Sent(y)
    <2>1. wire[y] \in Seq(Frames) /\ out[y] \in Seq(Frames)
      BY <1>2 DEF TypeOK
    <2> QED
      BY <2>1, ConcatProperties DEF Sent
  <1>4. PICK t : t = Append(s, f)
    OBVIOUS
  <1>5. Sent(y)' = t
    BY <1>1, <1>3, <1>4
  <1>6. /\ Len(t) = Len(s) + 1 /\ Len(s) \in Nat /\ t[Len(s) + 1] = f
        /\ \A i \in 1 .. Len(s) : t[i] = s[i]
    BY <1>4, AtEnd
  <1>7. ASSUME NoCloses', NEW j \in 1 .. Len(s), IsTraffic(t[j])
        PROVE  t[j].n \in channels'[y] /\ Reaches(x, j)'
    <2>1. t[j] = s[j]
      BY <1>6
    <2>2. s[j].n \in channels[y] /\ Reaches(x, j)
      BY <1>1, <1>2, <1>3, <1>7, <2>1 DEF Traffic
    <2>3. CASE s[j].n \in channels[x]
      BY <1>1, <1>5, <2>1, <2>2, <2>3 DEF Reaches
    <2>4. ASSUME NEW i \in 1 .. j - 1, NEW r \in pending[x], r.what = "start", r.n = s[j].n,
                 s[i].t = "profile", s[i].msgno = r.msgno
          PROVE  Reaches(x, j)'
      <3>1. i \in 1 .. Len(s)
        BY <1>6
      <3>2. t[i] = s[i] /\ r \in pending'[x]
        BY <1>6, <3>1
      <3> QED
        BY <1>1, <1>5, <2>1, <2>4, <3>2 DEF Reaches
    <2> QED
      BY <1>1, <1>3, <2>1, <2>2, <2>3, <2>4 DEF Reaches
  <1>8. ASSUME NoCloses' PROVE Reaches(x, Len(s) + 1)'
    <2>1. state[x] # "Closed" /\ \A r \in pending[x] \cup pending[y] : r.what = "start"
      BY <1>1, <1>2, <1>8 DEF Traffic
    <2>2. \/ f.n \in channels[x]
          \/ \E r \in pending[x] \cup pending[y] : r.n = f.n
      BY <1>1, <1>2, <2>1 DEF Agreeing
    <2>3. CASE f.n \in channels[x]
      BY <1>1, <1>5, <1>6, <2>3 DEF Reaches
    <2>4. \A r \in pending[y] : r.n # f.n
      BY <1>1, <1>2, <2>1 DEF Starting, Unopened
    <2>5. ASSUME NEW r \in pending[x], r.n = f.n PROVE Reaches(x, Len(s) + 1)'
      <3>1. Unopened(x, r.msgno, r.n) /\ r.what = "start"
        BY <1>2, <2>1 DEF Starting
      <3>2. Agreed(x, r.msgno)
        BY <1>1, <2>5, <3>1 DEF Unopened
      <3>3. PICK g \in Says(y) : g.t = "profile" /\ g.msgno = r.msgno
        BY <1>1, <3>2 DEF Agreed
      <3>4. PICK i \in 1 .. Len(s) : g = s[i]
        BY <1>3 DEF Says, Members
      <3>5. t[i] = g /\ i \in 1 .. (Len(s) + 1) - 1
        BY <1>6, <3>4
      <3> QED
        BY <1>1, <1>5, <1>6, <2>5, <3>1, <3>3, <3>5 DEF Reaches
    <2> QED
      BY <2>2, <2>3, <2>4, <2>5
  <1>9. \A j \in 1 .. Len(t) : j \in 1 .. Len(s) \/ j = Len(s) + 1
    BY <1>6
  <1>10. ASSUME NoCloses', NEW j \in 1 .. Len(t), IsTraffic(t[j])
         PROVE  t[j].n \in channels'[y] /\ Reaches(x, j)'
    <2>1. CASE j \in 1 .. Len(s)
      BY <1>7, <1>10, <2>1
    <2>2. CASE j = Len(s) + 1
      BY <1>1, <1>6, <1>8, <1>10, <2>2
    <2> QED
      BY <1>9, <2>1, <2>2
  <1>11. NoCloses' => state'[x] # "Closed" /\ \A r \in pending'[x] : r.what = "start"
    BY <1>2 DEF Traffic
  <1>12. NoSends' \/ NoCloses' => ended'[x] # "NoSuchChannel"
    BY <1>2 DEF Traffic
  <1> QED
    BY <1>1, <1>5, <1>10, <1>11, <1>12 DEF Traffic

-----------------------------------------------------------------------------
(* The invariant, one action after another.                                *)

(* The invariant is about both peers.                                      *)
LEMMA BothPeers ==
    ASSUME TypeOK', NEW p \in Peers, NEW q, q = Other(p),
           OnceSent(Sent(p))', OnceHeard(events'[p]), OnceSent(Sent(q))', OnceHeard(events'[q]),
           Settled(p)', NumbersGiven(p)', Starting(p)', ClosingOver(p)', Agreeing(p)',
           GreetingFirst(p)', Traffic(p)',
           Settled(q)', NumbersGiven(q)', Starting(q)', ClosingOver(q)', Agreeing(q)',
           GreetingFirst(q)', Traffic(q)'
    PROVE  SessionInv'
  <1>1. \A x \in Peers : x = p \/ x = q
    BY TwoPeers
  <1>2. Once'
    BY <1>1 DEF Once
  <1>3. \A x \in Peers : Settled(x)' /\ NumbersGiven(x)' /\ Starting(x)' /\ ClosingOver(x)'
                           /\ Agreeing(x)' /\ GreetingFirst(x)' /\ Traffic(x)'
    BY <1>1
  <1> QED
    BY <1>2, <1>3 DEF SessionInv

(* Neither session changes, but for the numbers it has given.              *)
LEMMA Resumes ==
    ASSUME SessionInv, TypeOK', UNCHANGED <<state, channels, pending>>,
           NoSends' => NoSends, NoCloses' => NoCloses, \A x \in Peers : NumbersGiven(x)',
           \A x \in Peers : /\ Sent(x)' = Sent(x) /\ Heard(x)' = Heard(x)
                            /\ OnceHeard(events[x])'
                            /\ state[x] = "AwaitingGreeting" => events'[x] = << >>
                            /\ ended'[x] \in {ended[x], "closed", "eof", "Io", "dropped"}
    PROVE  SessionInv'
  <1>1. TypeOK /\ Once
    BY DEF SessionInv
  <1>2. \A x \in Peers : /\ Asks(x)' = Asks(x) /\ Says(x)' = Says(x)
                         /\ OnceSent(Sent(x))'
                         /\ \A m, n : InFront(Sent(x), m, n) => InFront(Sent(x), m, n)'
    BY <1>1, Resting DEF Once
  <1>3. \A x \in Peers : Settled(x)' /\ Starting(x)' /\ ClosingOver(x)' /\ Agreeing(x)'
    BY <1>2, QuietTables
  <1>4. ASSUME NEW x \in Peers PROVE GreetingFirst(x)' /\ Traffic(x)'
    <2>1. Other(x) \in Peers
      BY TwoPeers
    <2>2. Grows(Other(x), {})
      BY <2>1 DEF Grows
    <2>3. GreetingFirst(x) /\ Traffic(x)
      BY DEF SessionInv
    <2>4. GreetingFirst(x)'
      BY <1>1, <2>2, <2>3, GreetingKept
    <2>6. NoCloses => state[x] # "Closed" /\ \A r \in pending[x] : r.what = "start"
      BY <2>3 DEF Traffic
    <2>7. Traffic(x)'
      BY <1>1, <2>2, <2>3, <2>6, TrafficKept
    <2> QED
      BY <2>4, <2>7
  <1>5. Once'
    BY <1>2 DEF Once
  <1> QED
    BY <1>3, <1>4, <1>5 DEF SessionInv

(* Neither session changes.                                                *)
LEMMA Still ==
    ASSUME SessionInv, TypeOK', UNCHANGED <<state, channels, pending, next_channel, calls>>,
           \A x \in Peers : /\ Sent(x)' = Sent(x) /\ Heard(x)' = Heard(x)
                            /\ OnceHeard(events[x])'
                            /\ state[x] = "AwaitingGreeting" => events'[x] = << >>
                            /\ ended'[x] \in {ended[x], "closed", "eof", "Io", "dropped"}
    PROVE  SessionInv'
  <1>1. NoSends' => NoSends
    BY DEF NoSends
  <1>2. NoCloses' => NoCloses
    BY DEF NoCloses
  <1>3. \A x \in Peers : NumbersGiven(x)
    BY DEF SessionInv
  <1>4. \A x \in Peers : NumbersGiven(x)'
    BY <1>3, NumbersKept
  <1> QED
    BY <1>1, <1>2, <1>4, Resumes

(* Reporting an event.                                                     *)
LEMMA ReportInv ==
    ASSUME SessionInv, NEW p \in Peers, Report(p)
    PROVE  SessionInv'
  <1>1. PICK q \in Peers : q = Other(p) /\ q # p
    BY TwoPeers
  <1>2. TypeOK /\ OnceHeard(events[p]) /\ OnceHeard(events[q])
    BY <1>1 DEF SessionInv, Once
  <1>3. PICK es : /\ es = {"GreetingReceived", "ChannelOpened", "StartRefused", "ChannelClosed",
                           "CloseRefused", "SessionClosed", "MessageReceived"}
                  /\ Take(p, es, << >>)
    BY DEF Report
  <1>4. /\ Head(events[p]).e \in es
        /\ Heard(p)' = Heard(p) \ {d \in {Head(events[p])} : IsRequested(d)}
        /\ Heard(q)' = Heard(q)
        /\ events' \in [Peers -> Seq(Events)] /\ events'[q] = events[q]
        /\ draining' \in [Peers -> BOOLEAN]
        /\ OnceHeard(events'[p])
    BY <1>1, <1>2, <1>3, Taking
  <1>5. Heard(p)' = Heard(p)
    BY <1>3, <1>4 DEF IsRequested
  <1>6. UNCHANGED <<state, channels, pending, next_channel, next_msgno, out, wire, ended, calls>>
    BY DEF Report, session
  <1>7. TypeOK'
    BY <1>2, <1>4, <1>6 DEF TypeOK
  <1>8. \A x \in Peers : Sent(x)' = Sent(x)
    BY <1>6 DEF Sent
  <1>9. /\ state[p] # "AwaitingGreeting"
        /\ state[q] = "AwaitingGreeting" => events'[q] = << >>
    BY <1>1, <1>3, <1>4 DEF SessionInv, GreetingFirst, Take
  <1>10. \A x \in Peers : x = p \/ x = q
    BY <1>1, TwoPeers
  <1> QED
    BY <1>1, <1>2, <1>4, <1>5, <1>6, <1>7, <1>8, <1>9, <1>10, Still

(* Writing a frame.                                                        *)
LEMMA WriteInv ==
    ASSUME SessionInv, NEW p \in Peers, Write(p)
    PROVE  SessionInv'
  <1>1. TypeOK /\ Once
    BY DEF SessionInv
  <1>2. /\ \A x \in Peers : Sent(x)' = Sent(x)
        /\ out' \in [Peers -> Seq(Frames)] /\ wire' \in [Peers -> Seq(Frames)]
    BY <1>1, SentWritten
  <1>3. UNCHANGED <<state, channels, pending, next_channel, next_msgno, events, draining, ended, calls>>
    BY DEF Write, session
  <1>4. TypeOK'
    BY <1>1, <1>2, <1>3 DEF TypeOK
  <1>5. \A x \in Peers : /\ Heard(x)' = Heard(x) /\ OnceHeard(events[x])'
                         /\ state[x] = "AwaitingGreeting" => events'[x] = << >>
    BY <1>1, <1>3 DEF Heard, Once, SessionInv, GreetingFirst
  <1> QED
    BY <1>2, <1>3, <1>4, <1>5, Still

(* The end of a driver.                                                    *)
LEMMA EndInv ==
    ASSUME SessionInv, NEW p \in Peers,
           PumpClosed(p) \/ PumpEof(p) \/ PumpBroken(p) \/ PumpDropped(p)
    PROVE  SessionInv'
  <1>1. TypeOK /\ Once
    BY DEF SessionInv
  <1>2. PICK how \in {"closed", "eof", "Io", "dropped"} : End(p, how)
    BY DEF PumpClosed, PumpEof, PumpBroken, PumpDropped
  <1>3. /\ UNCHANGED <<state, channels, pending, next_channel, next_msgno, events, draining, calls>>
        /\ UNCHANGED <<out, wire>> /\ ended' = [ended EXCEPT ![p] = how]
    BY <1>2 DEF End, session
  <1>4. TypeOK'
    BY <1>1, <1>3 DEF TypeOK
  <1>5. \A x \in Peers : /\ Heard(x)' = Heard(x) /\ OnceHeard(events[x])' /\ Sent(x)' = Sent(x)
                         /\ state[x] = "AwaitingGreeting" => events'[x] = << >>
    BY <1>1, <1>3 DEF Heard, Once, SessionInv, GreetingFirst, Sent
  <1>6. \A x \in Peers : ended'[x] \in {ended[x], "closed", "eof", "Io", "dropped"}
    BY <1>1, <1>3 DEF TypeOK
  <1> QED
    BY <1>3, <1>4, <1>5, <1>6, Still

(* A call of an application is counted.                                    *)
LEMMA Counting ==
    ASSUME TypeOK, NEW p \in Peers, NEW call \in {"start", "close", "send"}, Count(p, call),
           call = "start" => calls[p].start < MaxStarts,
           call = "close" => calls[p].close < MaxCloses,
           call = "send" => calls[p].send < MaxSends
    PROVE  /\ calls' \in [Peers -> [start : 0 .. MaxStarts, close : 0 .. MaxCloses,
                                     send : 0 .. MaxSends]]
           /\ calls'[Other(p)] = calls[Other(p)]
           /\ calls'[p].start = calls[p].start + (IF call = "start" THEN 1 ELSE 0)
           /\ NoSends' => NoSends /\ call # "send"
           /\ NoCloses' => NoCloses /\ call # "close"
  <1>1. PICK a \in 0 .. MaxStarts, b \in 0 .. MaxCloses, c \in 0 .. MaxSends :
          calls[p] = [start |-> a, close |-> b, send |-> c]
    BY DEF TypeOK
  <1>2. PICK k : k = [calls[p] EXCEPT ![call] = @ + 1]
    OBVIOUS
  <1>3. calls' = [calls EXCEPT ![p] = k]
    BY <1>2 DEF Count
  <1>4. {MaxStarts, MaxCloses, MaxSends} \subseteq Nat
    BY SessionAssumption
  <1>5. /\ k \in [start : 0 .. MaxStarts, close : 0 .. MaxCloses, send : 0 .. MaxSends]
        /\ k.start = a + (IF call = "start" THEN 1 ELSE 0)
        /\ k.close = b + (IF call = "close" THEN 1 ELSE 0)
        /\ k.send = c + (IF call = "send" THEN 1 ELSE 0)
    <2>1. CASE call = "start"
      BY <1>1, <1>2, <1>4, <2>1
    <2>2. CASE call = "close"
      BY <1>1, <1>2, <1>4, <2>2
    <2>3. CASE call = "send"
      BY <1>1, <1>2, <1>4, <2>3
    <2> QED
      BY <2>1, <2>2, <2>3
  <1>6. /\ calls'[p] = k /\ \A x \in Peers : x # p => calls'[x] = calls[x]
        /\ calls' \in [Peers -> [start : 0 .. MaxStarts, close : 0 .. MaxCloses,
                                  send : 0 .. MaxSends]]
    BY <1>3, <1>5 DEF TypeOK
  <1>7. ASSUME NoSends' PROVE NoSends /\ call # "send"
    <2>1. \A x \in Peers : calls'[x].send = 0
      BY <1>7 DEF NoSends
    <2>2. k.send = 0
      BY <1>6, <2>1
    <2>3. call # "send" /\ c = 0
      BY <1>4, <1>5, <2>2
    <2> QED
      BY <1>1, <1>6, <2>1, <2>3 DEF NoSends
  <1>8. ASSUME NoCloses' PROVE NoCloses /\ call # "close"
    <2>1. \A x \in Peers : calls'[x].close = 0
      BY <1>8 DEF NoCloses
    <2>2. k.close = 0
      BY <1>6, <2>1
    <2>3. call # "close" /\ b = 0
      BY <1>4, <1>5, <2>2
    <2> QED
      BY <1>1, <1>6, <2>1, <2>3 DEF NoCloses
  <1> QED
    BY <1>1, <1>5, <1>6, <1>7, <1>8, TwoPeers

(* Session::send.                                                          *)
LEMMA SendInv ==
    ASSUME SessionInv, NEW p \in Peers, NEW n \in Numbers, Send(p, n)
    PROVE  SessionInv'
  <1>1. PICK q \in Peers : q = Other(p) /\ q # p /\ p = Other(q)
    BY TwoPeers
  <1>2. /\ TypeOK /\ OnceSent(Sent(p)) /\ OnceSent(Sent(q))
        /\ OnceHeard(events[p]) /\ OnceHeard(events[q])
        /\ GreetingFirst(p) /\ GreetingFirst(q) /\ Traffic(p) /\ Traffic(q)
    BY <1>1 DEF SessionInv, Once
  <1>3. PICK f \in Frames : f = [t |-> "data", n |-> n]
    BY DEF Frames
  <1>4. /\ UNCHANGED <<state, channels, pending, next_channel, next_msgno, events, draining,
                       wire, ended>>
        /\ Queue(p, f) /\ Count(p, "send") /\ n \in channels[p] /\ calls[p].send < MaxSends
    BY <1>3 DEF Send, session
  <1>5. /\ Sent(p)' = Append(Sent(p), f) /\ Sent(q)' = Sent(q) /\ out' \in [Peers -> Seq(Frames)]
    BY <1>1, <1>2, <1>4, SentQueued
  <1>6. /\ calls' \in [Peers -> [start : 0 .. MaxStarts, close : 0 .. MaxCloses,
                                  send : 0 .. MaxSends]]
        /\ calls'[q] = calls[q] /\ calls'[p].start = calls[p].start + 0
        /\ ~NoSends' /\ (NoCloses' => NoCloses)
    BY <1>1, <1>2, <1>4, Counting
  <1>7. calls'[p].start = calls[p].start
    BY <1>2, <1>6 DEF TypeOK
  <1>8. TypeOK'
    BY <1>2, <1>4, <1>5, <1>6 DEF TypeOK
  <1>9. ~IsRequest(f) /\ ~IsReply(f) /\ IsTraffic(f) /\ f.t = "data" /\ f.n = n
    BY <1>3 DEF IsRequest, IsReply, IsTraffic
  <1>10. /\ Asks(p)' = Asks(p) /\ Says(p)' = Says(p) /\ OnceSent(Sent(p))'
         /\ \A m, k : InFront(Sent(p), m, k) => InFront(Sent(p), m, k)'
    BY <1>2, <1>5, <1>9, QueueTraffic
  <1>11. /\ Asks(q)' = Asks(q) /\ Says(q)' = Says(q) /\ OnceSent(Sent(q))'
         /\ \A m, k : InFront(Sent(q), m, k) => InFront(Sent(q), m, k)'
    BY <1>2, <1>5, Resting
  <1>12. \A x \in Peers : Heard(x)' = Heard(x)
    BY <1>4 DEF Heard
  <1>13. \A x \in Peers : x = p \/ x = q
    BY <1>1, TwoPeers
  <1>14. \A x \in Peers : /\ Settled(x)' /\ NumbersGiven(x)' /\ Starting(x)'
                          /\ ClosingOver(x)' /\ Agreeing(x)'
    BY <1>4, <1>6, <1>7, <1>10, <1>11, <1>12, <1>13, Quiet
  <1>15. Grows(q, {}) /\ Grows(p, {"data"})
    BY <1>5, <1>9 DEF Grows
  <1>16. GreetingFirst(p)' /\ GreetingFirst(q)'
    <2>1. \A x \in Peers : state[x] = "AwaitingGreeting" => events'[x] = << >>
      BY <1>4 DEF SessionInv, GreetingFirst
    <2> QED
      BY <1>1, <1>2, <1>4, <1>15, <2>1, GreetingKept
  <1>17. Traffic(p)'
    <2>1. NoCloses => state[p] # "Closed" /\ \A r \in pending[p] : r.what = "start"
      BY <1>2 DEF Traffic
    <2> QED
      BY <1>1, <1>2, <1>4, <1>6, <1>15, <2>1, TrafficKept
  <1>18. Traffic(q)'
    BY <1>1, <1>4, <1>5, <1>6, <1>9, TrafficMore
  <1>19. OnceHeard(events'[p]) /\ OnceHeard(events'[q])
    BY <1>2, <1>4
  <1> QED
    BY <1>1, <1>8, <1>10, <1>11, <1>14, <1>16, <1>17, <1>18, <1>19, BothPeers

(* What p reads.                                                           *)
LEMMA Receiving ==
    ASSUME SessionInv, NEW p \in Peers, NEW q \in Peers, q = Other(p), NEW ts, Receive(p, ts),
           NEW f, f = Frame(p), out'[q] = out[q]
    PROVE  /\ f \in Frames /\ f.t \in ts /\ Running(p) /\ draining' = draining
           /\ Sent(q) # << >> /\ f = Head(Sent(q)) /\ Sent(q)' = Tail(Sent(q))
           /\ Sent(p)' = wire[p] \o out'[p]
           /\ wire' \in [Peers -> Seq(Frames)] /\ OnceSent(Sent(q))'
           /\ \A m, n : InFront(Sent(q), m, n) => InFront(Sent(q), m, n)'
           /\ Frame(p).t # "greeting" => state[p] # "AwaitingGreeting"
           /\ IsRequest(f) => /\ Asks(q)' = Asks(q) \ {f} /\ Says(q)' = Says(q) /\ f \in Asks(q)
                              /\ \A g \in Asks(q) : g.msgno = f.msgno => g = f
           /\ IsReply(f) => /\ Asks(q)' = Asks(q) /\ Says(q)' = Says(q) \ {f} /\ f \in Says(q)
                            /\ \A g \in Says(q) : g.msgno = f.msgno => g = f
           /\ ~IsRequest(f) /\ ~IsReply(f) => Asks(q)' = Asks(q) /\ Says(q)' = Says(q)
           /\ \A m, n : /\ InFront(Sent(q), m, n) /\ Frame(p).t = "close" /\ Frame(p).n = n
                        => \A g \in Says(q) : ~(g.t = "profile" /\ g.msgno = m)
  <1>1. TypeOK /\ OnceSent(Sent(q)) /\ GreetingFirst(p)
    BY DEF SessionInv, Once
  <1>2. /\ Sent(q) # << >> /\ f = Head(Sent(q)) /\ Sent(q)' = Tail(Sent(q))
        /\ Sent(p)' = wire[p] \o out'[p]
        /\ wire' \in [Peers -> Seq(Frames)]
    BY <1>1, SentRead
  <1>3. f.t \in ts /\ Running(p) /\ draining' = draining
    BY DEF Receive, Frame
  <1>4. /\ Asks(q)' = Asks(q) \ {g \in {f} : IsRequest(g)}
        /\ Says(q)' = Says(q) \ {g \in {f} : IsReply(g)}
        /\ OnceSent(Sent(q))' /\ f \in Frames
        /\ IsRequest(f) => f \in Asks(q) /\ \A g \in Asks(q) : g.msgno = f.msgno => g = f
        /\ IsReply(f) => f \in Says(q) /\ \A g \in Says(q) : g.msgno = f.msgno => g = f
        /\ \A m, n : InFront(Sent(q), m, n) => InFront(Sent(q), m, n)'
        /\ \A m, n : /\ InFront(Sent(q), m, n) /\ Frame(p).t = "close" /\ Frame(p).n = n
                     => \A g \in Says(q) : ~(g.t = "profile" /\ g.msgno = m)
        /\ f = Sent(q)[1]
    <2>1. /\ Asks(q)' = Asks(q) \ {g \in {f} : IsRequest(g)}
          /\ Says(q)' = Says(q) \ {g \in {f} : IsReply(g)}
      BY <1>1, <1>2, Reading
    <2>2. /\ OnceSent(Sent(q))' /\ f \in Frames
          /\ IsRequest(f) => f \in Asks(q) /\ \A g \in Asks(q) : g.msgno = f.msgno => g = f
          /\ IsReply(f) => f \in Says(q) /\ \A g \in Says(q) : g.msgno = f.msgno => g = f
          /\ f = Sent(q)[1]
      BY <1>1, <1>2, Reading
    <2>3. ASSUME NEW m, NEW n, InFront(Sent(q), m, n) PROVE InFront(Sent(q), m, n)'
      BY <1>1, <1>2, <2>3, Reading
    <2>4. \A m, n : /\ InFront(Sent(q), m, n) /\ Head(Sent(q)).t = "close"
                    /\ Head(Sent(q)).n = n
                    => \A g \in Says(q) : ~(g.t = "profile" /\ g.msgno = m)
      BY <1>1, <1>2, Reading
    <2> QED
      BY <1>2, <2>1, <2>2, <2>3, <2>4
  <1>5. ~(IsRequest(f) /\ IsReply(f))
    BY DEF IsRequest, IsReply
  <1>6. /\ IsRequest(f) => Asks(q)' = Asks(q) \ {f} /\ Says(q)' = Says(q)
        /\ IsReply(f) => Asks(q)' = Asks(q) /\ Says(q)' = Says(q) \ {f}
        /\ ~IsRequest(f) /\ ~IsReply(f) => Asks(q)' = Asks(q) /\ Says(q)' = Says(q)
    <2>1. CASE IsRequest(f)
      BY <1>4, <1>5, <2>1
    <2>2. CASE IsReply(f)
      BY <1>4, <1>5, <2>2
    <2>3. CASE ~IsRequest(f) /\ ~IsReply(f)
      BY <1>4, <2>3
    <2> QED
      BY <1>5, <2>1, <2>2, <2>3
  <1>7. Frame(p).t # "greeting" => state[p] # "AwaitingGreeting"
    BY <1>1, <1>3, <1>4 DEF GreetingFirst
  <1> QED
    BY <1>2, <1>3, <1>4, <1>6, <1>7

(* A frame of an ordinary channel is read.                                 *)
LEMMA TrafficHandled ==
    ASSUME SessionInv, TypeOK', NEW p \in Peers, NEW q \in Peers, q = Other(p), p = Other(q),
           NEW ts, Receive(p, ts), ts \subseteq {"data", "seq"}, out'[q] = out[q],
           UNCHANGED <<state, channels, pending, next_channel, calls>>,
           \/ out' = out
           \/ \E g \in Frames : IsTraffic(g) /\ g.n \in channels[p] /\ out' = [out EXCEPT ![p] = Append(@, g)],
           \A x \in Peers : Heard(x)' = Heard(x) /\ OnceHeard(events'[x]),
           events'[q] = events[q], ended'[q] = ended[q],
           ended'[p] # ended[p] => ended'[p] = "NoSuchChannel" /\ Frame(p).n \notin channels[p]
    PROVE  SessionInv'
  <1>1. /\ TypeOK /\ OnceSent(Sent(p)) /\ OnceSent(Sent(q))
        /\ GreetingFirst(p) /\ GreetingFirst(q) /\ Traffic(p) /\ Traffic(q)
    BY DEF SessionInv, Once
  <1>2. PICK f : f = Frame(p)
    OBVIOUS
  <1>3. /\ f \in Frames /\ f.t \in ts /\ Running(p)
        /\ Sent(q) # << >> /\ f = Head(Sent(q)) /\ Sent(q)' = Tail(Sent(q))
        /\ Sent(p)' = wire[p] \o out'[p] /\ OnceSent(Sent(q))'
        /\ \A m, n : InFront(Sent(q), m, n) => InFront(Sent(q), m, n)'
        /\ f.t # "greeting" => state[p] # "AwaitingGreeting"
        /\ ~IsRequest(f) /\ ~IsReply(f) => Asks(q)' = Asks(q) /\ Says(q)' = Says(q)
    <2>1. /\ f \in Frames /\ f.t \in ts /\ Running(p)
          /\ Sent(q) # << >> /\ f = Head(Sent(q)) /\ Sent(q)' = Tail(Sent(q))
      BY <1>2, Receiving
    <2>4. /\ Sent(p)' = wire[p] \o out'[p] /\ OnceSent(Sent(q))'
      BY <1>2, Receiving
    <2>5. Frame(p).t # "greeting" => state[p] # "AwaitingGreeting"
      BY Receiving, ZenonT(60)
    <2>2. ~IsRequest(f) /\ ~IsReply(f) => Asks(q)' = Asks(q) /\ Says(q)' = Says(q)
      BY <1>2, Receiving
    <2>3. ASSUME NEW m, NEW n, InFront(Sent(q), m, n) PROVE InFront(Sent(q), m, n)'
      BY <1>2, <2>3, Receiving
    <2> QED
      BY <1>2, <2>1, <2>2, <2>3, <2>4, <2>5
  <1>4. /\ ~IsRequest(f) /\ ~IsReply(f) /\ IsTraffic(f) /\ f.t # "greeting" /\ f.t # "profile"
    BY <1>3 DEF IsRequest, IsReply, IsTraffic
  <1>5. Asks(q)' = Asks(q) /\ Says(q)' = Says(q) /\ state[p] # "AwaitingGreeting"
    BY <1>3, <1>4
  <1>6. \/ Sent(p)' = Sent(p)
        \/ \E g \in Frames : IsTraffic(g) /\ g.n \in channels[p] /\ Sent(p)' = Append(Sent(p), g)
    <2>1. CASE out' = out
      BY <1>3, <2>1 DEF Sent
    <2>2. ASSUME NEW g \in Frames, IsTraffic(g), g.n \in channels[p],
                 out' = [out EXCEPT ![p] = Append(@, g)]
          PROVE  Sent(p)' = Append(Sent(p), g)
      <3>1. wire[p] \in Seq(Frames) /\ out[p] \in Seq(Frames) /\ out'[p] = Append(out[p], g)
        BY <1>1, <2>2 DEF TypeOK
      <3>2. \A T : \A s, t \in Seq(T) : \A h \in T : s \o Append(t, h) = Append(s \o t, h)
        BY BehindBoth
      <3>3. \A s, t \in Seq(Frames) : s \o Append(t, g) = Append(s \o t, g)
        BY <3>2
      <3>4. wire[p] \o Append(out[p], g) = Append(wire[p] \o out[p], g)
        BY <3>1, <3>3
      <3> QED
        BY <1>3, <3>1, <3>4 DEF Sent
    <2> QED
      BY <2>1, <2>2
  <1>7. /\ Asks(p)' = Asks(p) /\ Says(p)' = Says(p) /\ OnceSent(Sent(p))'
        /\ \A m, n : InFront(Sent(p), m, n) => InFront(Sent(p), m, n)'
    BY <1>1, <1>6, QueueTraffic, Resting
  <1>8. \A x \in Peers : x = p \/ x = q
    BY TwoPeers
  <1>9. \A x \in Peers : /\ Settled(x)' /\ NumbersGiven(x)' /\ Starting(x)'
                         /\ ClosingOver(x)' /\ Agreeing(x)'
    BY <1>3, <1>5, <1>7, <1>8, Quiet
  <1>10. (NoSends' <=> NoSends) /\ (NoCloses' <=> NoCloses)
    BY DEF NoSends, NoCloses
  <1>11. ~NoSends /\ (NoCloses => f.n \in channels[p])
    <2>1. f = Sent(q)[1] /\ 1 \in 1 .. Len(Sent(q))
      BY <1>1, <1>3, Reading
    <2>2. ~NoSends /\ (NoCloses => Reaches(p, 1))
      BY <1>1, <1>4, <2>1 DEF Traffic
    <2>3. \A i \in 1 .. 1 - 1 : FALSE
      OBVIOUS
    <2> QED
      BY <2>1, <2>2, <2>3 DEF Reaches
  <1>12. GreetingFirst(p)'
    BY <1>1, <1>3, <1>5, GreetingRead
  <1>13. Grows(p, {"data", "seq"})
    BY <1>6 DEF Grows, IsTraffic
  <1>14. GreetingFirst(q)'
    <2>1. state[q] = "AwaitingGreeting" => events'[q] = << >>
      BY <1>1 DEF GreetingFirst
    <2> QED
      BY <1>1, <1>13, <2>1, GreetingKept
  <1>15. Traffic(p)'
    <2>1. NoCloses => state[p] # "Closed" /\ \A r \in pending[p] : r.what = "start"
      BY <1>1 DEF Traffic
    <2>2. NoCloses' => ended'[p] # "NoSuchChannel"
      BY <1>1, <1>2, <1>10, <1>11 DEF Traffic
    <2> QED
      BY <1>1, <1>3, <1>4, <1>10, <1>11, <2>1, <2>2, TrafficRead
  <1>16. Traffic(q)'
    <2>1. CASE Sent(p)' = Sent(p)
      <3>1. Grows(p, {})
        BY <2>1 DEF Grows
      <3>2. NoCloses => state[q] # "Closed" /\ \A r \in pending[q] : r.what = "start"
        BY <1>1 DEF Traffic
      <3> QED
        BY <1>1, <1>10, <3>1, <3>2, TrafficKept
    <2>2. ASSUME NEW g \in Frames, IsTraffic(g), g.n \in channels[p], Sent(p)' = Append(Sent(p), g)
          PROVE  Traffic(q)'
      BY <1>10, <1>11, <2>2, TrafficMore
    <2> QED
      BY <1>6, <2>1, <2>2
  <1> QED
    BY <1>3, <1>7, <1>9, <1>12, <1>14, <1>15, <1>16, BothPeers

(* handle_data.                                                            *)
LEMMA HandleDataInv ==
    ASSUME SessionInv, NEW p \in Peers, HandleData(p)
    PROVE  SessionInv'
  <1>1. PICK q \in Peers : q = Other(p) /\ q # p /\ p = Other(q)
    BY TwoPeers
  <1>2. TypeOK /\ OnceHeard(events[p]) /\ OnceHeard(events[q])
    BY <1>1 DEF SessionInv, Once
  <1>3. Receive(p, {"data"}) /\ \A x \in Peers : x = p \/ x = q
    BY <1>1, TwoPeers DEF HandleData
  <1>4. CASE Frame(p).n \notin channels[p]
    <2>1. Fail(p, "NoSuchChannel")
      BY <1>4 DEF HandleData
    <2>2. UNCHANGED <<state, channels, pending, next_channel, next_msgno, events, out, calls>>
      BY <2>1 DEF Fail, session
    <2>3. /\ ended' = [ended EXCEPT ![p] = "NoSuchChannel"]
          /\ ended'[q] = ended[q] /\ ended'[p] = "NoSuchChannel"
      BY <1>1, <1>2, <2>1 DEF Fail, TypeOK
    <2>4. wire' \in [Peers -> Seq(Frames)] /\ draining' = draining
      BY <1>1, <1>3, <2>2, Receiving
    <2>5. TypeOK'
      BY <1>2, <2>2, <2>3, <2>4 DEF TypeOK, ProtocolErrors
    <2>6. \A x \in Peers : Heard(x)' = Heard(x) /\ OnceHeard(events'[x])
      BY <1>2, <1>3, <2>2 DEF Heard
    <2> QED
      BY <1>1, <1>3, <1>4, <2>2, <2>3, <2>5, <2>6, TrafficHandled
  <1>5. CASE Frame(p).n \in channels[p]
    <2>1. PICK n \in Numbers : n = Frame(p).n /\ n \in channels[p]
      BY <1>2, <1>5 DEF TypeOK
    <2>2. PICK e \in Events : e = [e |-> "MessageReceived", n |-> n]
      BY DEF Events
    <2>3. PICK g \in Frames : g = [t |-> "seq", n |-> n]
      BY DEF Frames
    <2>4. /\ Raise(p, e) /\ (out' = out \/ Queue(p, g))
          /\ UNCHANGED <<state, channels, pending, next_channel, next_msgno, ended, calls>>
      BY <1>5, <2>1, <2>2, <2>3 DEF HandleData, session
    <2>5. ~IsRequested(e) /\ IsTraffic(g) /\ g.n \in channels[p]
      BY <2>1, <2>2, <2>3 DEF IsRequested, IsTraffic
    <2>6. /\ Heard(p)' = Heard(p) \cup {d \in {e} : IsRequested(d)} /\ Heard(q)' = Heard(q)
          /\ events' \in [Peers -> Seq(Events)] /\ events'[q] = events[q]
          /\ OnceHeard(events'[p])
      BY <1>1, <1>2, <2>4, <2>5, Raising
    <2>7. Heard(p)' = Heard(p)
      BY <2>5, <2>6
    <2>8. /\ out'[q] = out[q] /\ out' \in [Peers -> Seq(Frames)]
      <3>1. CASE out' = out
        BY <1>2, <3>1 DEF TypeOK
      <3>2. CASE Queue(p, g)
        <4>1. out[p] \in Seq(Frames) /\ out' = [out EXCEPT ![p] = Append(out[p], g)]
          BY <1>2, <3>2 DEF TypeOK, Queue
        <4>2. Append(out[p], g) \in Seq(Frames)
          BY <4>1, AtEnd
        <4> QED
          BY <1>1, <1>2, <4>1, <4>2 DEF TypeOK
      <3> QED
        BY <2>4, <3>1, <3>2
    <2>9. wire' \in [Peers -> Seq(Frames)] /\ draining' = draining
      BY <1>1, <1>3, <2>8, Receiving
    <2>10. TypeOK'
      BY <1>2, <2>4, <2>6, <2>8, <2>9 DEF TypeOK
    <2>11. \A x \in Peers : Heard(x)' = Heard(x) /\ OnceHeard(events'[x])
      BY <1>2, <1>3, <2>6, <2>7
    <2>12. \/ out' = out
           \/ \E h \in Frames : IsTraffic(h) /\ h.n \in channels[p] /\ out' = [out EXCEPT ![p] = Append(@, h)]
      BY <2>4, <2>5 DEF Queue
    <2> QED
      BY <1>1, <1>3, <2>4, <2>6, <2>8, <2>10, <2>11, <2>12, TrafficHandled
  <1> QED
    BY <1>4, <1>5

(* handle_seq.                                                             *)
LEMMA HandleSeqInv ==
    ASSUME SessionInv, NEW p \in Peers, HandleSeq(p)
    PROVE  SessionInv'
  <1>1. PICK q \in Peers : q = Other(p) /\ q # p /\ p = Other(q)
    BY TwoPeers
  <1>2. TypeOK /\ OnceHeard(events[p]) /\ OnceHeard(events[q])
    BY <1>1 DEF SessionInv, Once
  <1>3. Receive(p, {"seq"}) /\ \A x \in Peers : x = p \/ x = q
    BY <1>1, TwoPeers DEF HandleSeq
  <1>4. /\ UNCHANGED <<state, channels, pending, next_channel, next_msgno, events, out, calls>>
        /\ \/ ended' = ended
           \/ ended' = [ended EXCEPT ![p] = "NoSuchChannel"] /\ Frame(p).n \notin channels[p]
    BY DEF HandleSeq, Fail, session
  <1>5. /\ ended'[q] = ended[q]
        /\ ended'[p] # ended[p] => ended'[p] = "NoSuchChannel" /\ Frame(p).n \notin channels[p]
    BY <1>1, <1>2, <1>4 DEF TypeOK
  <1>6. wire' \in [Peers -> Seq(Frames)] /\ draining' = draining
    BY <1>1, <1>3, <1>4, Receiving
  <1>7. TypeOK'
    BY <1>2, <1>4, <1>6 DEF TypeOK, ProtocolErrors
  <1>8. \A x \in Peers : Heard(x)' = Heard(x) /\ OnceHeard(events'[x])
    BY <1>2, <1>3, <1>4 DEF Heard
  <1> QED
    BY <1>1, <1>3, <1>4, <1>5, <1>7, <1>8, TrafficHandled

(* handle_greeting.                                                        *)
LEMMA HandleGreetingInv ==
    ASSUME SessionInv, NEW p \in Peers, HandleGreeting(p)
    PROVE  SessionInv'
  <1>1. PICK q \in Peers : q = Other(p) /\ q # p /\ p = Other(q)
    BY TwoPeers
  <1>2. /\ TypeOK /\ OnceSent(Sent(p)) /\ OnceSent(Sent(q))
        /\ OnceHeard(events[p]) /\ OnceHeard(events[q])
        /\ GreetingFirst(p) /\ GreetingFirst(q) /\ Traffic(p) /\ Traffic(q)
    BY <1>1 DEF SessionInv, Once
  <1>3. Receive(p, {"greeting"}) /\ \A x \in Peers : x = p \/ x = q
    BY <1>1, TwoPeers DEF HandleGreeting
  <1>4. /\ UNCHANGED <<channels, pending, next_channel, next_msgno, out, calls>>
        /\ \/ /\ state[p] = "AwaitingGreeting" /\ ~Frame(p).more /\ ended' = ended
              /\ state' = [state EXCEPT ![p] = "Ready"]
              /\ Raise(p, [e |-> "GreetingReceived", n |-> 0])
           \/ /\ ~(state[p] = "AwaitingGreeting" /\ ~Frame(p).more)
              /\ ended' = [ended EXCEPT ![p] = "NotAGreeting"]
              /\ UNCHANGED <<state, events>>
    BY DEF HandleGreeting, Fail, session
  <1>5. PICK f : f = Frame(p)
    OBVIOUS
  <1>6. /\ f \in Frames /\ f.t = "greeting" /\ Running(p) /\ draining' = draining
        /\ Sent(q) # << >> /\ f = Head(Sent(q)) /\ Sent(q)' = Tail(Sent(q))
        /\ wire' \in [Peers -> Seq(Frames)] /\ OnceSent(Sent(q))'
    <2>1. f.t = "greeting"
      BY <1>3, <1>5 DEF Receive, Frame
    <2>2. /\ f \in Frames /\ Running(p) /\ draining' = draining
          /\ Sent(q) # << >> /\ f = Head(Sent(q)) /\ Sent(q)' = Tail(Sent(q))
          /\ wire' \in [Peers -> Seq(Frames)] /\ OnceSent(Sent(q))'
      BY <1>1, <1>3, <1>4, <1>5, Receiving
    <2> QED
      BY <2>1, <2>2
  <1>7. Sent(p)' = wire[p] \o out'[p]
    BY <1>1, <1>3, <1>4, Receiving
  <1>8. Sent(p)' = Sent(p)
    BY <1>4, <1>7 DEF Sent
  <1>9. ~IsRequest(f) /\ ~IsReply(f) /\ f.t # "profile"
    BY <1>6 DEF IsRequest, IsReply
  <1>10. Asks(q)' = Asks(q) /\ Says(q)' = Says(q)
    <2>1. ~IsRequest(f) /\ ~IsReply(f) => Asks(q)' = Asks(q) /\ Says(q)' = Says(q)
      BY <1>1, <1>3, <1>4, <1>5, Receiving
    <2> QED
      BY <1>9, <2>1
  <1>11. \A m, n : InFront(Sent(q), m, n) => InFront(Sent(q), m, n)'
    BY <1>1, <1>3, <1>4, <1>5, Receiving
  <1>12. /\ Asks(p)' = Asks(p) /\ Says(p)' = Says(p) /\ OnceSent(Sent(p))'
         /\ \A m, n : InFront(Sent(p), m, n) => InFront(Sent(p), m, n)'
    BY <1>2, <1>8, Resting
  <1>13. /\ f = Sent(q)[1] /\ 1 \in 1 .. Len(Sent(q))
         /\ \A i \in 1 .. Len(Sent(q)') : i + 1 \in 1 .. Len(Sent(q)) /\ Sent(q)'[i] = Sent(q)[i + 1]
    BY <1>2, <1>6, Reading
  <1>14. state[p] = "AwaitingGreeting" /\ f.more = (q \in BigGreeting)
    BY <1>1, <1>2, <1>6, <1>13 DEF GreetingFirst
  <1>15. (NoSends' <=> NoSends) /\ (NoCloses' <=> NoCloses)
    BY <1>4 DEF NoSends, NoCloses
  <1>16. Grows(p, {})
    BY <1>8 DEF Grows
  <1>17. /\ NoCloses => state[q] # "Closed" /\ \A r \in pending[q] : r.what = "start"
         /\ NoCloses => \A r \in pending[p] : r.what = "start"
         /\ NoSends \/ NoCloses => ended[p] # "NoSuchChannel"
    BY <1>2 DEF Traffic
  <1>18. state[q] = "AwaitingGreeting" => events[q] = << >>
    BY <1>2 DEF GreetingFirst
  <1>19. CASE ~f.more
    <2>1. PICK e \in Events : e = [e |-> "GreetingReceived", n |-> 0]
      <3>1. 0 \in Numbers
        BY SessionAssumption DEF Numbers
      <3> QED
        BY <3>1 DEF Events
    <2>2. ended' = ended /\ state' = [state EXCEPT ![p] = "Ready"] /\ Raise(p, e)
      BY <1>4, <1>5, <1>14, <1>19, <2>1
    <2>3. ~IsRequested(e)
      BY <2>1 DEF IsRequested
    <2>4. /\ Heard(p)' = Heard(p) \cup {d \in {e} : IsRequested(d)} /\ Heard(q)' = Heard(q)
          /\ events' \in [Peers -> Seq(Events)] /\ events'[q] = events[q]
          /\ OnceHeard(events'[p])
      BY <1>1, <1>2, <2>2, <2>3, Raising
    <2>5. Heard(p)' = Heard(p)
      BY <2>3, <2>4
    <2>6. state'[p] = "Ready" /\ state'[q] = state[q]
      BY <1>1, <1>2, <2>2 DEF TypeOK
    <2>7. TypeOK'
      BY <1>2, <1>4, <1>6, <2>2, <2>4 DEF TypeOK
    <2>8. \A x \in Peers : /\ Settled(x)' /\ NumbersGiven(x)' /\ Starting(x)'
                           /\ ClosingOver(x)' /\ Agreeing(x)'
      BY <1>3, <1>4, <1>10, <1>11, <1>12, <1>14, <2>4, <2>5, <2>6, Quiet
    <2>9. GreetingFirst(p)'
      <3>1. q \notin BigGreeting
        BY <1>14, <1>19
      <3>2. \A i \in 2 .. Len(Sent(q)) : Sent(q)[i].t # "greeting"
        BY <1>1, <1>2, <1>6, <1>14, <3>1 DEF GreetingFirst
      <3>3. \A i \in 1 .. Len(Sent(q)') : i + 1 \in 2 .. Len(Sent(q))
        BY <1>13
      <3>4. \A i \in 1 .. Len(Sent(q)') : Sent(q)'[i].t # "greeting"
        BY <1>13, <3>2, <3>3
      <3>5. ended'[p] # "NotAGreeting" /\ ended'[p] # "UnknownMsgNo"
        BY <1>6, <2>2 DEF Running
      <3> QED
        BY <1>1, <2>6, <3>4, <3>5 DEF GreetingFirst
    <2>10. GreetingFirst(q)'
      BY <1>1, <1>2, <1>16, <1>18, <2>2, <2>4, <2>6, GreetingKept
    <2>11. Traffic(p)'
      BY <1>1, <1>2, <1>4, <1>6, <1>9, <1>15, <1>17, <2>2, <2>6, TrafficRead
    <2>12. Traffic(q)'
      BY <1>1, <1>2, <1>4, <1>15, <1>16, <1>17, <2>2, <2>6, TrafficKept
    <2>13. OnceHeard(events'[q])
      BY <1>2, <2>4
    <2> QED
      BY <1>1, <1>6, <1>12, <2>4, <2>7, <2>8, <2>9, <2>10, <2>11, <2>12, <2>13, BothPeers
  <1>20. CASE f.more
    <2>1. ended' = [ended EXCEPT ![p] = "NotAGreeting"] /\ UNCHANGED <<state, events>>
      BY <1>4, <1>5, <1>20
    <2>2. ended'[p] = "NotAGreeting" /\ ended'[q] = ended[q]
      BY <1>1, <1>2, <2>1 DEF TypeOK
    <2>3. TypeOK'
      BY <1>2, <1>4, <1>6, <2>1 DEF TypeOK, ProtocolErrors
    <2>4. \A x \in Peers : Heard(x)' = Heard(x)
      BY <2>1 DEF Heard
    <2>5. \A x \in Peers : /\ Settled(x)' /\ NumbersGiven(x)' /\ Starting(x)'
                           /\ ClosingOver(x)' /\ Agreeing(x)'
      BY <1>3, <1>4, <1>10, <1>11, <1>12, <2>1, <2>4, Quiet
    <2>6. GreetingFirst(p)'
      <3>1. q \in BigGreeting /\ events'[p] = << >> /\ state'[p] = "AwaitingGreeting"
        BY <1>2, <1>14, <1>20, <2>1 DEF GreetingFirst
      <3> QED
        BY <1>1, <2>2, <3>1 DEF GreetingFirst, Running
    <2>7. GreetingFirst(q)'
      BY <1>1, <1>2, <1>16, <1>18, <2>1, <2>2, GreetingKept
    <2>8. Traffic(p)'
      BY <1>1, <1>2, <1>4, <1>6, <1>9, <1>14, <1>15, <1>17, <2>1, <2>2, TrafficRead
    <2>9. Traffic(q)'
      BY <1>1, <1>2, <1>4, <1>15, <1>16, <1>17, <2>1, <2>2, TrafficKept
    <2> QED
      BY <1>1, <1>2, <1>6, <1>12, <2>1, <2>3, <2>5, <2>6, <2>7, <2>8, <2>9, BothPeers
  <1> QED
    BY <1>19, <1>20

(* Session::request.                                                       *)
LEMMA Requesting ==
    ASSUME SessionInv, NEW p \in Peers, NEW q \in Peers, q = Other(p), p = Other(q), q # p,
           NEW what \in {"start", "close"}, NEW n \in Numbers, Request(p, what, n),
           UNCHANGED <<state, channels, events, draining, wire, ended>>,
           calls' \in [Peers -> [start : 0 .. MaxStarts, close : 0 .. MaxCloses,
                                  send : 0 .. MaxSends]],
           next_channel' \in [Peers -> Numbers], next_channel'[q] = next_channel[q],
           calls'[q] = calls[q],
           calls'[p].start = calls[p].start + (IF what = "start" THEN 1 ELSE 0),
           next_channel'[p] = next_channel[p] + (IF what = "start" THEN 2 ELSE 0),
           what = "start" => n = next_channel[p],
           what = "close" => n = 0 \/ n \in channels[p],
           NoSends' => NoSends, NoCloses' => NoCloses /\ what = "start"
    PROVE  SessionInv'
  <1>1. /\ TypeOK /\ OnceSent(Sent(p)) /\ OnceSent(Sent(q))
        /\ OnceHeard(events[p]) /\ OnceHeard(events[q])
        /\ Settled(p) /\ NumbersGiven(p) /\ Starting(p) /\ ClosingOver(p) /\ Agreeing(p)
        /\ GreetingFirst(p) /\ Traffic(p)
        /\ Settled(q) /\ NumbersGiven(q) /\ Starting(q) /\ ClosingOver(q) /\ Agreeing(q)
        /\ GreetingFirst(q) /\ Traffic(q)
    BY DEF SessionInv, Once
  <1>2. MsgNos \ Outstanding(p) # {}
    BY DEF Request
  <1>3. PICK m \in MsgNos : m = AllocateMsgNo(p) /\ m \notin Nos(pending[p])
    BY <1>1, <1>2, Allocates
  <1>4. PICK r \in Requests : r = [msgno |-> m, what |-> what, n |-> n]
    BY DEF Requests
  <1>5. PICK f \in Frames : f = [t |-> what, msgno |-> m, n |-> n]
    BY DEF Frames
  <1>6. /\ r.msgno = m /\ r.what = what /\ r.n = n
        /\ f.msgno = m /\ f.t = what /\ f.n = n /\ IsRequest(f)
    BY <1>4, <1>5 DEF IsRequest
  <1>7. \A s \in pending[p] : s.msgno # m
    BY <1>3 DEF Nos
  <1>8. /\ pending'[p] = pending[p] \cup {r} /\ pending'[q] = pending[q]
        /\ pending' \in [Peers -> SUBSET Requests]
    <2>1. pending' = [pending EXCEPT ![p] = {s \in @ : s.msgno # m} \cup {r}]
      BY <1>3, <1>4 DEF Request
    <2>2. {s \in pending[p] : s.msgno # m} = pending[p]
      BY <1>7
    <2> QED
      BY <1>1, <2>1, <2>2 DEF TypeOK
  <1>9. Queue(p, f) /\ next_msgno' = [next_msgno EXCEPT ![p] = After(m)]
    BY <1>3, <1>5 DEF Request
  <1>10. /\ Sent(p)' = Append(Sent(p), f) /\ Sent(q)' = Sent(q) /\ out' \in [Peers -> Seq(Frames)]
    BY <1>1, <1>9, SentQueued
  <1>11. After(m) \in MsgNos
    BY SessionAssumption DEF After, MsgNos
  <1>12. TypeOK'
    BY <1>1, <1>8, <1>9, <1>10, <1>11 DEF TypeOK
  <1>13. m \notin Nos(Asks(p)) /\ m \notin Nos(Heard(q)) /\ m \notin Nos(Says(q))
    BY <1>1, <1>3 DEF Settled, Exact
  <1>14. /\ Asks(p)' = Asks(p) \cup {f} /\ Says(p)' = Says(p) /\ OnceSent(Sent(p))'
         /\ \A l, k : InFront(Sent(p), l, k) => InFront(Sent(p), l, k)'
    BY <1>1, <1>6, <1>10, <1>13, QueueRequest
  <1>15. /\ Asks(q)' = Asks(q) /\ Says(q)' = Says(q) /\ OnceSent(Sent(q))'
         /\ \A l, k : InFront(Sent(q), l, k) => InFront(Sent(q), l, k)'
    BY <1>1, <1>10, Resting
  <1>16. Heard(p)' = Heard(p) /\ Heard(q)' = Heard(q)
    BY DEF Heard
  <1>17. Settled(p)'
    <2>1. Exact(pending[p] \cup {r}, Asks(p) \cup {f}, Heard(q), Says(q))
      BY <1>1, <1>3, <1>6, ExactAsks DEF Settled
    <2> QED
      BY <1>8, <1>14, <1>15, <1>16, <2>1 DEF Settled
  <1>18. Settled(q)'
    BY <1>1, <1>8, <1>14, <1>15, <1>16, SettledKept
  <1>19. /\ next_channel[p] \in Nat \ {0} /\ Owns(p, next_channel[p]) /\ ~Given(next_channel[p])
    BY <1>1, NextNumber
  <1>20. /\ \A x \in Peers : \A k \in Numbers : Gave(x, k) => Gave(x, k)'
         /\ \A k \in Numbers : Given(k) => Given(k)'
    <2>1. next_channel[p] <= next_channel'[p] /\ next_channel[q] <= next_channel'[q]
      <3>1. next_channel[p] \in Nat /\ next_channel[q] \in Nat
        BY <1>1 DEF TypeOK, Numbers
      <3>2. next_channel[p] <= next_channel'[p]
        BY <3>1
      <3>3. next_channel[q] <= next_channel'[q]
        BY <3>1
      <3> QED
        BY <3>2, <3>3
    <2>2. \A x \in Peers : next_channel[x] <= next_channel'[x]
      BY <2>1, TwoPeers
    <2> QED
      BY <1>1, <1>12, <2>2, StayGiven
  <1>21. /\ \A k \in channels[p] : k \in Numbers /\ Given(k)
         /\ \A k \in channels[q] : k \in Numbers /\ Given(k)
         /\ \A s \in pending[p] \cup pending[q] : s.n \in Numbers /\ s.what \in {"start", "close"}
         /\ \A s \in pending[p] : IF s.what = "start" THEN Gave(p, s.n) ELSE s.n = 0 \/ Given(s.n)
         /\ \A s \in pending[q] : IF s.what = "start" THEN Gave(q, s.n) ELSE s.n = 0 \/ Given(s.n)
    <2>1. /\ channels[p] \subseteq Numbers /\ channels[q] \subseteq Numbers
          /\ pending[p] \subseteq Requests /\ pending[q] \subseteq Requests
      BY <1>1 DEF TypeOK
    <2>2. \A s \in Requests : s.n \in Numbers /\ s.what \in {"start", "close"}
      BY DEF Requests
    <2> QED
      BY <1>1, <2>1, <2>2 DEF NumbersGiven
  <1>22. \A s \in pending[p] \cup pending[q] : s.n = 0 \/ Given(s.n)
    BY <1>21 DEF Given
  <1>23. what = "start" => /\ n \notin channels[p] /\ n \notin channels[q] /\ n # 0
                           /\ \A s \in pending[p] \cup pending[q] : s.n # n
    BY <1>19, <1>21, <1>22
  <1>24. \A s \in pending[p] \cup pending[q] : s.what = "start" => s.n # 0
    BY <1>21, GivenByOne
  <1>25. \A s \in pending[p] : s.what = "start" => s.n # n
    <2>1. \A s \in pending[p] : s.what = "start" => s.n \notin channels[p]
      BY <1>1 DEF Starting, Unopened
    <2>2. CASE what = "start"
      BY <1>23, <2>2
    <2>3. CASE what = "close"
      BY <1>24, <2>1, <2>3
    <2> QED
      BY <2>2, <2>3
  <1>26. NumbersGiven(p)'
    <2>1. next_channel'[p] = FirstChannel(p) + 2 * calls'[p].start
      <3>1. PICK a \in Nat : a = calls[p].start /\ next_channel[p] = FirstChannel(p) + 2 * a
        BY <1>1 DEF NumbersGiven, TypeOK
      <3> QED
        BY <3>1 DEF FirstChannel
    <2>2. \A k \in channels'[p] : Given(k)'
      BY <1>20, <1>21
    <2>3. IF what = "start" THEN Gave(p, n)' ELSE n = 0 \/ Given(n)'
      <3>1. CASE what = "start"
        BY <1>19, <3>1 DEF Gave, Owns
      <3>2. CASE what = "close"
        BY <1>20, <1>21, <3>2
      <3> QED
        BY <3>1, <3>2
    <2>4. \A s \in pending[p] : IF s.what = "start" THEN Gave(p, s.n)' ELSE s.n = 0 \/ Given(s.n)'
      BY <1>20, <1>21
    <2>5. \A s \in pending'[p] : IF s.what = "start" THEN Gave(p, s.n)' ELSE s.n = 0 \/ Given(s.n)'
      BY <1>6, <1>8, <2>3, <2>4
    <2>6. \A s, u \in pending'[p] : s.what = "start" /\ u.n = s.n => s = u
      <3>1. \A s, u \in pending[p] : s.what = "start" /\ u.n = s.n => s = u
        BY <1>1 DEF NumbersGiven
      <3>2. \A u \in pending[p] : what = "start" => u.n # n
        BY <1>23
      <3> QED
        BY <1>6, <1>8, <1>25, <3>1, <3>2
    <2> QED
      BY <2>1, <2>2, <2>5, <2>6 DEF NumbersGiven, FirstChannel
  <1>27. NumbersGiven(q)'
    <2>1. next_channel'[q] = FirstChannel(q) + 2 * calls'[q].start
      BY <1>1 DEF NumbersGiven
    <2>2. \A k \in channels'[q] : Given(k)'
      BY <1>20, <1>21
    <2>3. \A s \in pending'[q] : IF s.what = "start" THEN Gave(q, s.n)' ELSE s.n = 0 \/ Given(s.n)'
      BY <1>8, <1>20, <1>21
    <2>4. \A s, u \in pending'[q] : s.what = "start" /\ u.n = s.n => s = u
      BY <1>1, <1>8 DEF NumbersGiven
    <2> QED
      BY <2>1, <2>2, <2>3, <2>4 DEF NumbersGiven, FirstChannel
  <1>28. Starting(p)'
    <2>1. SUFFICES ASSUME NEW s \in pending'[p], s.what = "start"
                   PROVE  Unopened(p, s.msgno, s.n)'
      BY DEF Starting
    <2>2. PICK l, k : l = s.msgno /\ k = s.n
      OBVIOUS
    <2>3. Agreed(p, l)' <=> Agreed(p, l)
      BY <1>15, AgreedKept
    <2>4. CASE s \in pending[p]
      <3>1. Unopened(p, l, k) /\ k \notin channels'[p]
        BY <1>1, <2>1, <2>2, <2>4 DEF Starting, Unopened
      <3>2. Nos(Asks(q))' = Nos(Asks(q))
        BY <1>15 DEF Nos
      <3>3. InFront(Sent(q), l, k) => InFront(Sent(q), l, k)'
        BY <1>15
      <3>4. Unopened(p, l, k)'
        BY <1>8, <2>3, <3>1, <3>2, <3>3, UnopenedKept
      <3> QED
        BY <2>2, <3>4
    <2>5. CASE s = r
      <3>1. what = "start" /\ l = m /\ k = n
        BY <1>6, <2>1, <2>2, <2>5
      <3>2. ~Agreed(p, l)
        BY <1>13, <3>1 DEF Agreed, Nos
      <3>3. k \notin channels'[p] /\ k \notin channels'[q] /\ \A u \in pending'[q] : u.n # k
        BY <1>8, <1>23, <3>1
      <3>4. Unopened(p, l, k)'
        BY <2>3, <3>2, <3>3 DEF Unopened
      <3> QED
        BY <2>2, <3>4
    <2> QED
      BY <1>8, <2>4, <2>5
  <1>29. Starting(q)'
    <2>1. SUFFICES ASSUME NEW s \in pending'[q], s.what = "start"
                   PROVE  Unopened(q, s.msgno, s.n)'
      BY DEF Starting
    <2>2. PICK l, k : l = s.msgno /\ k = s.n
      OBVIOUS
    <2>3. Agreed(q, l)' <=> Agreed(q, l)
      BY <1>14, AgreedKept
    <2>4. s \in pending[q] /\ Unopened(q, l, k)
      BY <1>1, <1>8, <2>1, <2>2 DEF Starting
    <2>5. CASE Agreed(q, l)
      <3>1. /\ k \notin channels[q]
            /\ k \in channels[p] \/ state[p] = "Closed"
            /\ \A u \in pending[p] : u.n = k => u.msgno \in Nos(Asks(p))
            /\ InFront(Sent(p), l, k)
        BY <2>4, <2>5 DEF Unopened
      <3>2. m \in Nos(Asks(p))' /\ \A j \in Nos(Asks(p)) : j \in Nos(Asks(p))'
        BY <1>6, <1>14 DEF Nos
      <3>3. \A u \in pending'[p] : u.n = k => u.msgno \in Nos(Asks(p))'
        BY <1>6, <1>8, <3>1, <3>2
      <3>4. InFront(Sent(p), l, k)'
        BY <1>14, <3>1
      <3>5. Unopened(q, l, k)'
        BY <2>3, <2>5, <3>1, <3>3, <3>4 DEF Unopened
      <3> QED
        BY <2>2, <3>5
    <2>6. CASE ~Agreed(q, l)
      <3>1. /\ k \notin channels[q]
            /\ k \notin channels[p]
            /\ \A u \in pending[p] : u.n # k
        BY <2>4, <2>6 DEF Unopened
      <3>2. k # n
        <4>1. CASE what = "start"
          BY <1>23, <2>2, <2>4, <4>1
        <4>2. CASE what = "close"
          BY <1>24, <2>1, <2>2, <2>4, <3>1, <4>2
        <4> QED
          BY <4>1, <4>2
      <3>3. \A u \in pending'[p] : u.n # k
        BY <1>6, <1>8, <3>1, <3>2
      <3>4. Unopened(q, l, k)'
        BY <2>3, <2>6, <3>1, <3>3 DEF Unopened
      <3> QED
        BY <2>2, <3>4
    <2> QED
      BY <2>5, <2>6
  <1>30. ClosingOver(p)'
    <2>1. \A g \in Says(q) : g.msgno # m
      BY <1>13 DEF Nos
    <2> QED
      BY <1>1, <1>6, <1>8, <1>15, <2>1 DEF ClosingOver
  <1>31. ClosingOver(q)'
    BY <1>1, <1>8, <1>14, ClosingKept
  <1>32. Agreeing(p)' /\ Agreeing(q)'
    BY <1>1, <1>8, AgreeingKept
  <1>33. Grows(p, {"start", "close"}) /\ Grows(q, {})
    BY <1>6, <1>10 DEF Grows
  <1>34. GreetingFirst(p)' /\ GreetingFirst(q)'
    <2>1. \A x \in Peers : state[x] = "AwaitingGreeting" => events'[x] = << >>
      BY DEF SessionInv, GreetingFirst
    <2> QED
      BY <1>1, <1>33, <2>1, GreetingKept
  <1>35. /\ NoCloses => state[p] # "Closed" /\ \A s \in pending[p] : s.what = "start"
         /\ NoCloses => state[q] # "Closed" /\ \A s \in pending[q] : s.what = "start"
    BY <1>1 DEF Traffic
  <1>36. Traffic(p)'
    <2>1. NoCloses' => \A s \in pending'[p] : s.what = "start"
      BY <1>6, <1>8, <1>35
    <2> QED
      BY <1>1, <1>8, <1>33, <1>35, <2>1, TrafficKept
  <1>37. Traffic(q)'
    BY <1>1, <1>8, <1>33, <1>35, TrafficKept
  <1>38. OnceHeard(events'[p]) /\ OnceHeard(events'[q])
    BY <1>1
  <1> QED
    BY <1>12, <1>14, <1>15, <1>17, <1>18, <1>26, <1>27, <1>28, <1>29, <1>30, <1>31, <1>32,
       <1>34, <1>36, <1>37, <1>38, BothPeers

(* start_channel and close_channel.                                        *)
LEMMA CommandInv ==
    ASSUME SessionInv, NEW p \in Peers,
           StartChannel(p) \/ \E n \in Numbers : CloseChannel(p, n)
    PROVE  SessionInv'
  <1>1. PICK q \in Peers : q = Other(p) /\ q # p /\ p = Other(q)
    BY TwoPeers
  <1>2. TypeOK /\ NumbersGiven(p)
    BY DEF SessionInv
  <1>3. CASE StartChannel(p)
    <2>1. PICK n \in Numbers : n = next_channel[p]
      BY <1>2 DEF TypeOK
    <2>2. /\ Request(p, "start", n) /\ Count(p, "start") /\ calls[p].start < MaxStarts
          /\ next_channel' = [next_channel EXCEPT ![p] = @ + 2]
          /\ UNCHANGED <<state, channels, events, draining, wire, ended>>
      BY <1>3, <2>1 DEF StartChannel
    <2>3. /\ calls' \in [Peers -> [start : 0 .. MaxStarts, close : 0 .. MaxCloses,
                                    send : 0 .. MaxSends]]
          /\ calls'[q] = calls[q] /\ calls'[p].start = calls[p].start + 1
          /\ NoSends' => NoSends
          /\ NoCloses' => NoCloses
      BY <1>1, <1>2, <2>2, Counting
    <2>4. next_channel[p] + 2 \in Numbers
      BY <1>2, <2>2, NextNumber
    <2>5. /\ next_channel' \in [Peers -> Numbers] /\ next_channel'[q] = next_channel[q]
          /\ next_channel'[p] = next_channel[p] + 2
      BY <1>1, <1>2, <2>2, <2>4 DEF TypeOK
    <2> QED
      BY <1>1, <2>1, <2>2, <2>3, <2>5, Requesting
  <1>4. ASSUME NEW n \in Numbers, CloseChannel(p, n) PROVE SessionInv'
    <2>1. /\ Request(p, "close", n) /\ Count(p, "close") /\ calls[p].close < MaxCloses
          /\ n = 0 \/ n \in channels[p]
          /\ UNCHANGED <<state, channels, next_channel, events, draining, wire, ended>>
      BY <1>4 DEF CloseChannel
    <2>2. /\ calls' \in [Peers -> [start : 0 .. MaxStarts, close : 0 .. MaxCloses,
                                    send : 0 .. MaxSends]]
          /\ calls'[q] = calls[q] /\ calls'[p].start = calls[p].start + 0
          /\ NoSends' => NoSends
          /\ ~NoCloses'
      BY <1>1, <1>2, <2>1, Counting
    <2>3. /\ next_channel' \in [Peers -> Numbers] /\ next_channel'[q] = next_channel[q]
          /\ next_channel'[p] = next_channel[p] + 0
      BY <1>2, <2>1, SMTT(30) DEF TypeOK, Numbers
    <2> QED
      BY <1>1, <2>1, <2>2, <2>3, Requesting
  <1> QED
    BY <1>3, <1>4

(* start_channel without a message number: only the number of the channel  *)
(* is taken.                                                               *)
LEMMA StartExhaustedInv ==
    ASSUME SessionInv, NEW p \in Peers, StartExhausted(p)
    PROVE  SessionInv'
  <1>1. PICK q \in Peers : q = Other(p) /\ q # p /\ p = Other(q)
    BY TwoPeers
  <1>2. /\ Count(p, "start") /\ calls[p].start < MaxStarts
        /\ next_channel' = [next_channel EXCEPT ![p] = @ + 2]
        /\ UNCHANGED <<state, channels, pending, next_msgno>>
        /\ UNCHANGED <<events, draining, out, wire, ended>>
    BY DEF StartExhausted
  <1>3. TypeOK /\ Once /\ \A x \in Peers : NumbersGiven(x) /\ GreetingFirst(x)
    BY DEF SessionInv
  <1>4. /\ calls' \in [Peers -> [start : 0 .. MaxStarts, close : 0 .. MaxCloses,
                                  send : 0 .. MaxSends]]
        /\ calls'[q] = calls[q] /\ calls'[p].start = calls[p].start + 1
        /\ NoSends' => NoSends
        /\ NoCloses' => NoCloses
    BY <1>1, <1>2, <1>3, Counting
  <1>5. next_channel[p] + 2 \in Numbers
    BY <1>2, <1>3, NextNumber
  <1>6. /\ next_channel' \in [Peers -> Numbers] /\ next_channel'[q] = next_channel[q]
        /\ next_channel'[p] = next_channel[p] + 2
    BY <1>1, <1>2, <1>3, <1>5 DEF TypeOK
  <1>7. TypeOK'
    BY <1>2, <1>3, <1>4, <1>6 DEF TypeOK
  <1>8. /\ \A x \in Peers : \A n \in Numbers : Gave(x, n) => Gave(x, n)'
        /\ \A n \in Numbers : Given(n) => Given(n)'
    <2>1. next_channel[p] \in Nat /\ next_channel[q] \in Nat
      BY <1>1, <1>3 DEF TypeOK, Numbers
    <2>2. next_channel[p] <= next_channel'[p] /\ next_channel[q] <= next_channel'[q]
      BY <1>6, <2>1
    <2>3. \A x \in Peers : next_channel[x] <= next_channel'[x]
      BY <1>1, <2>2, TwoPeers
    <2> QED
      BY <1>3, <1>7, <2>3, StayGiven
  <1>9. ASSUME NEW x \in Peers PROVE NumbersGiven(x)'
    <2>1. next_channel'[x] = FirstChannel(x) + 2 * calls'[x].start
      <3>1. PICK a \in Nat : a = calls[x].start /\ next_channel[x] = FirstChannel(x) + 2 * a
        BY <1>3, SMTT(30) DEF NumbersGiven, TypeOK
      <3>2. x = p \/ x = q
        BY <1>1, TwoPeers
      <3>3. CASE x = p
        BY <1>4, <1>6, <3>1, <3>3 DEF FirstChannel
      <3>4. CASE x = q
        BY <1>4, <1>6, <3>1, <3>4
      <3> QED
        BY <3>2, <3>3, <3>4
    <2>2. channels[x] \subseteq Numbers /\ \A r \in pending[x] : r.n \in Numbers
      BY <1>3, SMTT(30) DEF TypeOK, Requests
    <2>3. \A n \in channels[x] : Given(n)'
      BY <1>3, <1>8, <2>2 DEF NumbersGiven
    <2>4. \A r \in pending[x] : IF r.what = "start" THEN Gave(x, r.n)' ELSE r.n = 0 \/ Given(r.n)'
      BY <1>3, <1>8, <2>2 DEF NumbersGiven
    <2>5. \A r, s \in pending[x] : r.what = "start" /\ s.n = r.n => r = s
      BY <1>3 DEF NumbersGiven
    <2> QED
      BY <1>2, <2>1, <2>3, <2>4, <2>5 DEF NumbersGiven, FirstChannel
  <1>10. ASSUME NEW x \in Peers
         PROVE  /\ Sent(x)' = Sent(x) /\ Heard(x)' = Heard(x) /\ OnceHeard(events[x])'
                /\ state[x] = "AwaitingGreeting" => events'[x] = << >>
                /\ ended'[x] = ended[x]
    <2>1. events'[x] = events[x] /\ ended'[x] = ended[x]
      BY <1>2
    <2>2. OnceHeard(events[x])'
      BY <1>3, <2>1 DEF Once, OnceHeard
    <2>3. Sent(x)' = Sent(x) /\ Heard(x)' = Heard(x)
      BY <1>2 DEF Sent, Heard
    <2>4. state[x] = "AwaitingGreeting" => events[x] = << >>
      BY <1>3 DEF GreetingFirst
    <2> QED
      BY <2>1, <2>2, <2>3, <2>4
  <1> QED
    BY <1>2, <1>4, <1>7, <1>9, <1>10, Resumes

(* Reading a request.                                                      *)
LEMMA HandleRequestInv ==
    ASSUME SessionInv, NEW p \in Peers, HandleRequest(p)
    PROVE  SessionInv'
  <1>1. PICK q \in Peers : q = Other(p) /\ q # p /\ p = Other(q)
    BY TwoPeers
  <1>2. /\ TypeOK /\ OnceSent(Sent(p)) /\ OnceSent(Sent(q))
        /\ OnceHeard(events[p]) /\ OnceHeard(events[q])
        /\ Settled(p) /\ NumbersGiven(p) /\ Starting(p) /\ ClosingOver(p) /\ Agreeing(p)
        /\ GreetingFirst(p) /\ Traffic(p)
        /\ Settled(q) /\ NumbersGiven(q) /\ Starting(q) /\ ClosingOver(q) /\ Agreeing(q)
        /\ GreetingFirst(q) /\ Traffic(q)
    BY <1>1 DEF SessionInv, Once
  <1>3. PICK f : f = Frame(p)
    OBVIOUS
  <1>4. f.t \in {"start", "close"} /\ out' = out
    BY <1>3 DEF HandleRequest, Receive, Frame, Fail
  <1>37. Receive(p, {"start", "close"}) /\ out'[q] = out[q]
    BY <1>4 DEF HandleRequest
  <1>5. IsRequest(f) /\ ~IsReply(f) /\ f.t # "greeting" /\ f.t # "profile"
    BY <1>4 DEF IsRequest, IsReply
  <1>6. /\ f \in Frames /\ draining' = draining /\ wire' \in [Peers -> Seq(Frames)]
        /\ Sent(q) # << >> /\ f = Head(Sent(q)) /\ Sent(q)' = Tail(Sent(q))
        /\ OnceSent(Sent(q))'
    BY <1>1, <1>3, <1>37, Receiving
  <1>7. Sent(p)' = Sent(p)
    <2>1. Sent(p)' = wire[p] \o out'[p]
      BY <1>1, <1>37, Receiving
    <2> QED
      BY <1>4, <2>1 DEF Sent
  <1>8. \A m, n : InFront(Sent(q), m, n) => InFront(Sent(q), m, n)'
    BY <1>1, <1>3, <1>37, Receiving
  <1>9. /\ Asks(q)' = Asks(q) \ {f} /\ Says(q)' = Says(q) /\ f \in Asks(q)
        /\ \A g \in Asks(q) : g.msgno = f.msgno => g = f
    <2>1. IsRequest(f) => /\ Asks(q)' = Asks(q) \ {f} /\ Says(q)' = Says(q) /\ f \in Asks(q)
                          /\ \A g \in Asks(q) : g.msgno = f.msgno => g = f
      BY <1>1, <1>3, <1>37, Receiving
    <2> QED
      BY <1>5, <2>1
  <1>10. \A m, n : InFront(Sent(q), m, n) /\ f.t = "close" /\ f.n = n
                   => \A g \in Says(q) : ~(g.t = "profile" /\ g.msgno = m)
    <2>1. \A m, n : /\ InFront(Sent(q), m, n) /\ Frame(p).t = "close" /\ Frame(p).n = n
                    => \A g \in Says(q) : ~(g.t = "profile" /\ g.msgno = m)
      BY <1>1, <1>37, Receiving
    <2> QED
      BY <1>3, <2>1
  <1>11. state[p] # "AwaitingGreeting"
    <2>1. Frame(p).t # "greeting" => state[p] # "AwaitingGreeting"
      BY <1>1, <1>37, Receiving
    <2> QED
      BY <1>3, <1>5, <2>1
  <1>12. f.msgno \in MsgNos /\ f.n \in Numbers
    BY <1>4, <1>6 DEF Frames
  <1>13. PICK e \in Events : e = [e |-> IF f.t = "start" THEN "StartRequested" ELSE "CloseRequested",
                                  msgno |-> f.msgno, n |-> f.n]
    <2>1. PICK w \in {"StartRequested", "CloseRequested"} :
            w = IF f.t = "start" THEN "StartRequested" ELSE "CloseRequested"
      OBVIOUS
    <2>2. [e |-> w, msgno |-> f.msgno, n |-> f.n] \in Events
      BY <1>12 DEF Events
    <2> QED
      BY <2>1, <2>2
  <1>14. e.msgno = f.msgno /\ e.n = f.n /\ e.e = Requested(f.t) /\ IsRequested(e)
    BY <1>13 DEF Requested, IsRequested
  <1>15. /\ Raise(p, e)
         /\ UNCHANGED <<state, channels, pending, next_channel, next_msgno, ended, calls>>
    BY <1>3, <1>11, <1>13 DEF HandleRequest, session
  <1>16. f.msgno \in Nos(Asks(q)) /\ f.msgno \notin Nos(Heard(p))
    <2>1. f.msgno \in Nos(Asks(q))
      BY <1>9 DEF Nos
    <2> QED
      BY <1>1, <1>2, <2>1 DEF Settled, Exact
  <1>17. /\ Heard(p)' = Heard(p) \cup {d \in {e} : IsRequested(d)} /\ Heard(q)' = Heard(q)
         /\ events' \in [Peers -> Seq(Events)] /\ events'[q] = events[q]
         /\ OnceHeard(events'[p])
    BY <1>1, <1>2, <1>14, <1>15, <1>16, Raising
  <1>18. Heard(p)' = Heard(p) \cup {e}
    BY <1>14, <1>17
  <1>19. /\ Asks(p)' = Asks(p) /\ Says(p)' = Says(p) /\ OnceSent(Sent(p))'
         /\ \A m, n : InFront(Sent(p), m, n) => InFront(Sent(p), m, n)'
    BY <1>2, <1>7, Resting
  <1>20. TypeOK'
    BY <1>2, <1>4, <1>6, <1>15, <1>17 DEF TypeOK
  <1>21. Settled(q)'
    <2>1. Exact(pending[q], Asks(q), Heard(p), Says(p))
      BY <1>1, <1>2 DEF Settled
    <2>2. Exact(pending[q], Asks(q) \ {f}, Heard(p) \cup {e}, Says(p))
      BY <1>9, <1>14, <2>1, ExactHears
    <2> QED
      BY <1>1, <1>9, <1>15, <1>18, <1>19, <2>2 DEF Settled
  <1>22. Settled(p)'
    BY <1>1, <1>2, <1>9, <1>15, <1>17, <1>19, SettledKept
  <1>23. NumbersGiven(p)' /\ NumbersGiven(q)'
    BY <1>2, <1>15, NumbersKept
  <1>24. PICK r \in pending[q] : r.msgno = f.msgno /\ f.t = r.what /\ f.n = r.n
    <2>1. Exact(pending[q], Asks(q), Heard(p), Says(p))
      BY <1>1, <1>2 DEF Settled
    <2> QED
      BY <1>9, <2>1, ItsRequest
  <1>25. Starting(p)'
    <2>1. SUFFICES ASSUME NEW s \in pending[p], s.what = "start"
                   PROVE  Unopened(p, s.msgno, s.n)'
      BY <1>15 DEF Starting
    <2>2. PICK m, n : m = s.msgno /\ n = s.n
      OBVIOUS
    <2>3. Unopened(p, m, n) /\ n \notin channels'[p]
      BY <1>2, <1>15, <2>1, <2>2 DEF Starting, Unopened
    <2>4. Agreed(p, m)' <=> Agreed(p, m)
      BY <1>1, <1>9, AgreedKept
    <2>5. InFront(Sent(q), m, n) => InFront(Sent(q), m, n)'
      BY <1>8
    <2>6. ASSUME Agreed(p, m), NEW u \in pending[q], u.n = n, u.msgno \in Nos(Asks(q))
          PROVE  u.msgno \in Nos(Asks(q))'
      <3>1. InFront(Sent(q), m, n)
        BY <1>1, <2>3, <2>6 DEF Unopened
      <3>2. PICK g \in Says(q) : g.t = "profile" /\ g.msgno = m
        BY <1>1, <2>6 DEF Agreed
      <3>3. ~(f.t = "close" /\ f.n = n)
        BY <1>10, <3>1, <3>2
      <3>4. u # r
        <4>1. Gave(p, n)
          BY <1>2, <2>1, <2>2 DEF NumbersGiven
        <4>2. r.what = "start" => Gave(q, r.n)
          BY <1>2 DEF NumbersGiven
        <4>3. ~Gave(q, n)
          BY <1>1, <4>1, GivenByOne
        <4> QED
          BY <1>4, <1>24, <2>6, <3>3, <4>2, <4>3
      <3>5. u.msgno # f.msgno
        BY <1>2, <1>24, <3>4 DEF Settled, Exact
      <3>6. PICK g2 \in Asks(q) : g2.msgno = u.msgno
        BY <2>6 DEF Nos
      <3>7. g2 \in Asks(q)'
        BY <1>9, <3>5, <3>6
      <3> QED
        BY <3>6, <3>7 DEF Nos
    <2>7. Unopened(p, m, n)'
      BY <1>1, <1>15, <2>3, <2>4, <2>5, <2>6, UnopenedKept
    <2> QED
      BY <2>2, <2>7
  <1>26. Starting(q)'
    <2>1. SUFFICES ASSUME NEW s \in pending[q], s.what = "start"
                   PROVE  Unopened(q, s.msgno, s.n)'
      BY <1>15 DEF Starting
    <2>2. PICK m, n : m = s.msgno /\ n = s.n
      OBVIOUS
    <2>3. Unopened(q, m, n) /\ n \notin channels'[q]
      BY <1>2, <1>15, <2>1, <2>2 DEF Starting, Unopened
    <2>4. Agreed(q, m)' <=> Agreed(q, m)
      BY <1>1, <1>19, AgreedKept
    <2>5. InFront(Sent(p), m, n) => InFront(Sent(p), m, n)'
      BY <1>19
    <2>6. Nos(Asks(p))' = Nos(Asks(p))
      BY <1>19 DEF Nos
    <2>7. Unopened(q, m, n)'
      BY <1>1, <1>15, <2>3, <2>4, <2>5, <2>6, UnopenedKept
    <2> QED
      BY <2>2, <2>7
  <1>27. ClosingOver(p)' /\ ClosingOver(q)'
    BY <1>1, <1>2, <1>9, <1>15, <1>19, ClosingKept
  <1>28. Agreeing(p)' /\ Agreeing(q)'
    BY <1>1, <1>2, <1>15, AgreeingKept
  <1>29. GreetingFirst(p)'
    BY <1>1, <1>2, <1>6, <1>11, <1>15, GreetingRead
  <1>30. Grows(p, {})
    BY <1>7 DEF Grows
  <1>31. GreetingFirst(q)'
    <2>1. state[q] = "AwaitingGreeting" => events'[q] = << >>
      BY <1>2, <1>17 DEF GreetingFirst
    <2> QED
      BY <1>1, <1>2, <1>15, <1>30, <2>1, GreetingKept
  <1>32. /\ NoCloses => state[p] # "Closed" /\ \A s \in pending[p] : s.what = "start"
         /\ NoCloses => state[q] # "Closed" /\ \A s \in pending[q] : s.what = "start"
         /\ NoSends \/ NoCloses => ended[p] # "NoSuchChannel"
    BY <1>2 DEF Traffic
  <1>33. (NoSends' <=> NoSends) /\ (NoCloses' <=> NoCloses)
    BY <1>15 DEF NoSends, NoCloses
  <1>34. Traffic(p)'
    BY <1>1, <1>2, <1>5, <1>6, <1>15, <1>32, <1>33, TrafficRead
  <1>35. Traffic(q)'
    BY <1>1, <1>2, <1>15, <1>30, <1>32, <1>33, TrafficKept
  <1>36. OnceHeard(events'[q])
    BY <1>2, <1>17
  <1> QED
    BY <1>1, <1>6, <1>17, <1>19, <1>20, <1>21, <1>22, <1>23, <1>25, <1>26, <1>27, <1>28, <1>29,
       <1>31, <1>34, <1>35, <1>36, BothPeers

(* A request is answered.                                                  *)
LEMMA Replying ==
    ASSUME SessionInv, NEW p \in Peers, NEW q \in Peers, q = Other(p), p = Other(q), q # p,
           NEW es, NEW raised, Take(p, es, raised), IsRequested(Head(events[p])),
           raised = << >> \/ \E d \in Events : raised = <<d>> /\ ~IsRequested(d),
           NEW f \in Frames, IsReply(f), Queue(p, f), f.msgno = Head(events[p]).msgno,
           f.t = "ok" <=> Head(events[p]).e = "CloseRequested", UNCHANGED <<wire, pending>>
    PROVE  /\ \E r \in pending[q] : /\ r.msgno = f.msgno /\ Head(events[p]).n = r.n
                                    /\ Head(events[p]).e = Requested(r.what)
                                    /\ r.msgno \notin Nos(Asks(q)) \cup Nos(Says(p))
           /\ Settled(p)' /\ Settled(q)'
           /\ Sent(p)' = Append(Sent(p), f) /\ Sent(q)' = Sent(q)
           /\ Asks(p)' = Asks(p) /\ Says(p)' = Says(p) \cup {f} /\ OnceSent(Sent(p))'
           /\ Asks(q)' = Asks(q) /\ Says(q)' = Says(q) /\ OnceSent(Sent(q))'
           /\ OnceHeard(events'[p]) /\ OnceHeard(events'[q]) /\ events'[q] = events[q]
           /\ \A m, n :
                InFront(Sent(p), m, n)
                /\ (f.t = "profile" /\ f.msgno = m =>
                      \A g \in Asks(p) : ~(g.t = "close" /\ g.n = n))
                => InFront(Sent(p), m, n)'
           /\ \A m, n : InFront(Sent(q), m, n) => InFront(Sent(q), m, n)'
           /\ events' \in [Peers -> Seq(Events)] /\ draining' \in [Peers -> BOOLEAN]
           /\ out' \in [Peers -> Seq(Frames)] /\ state[p] # "AwaitingGreeting"
  <1>1. /\ TypeOK /\ OnceSent(Sent(p)) /\ OnceSent(Sent(q))
        /\ OnceHeard(events[p]) /\ OnceHeard(events[q]) /\ Settled(p) /\ Settled(q)
        /\ GreetingFirst(p)
    BY DEF SessionInv, Once
  <1>2. PICK e : e = Head(events[p])
    OBVIOUS
  <1>3. /\ e \in Events
        /\ e \in Heard(p) /\ \A d \in Heard(p) : d.msgno = e.msgno => d = e
        /\ Heard(p)' = Heard(p) \ {d \in {e} : IsRequested(d)}
        /\ Heard(q)' = Heard(q)
        /\ events' \in [Peers -> Seq(Events)] /\ events'[q] = events[q]
        /\ draining' \in [Peers -> BOOLEAN]
        /\ OnceHeard(events'[p])
    BY <1>1, <1>2, Taking
  <1>4. Heard(p)' = Heard(p) \ {e} /\ OnceHeard(events'[q])
    BY <1>1, <1>2, <1>3
  <1>5. /\ Sent(p)' = Append(Sent(p), f) /\ Sent(q)' = Sent(q) /\ out' \in [Peers -> Seq(Frames)]
    BY <1>1, SentQueued
  <1>6. Exact(pending[q], Asks(q), Heard(p), Says(p))
    BY <1>1 DEF Settled
  <1>7. f.msgno = e.msgno /\ (f.t = "ok" <=> e.e = "CloseRequested")
    BY <1>2
  <1>8. PICK r \in pending[q] : /\ r.msgno = e.msgno /\ e.e = Requested(r.what)
                                /\ e.n = r.n /\ r.msgno \notin Nos(Asks(q)) \cup Nos(Says(p))
    BY <1>3, <1>6, ItsRequest
  <1>9. /\ Asks(p)' = Asks(p) /\ Says(p)' = Says(p) \cup {f} /\ OnceSent(Sent(p))'
        /\ \A m, n :
             InFront(Sent(p), m, n)
             /\ (f.t = "profile" /\ f.msgno = m =>
                   \A g \in Asks(p) : ~(g.t = "close" /\ g.n = n))
             => InFront(Sent(p), m, n)'
    <2>1. f.msgno \notin Nos(Says(p))
      BY <1>7, <1>8
    <2>2. Asks(p)' = Asks(p) /\ Says(p)' = Says(p) \cup {f} /\ OnceSent(Sent(p))'
      BY <1>1, <1>5, <2>1, QueueReply
    <2>3. \A m, n :
            InFront(Sent(p), m, n)
            /\ (f.t = "profile" /\ f.msgno = m => \A g \in Asks(p) : ~(g.t = "close" /\ g.n = n))
            => InFront(Sent(p), m, n)'
      BY <1>1, <1>5, <2>1, QueueReply
    <2> QED
      BY <2>2, <2>3
  <1>10. /\ Asks(q)' = Asks(q) /\ Says(q)' = Says(q) /\ OnceSent(Sent(q))'
         /\ \A m, n : InFront(Sent(q), m, n) => InFront(Sent(q), m, n)'
    BY <1>1, <1>5, Resting
  <1>11. \A s \in pending[q] : s.what \in {"start", "close"}
    <2>1. pending[q] \subseteq Requests
      BY <1>1 DEF TypeOK
    <2> QED
      BY <2>1 DEF Requests
  <1>12. Settled(q)'
    <2>1. Exact(pending[q], Asks(q), Heard(p) \ {e}, Says(p) \cup {f})
      BY <1>3, <1>6, <1>7, <1>11, ExactSays
    <2> QED
      BY <1>4, <1>9, <1>10, <2>1 DEF Settled
  <1>13. Settled(p)'
    BY <1>1, <1>3, <1>9, <1>10, SettledKept
  <1>14. state[p] # "AwaitingGreeting"
    BY <1>1 DEF GreetingFirst, Take
  <1>15. \E s \in pending[q] : /\ s.msgno = f.msgno /\ Head(events[p]).n = s.n
                               /\ Head(events[p]).e = Requested(s.what)
                               /\ s.msgno \notin Nos(Asks(q)) \cup Nos(Says(p))
    BY <1>2, <1>7, <1>8
  <1> QED
    BY <1>3, <1>4, <1>5, <1>9, <1>10, <1>12, <1>13, <1>14, <1>15

(* A start that waits for an answer is for a channel nobody has or closes. *)
LEMMA Asked ==
    ASSUME SessionInv, NEW p \in Peers, NEW q \in Peers, q = Other(p), p = Other(q),
           NEW e \in Heard(p), e.e = "StartRequested"
    PROVE  \E r \in pending[q] :
             /\ r.msgno = e.msgno /\ r.n = e.n /\ r.what = "start"
             /\ r.msgno \notin Nos(Says(p)) /\ Gave(q, r.n) /\ r.n # 0 /\ ~Owns(p, r.n)
             /\ r.n \notin channels[p] /\ r.n \notin channels[q]
             /\ \A s \in pending[p] : s.n # r.n
  <1>1. Settled(q) /\ NumbersGiven(q) /\ Starting(q) /\ TypeOK
    BY DEF SessionInv
  <1>2. Exact(pending[q], Asks(q), Heard(p), Says(p))
    BY <1>1 DEF Settled
  <1>3. PICK r \in pending[q] : /\ r.msgno = e.msgno /\ e.e = Requested(r.what)
                                /\ e.n = r.n /\ r.msgno \notin Nos(Asks(q)) \cup Nos(Says(p))
    BY <1>2, ItsRequest
  <1>4. r.what = "start"
    BY <1>3 DEF Requested
  <1>5. Gave(q, r.n) /\ r.n # 0 /\ ~Owns(p, r.n)
    <2>1. Gave(q, r.n)
      BY <1>1, <1>4 DEF NumbersGiven
    <2> QED
      BY <2>1, GivenByOne
  <1>6. Unopened(q, r.msgno, r.n)
    BY <1>1, <1>4 DEF Starting
  <1>7. ~Agreed(q, r.msgno)
    BY <1>3 DEF Agreed, Nos
  <1>8. /\ r.n \notin channels[p] /\ r.n \notin channels[q]
        /\ \A s \in pending[p] : s.n # r.n
    BY <1>6, <1>7 DEF Unopened
  <1> QED
    BY <1>3, <1>4, <1>5, <1>8

(* accept_start.                                                           *)
LEMMA AcceptStartInv ==
    ASSUME SessionInv, NEW p \in Peers, AcceptStart(p)
    PROVE  SessionInv'
  <1>1. PICK q \in Peers : q = Other(p) /\ q # p /\ p = Other(q)
    BY TwoPeers
  <1>2. /\ TypeOK /\ OnceHeard(events[p])
        /\ Settled(p) /\ NumbersGiven(p) /\ Starting(p) /\ ClosingOver(p) /\ Agreeing(p)
        /\ GreetingFirst(p) /\ Traffic(p)
        /\ Settled(q) /\ NumbersGiven(q) /\ Starting(q) /\ ClosingOver(q) /\ Agreeing(q)
        /\ GreetingFirst(q) /\ Traffic(q)
    BY <1>1 DEF SessionInv, Once
  <1>3. /\ Take(p, {"StartRequested"}, << >>)
        /\ UNCHANGED <<state, pending, next_channel, next_msgno, wire, ended, calls>>
    BY DEF AcceptStart
  <1>4. PICK e \in Events : e = Head(events[p])
    BY <1>2, <1>3, Taking
  <1>5. e.e = "StartRequested" /\ IsRequested(e)
    BY <1>3, <1>4 DEF Take, IsRequested
  <1>6. e \in Heard(p)
    BY <1>2, <1>3, <1>4, <1>5, Taking
  <1>7. PICK r \in pending[q] :
          /\ r.msgno = e.msgno /\ r.n = e.n /\ r.what = "start"
          /\ r.msgno \notin Nos(Says(p)) /\ Gave(q, r.n) /\ r.n # 0 /\ ~Owns(p, r.n)
          /\ r.n \notin channels[p] /\ r.n \notin channels[q]
          /\ \A s \in pending[p] : s.n # r.n
    BY <1>1, <1>5, <1>6, Asked
  <1>8. r.msgno \in MsgNos /\ r.n \in Numbers
    <2>1. pending[q] \subseteq Requests
      BY <1>2 DEF TypeOK
    <2> QED
      BY <2>1 DEF Requests
  <1>9. PICK f \in Frames : f = [t |-> "profile", msgno |-> r.msgno]
    BY <1>8 DEF Frames
  <1>10. f.t = "profile" /\ f.msgno = r.msgno /\ IsReply(f)
    BY <1>9 DEF IsReply
  <1>11. /\ channels' = [channels EXCEPT ![p] = @ \cup {r.n}]
         /\ Queue(p, f)
    BY <1>4, <1>7, <1>9 DEF AcceptStart
  <1>12. /\ channels'[p] = channels[p] \cup {r.n} /\ channels'[q] = channels[q]
         /\ channels' \in [Peers -> SUBSET Numbers]
    BY <1>1, <1>2, <1>8, <1>11 DEF TypeOK
  <1>13. f.msgno = Head(events[p]).msgno /\ IsRequested(Head(events[p]))
         /\ (f.t = "ok" <=> Head(events[p]).e = "CloseRequested")
    BY <1>4, <1>5, <1>7, <1>10
  <1>14. /\ Settled(p)' /\ Settled(q)'
         /\ Sent(p)' = Append(Sent(p), f) /\ Sent(q)' = Sent(q)
         /\ Asks(p)' = Asks(p) /\ Says(p)' = Says(p) \cup {f} /\ OnceSent(Sent(p))'
         /\ Asks(q)' = Asks(q) /\ Says(q)' = Says(q) /\ OnceSent(Sent(q))'
         /\ OnceHeard(events'[p]) /\ OnceHeard(events'[q]) /\ events'[q] = events[q]
         /\ events' \in [Peers -> Seq(Events)] /\ draining' \in [Peers -> BOOLEAN]
         /\ out' \in [Peers -> Seq(Frames)] /\ state[p] # "AwaitingGreeting"
    BY <1>1, <1>3, <1>10, <1>11, <1>13, Replying
  <1>15. /\ \A m, n :
              InFront(Sent(p), m, n)
              /\ (f.t = "profile" /\ f.msgno = m =>
                    \A g \in Asks(p) : ~(g.t = "close" /\ g.n = n))
              => InFront(Sent(p), m, n)'
         /\ \A m, n : InFront(Sent(q), m, n) => InFront(Sent(q), m, n)'
    BY <1>1, <1>3, <1>10, <1>11, <1>13, Replying
  <1>16. TypeOK'
    BY <1>2, <1>3, <1>12, <1>14 DEF TypeOK
  <1>17. NumbersGiven(p)' /\ NumbersGiven(q)'
    <2>1. Given(r.n)
      BY <1>7 DEF Given
    <2> QED
      BY <1>2, <1>3, <1>12, <2>1, NumbersKept
  <1>18. \A s \in pending[q] : s.what = "start" /\ s.n = r.n => s = r
    BY <1>2, <1>7 DEF NumbersGiven
  <1>19. Starting(p)'
    <2>1. SUFFICES ASSUME NEW s \in pending[p], s.what = "start"
                   PROVE  Unopened(p, s.msgno, s.n)'
      BY <1>3 DEF Starting
    <2>2. PICK m, n : m = s.msgno /\ n = s.n
      OBVIOUS
    <2>3. Unopened(p, m, n)
      BY <1>2, <2>1, <2>2 DEF Starting
    <2>4. n \notin channels'[p]
      BY <1>7, <1>12, <2>2, <2>3 DEF Unopened
    <2>5. Agreed(p, m)' <=> Agreed(p, m)
      BY <1>1, <1>14, AgreedKept
    <2>6. Nos(Asks(q))' = Nos(Asks(q))
      BY <1>14 DEF Nos
    <2>7. InFront(Sent(q), m, n) => InFront(Sent(q), m, n)'
      BY <1>15
    <2>8. Unopened(p, m, n)'
      BY <1>1, <1>3, <1>12, <2>3, <2>4, <2>5, <2>6, <2>7, UnopenedKept
    <2> QED
      BY <2>2, <2>8
  <1>20. Starting(q)'
    <2>1. SUFFICES ASSUME NEW s \in pending[q], s.what = "start"
                   PROVE  Unopened(q, s.msgno, s.n)'
      BY <1>3 DEF Starting
    <2>2. PICK m, n : m = s.msgno /\ n = s.n
      OBVIOUS
    <2>3. Unopened(q, m, n)
      BY <1>2, <2>1, <2>2 DEF Starting
    <2>4. n \notin channels'[q]
      BY <1>12, <2>3 DEF Unopened
    <2>5. Nos(Asks(p))' = Nos(Asks(p))
      BY <1>14 DEF Nos
    <2>6. CASE s = r
      <3>1. \A g \in Asks(p) : ~(g.t = "close" /\ g.n = n)
        <4>1. Exact(pending[p], Asks(p), Heard(q), Says(q))
          BY <1>1, <1>2 DEF Settled
        <4>2. \A g \in Asks(p) : \E u \in pending[p] : u.msgno = g.msgno /\ g.t = u.what /\ g.n = u.n
          BY <4>1, ItsRequest
        <4> QED
          BY <1>7, <2>2, <2>6, <4>2
      <3>2. InFront(Sent(p), m, n)
        <4>1. \A i \in 1 .. Len(Sent(p)) : ~(Sent(p)[i].t = "profile" /\ Sent(p)[i].msgno = m)
          BY <1>7, <2>2, <2>6 DEF Nos, Says, Members, IsReply
        <4> QED
          BY <4>1 DEF InFront
      <3>3. InFront(Sent(p), m, n)'
        BY <1>15, <3>1, <3>2
      <3>4. Agreed(q, m)'
        BY <1>1, <1>10, <1>14, <2>2, <2>6 DEF Agreed
      <3>5. n \in channels'[p] /\ \A u \in pending'[p] : u.n # n
        BY <1>3, <1>7, <1>12, <2>2, <2>6
      <3>6. Unopened(q, m, n)'
        BY <1>1, <2>4, <3>3, <3>4, <3>5 DEF Unopened
      <3> QED
        BY <2>2, <3>6
    <2>7. CASE s # r
      <3>1. m # r.msgno
        BY <1>2, <2>2, <2>7 DEF Settled, Exact
      <3>2. n # r.n
        BY <1>18, <2>1, <2>2, <2>7
      <3>3. Agreed(q, m)' <=> Agreed(q, m)
        BY <1>1, <1>10, <1>14, <3>1 DEF Agreed
      <3>4. InFront(Sent(p), m, n) => InFront(Sent(p), m, n)'
        BY <1>10, <1>15, <3>1
      <3>5. Unopened(q, m, n)'
        BY <1>1, <1>3, <1>12, <2>3, <2>4, <2>5, <3>2, <3>3, <3>4, UnopenedKept
      <3> QED
        BY <2>2, <3>5
    <2> QED
      BY <2>6, <2>7
  <1>21. ClosingOver(p)'
    BY <1>1, <1>2, <1>3, <1>12, <1>14, ClosingKept
  <1>22. ClosingOver(q)'
    <2>1. SUFFICES ASSUME NEW s \in pending[q], NEW g \in Says(p)', g.t = "ok", g.msgno = s.msgno
                   PROVE  s.n \notin channels'[p] /\ (s.n = 0 => state'[p] = "Closed")
      BY <1>1, <1>3 DEF ClosingOver
    <2>2. g \in Says(p)
      BY <1>10, <1>14, <2>1
    <2>3. s.n \notin channels[p] /\ (s.n = 0 => state[p] = "Closed")
      BY <1>1, <1>2, <2>1, <2>2 DEF ClosingOver
    <2>4. s # r
      BY <1>7, <2>1, <2>2 DEF Nos
    <2>5. s.n # r.n
      BY <1>2, <1>7, <2>4 DEF NumbersGiven
    <2> QED
      BY <1>3, <1>12, <2>3, <2>5
  <1>23. Agreeing(p)'
    BY <1>1, <1>2, <1>3, <1>12 DEF Agreeing
  <1>24. Agreeing(q)'
    BY <1>1, <1>2, <1>3, <1>12, AgreeingKept
  <1>25. Grows(p, {"profile"}) /\ Grows(q, {})
    BY <1>10, <1>14 DEF Grows
  <1>26. GreetingFirst(p)' /\ GreetingFirst(q)'
    <2>1. state[q] = "AwaitingGreeting" => events'[q] = << >>
      BY <1>2, <1>14 DEF GreetingFirst
    <2> QED
      BY <1>1, <1>2, <1>3, <1>14, <1>25, <2>1, GreetingKept
  <1>27. (NoSends' <=> NoSends) /\ (NoCloses' <=> NoCloses)
    BY <1>3 DEF NoSends, NoCloses
  <1>28. \A x \in Peers : channels[x] \subseteq channels'[x]
    BY <1>1, <1>12, TwoPeers
  <1>29. Traffic(p)' /\ Traffic(q)'
    <2>1. /\ NoCloses => state[p] # "Closed" /\ \A s \in pending[p] : s.what = "start"
          /\ NoCloses => state[q] # "Closed" /\ \A s \in pending[q] : s.what = "start"
      BY <1>2 DEF Traffic
    <2> QED
      BY <1>1, <1>2, <1>3, <1>25, <1>27, <1>28, <2>1, TrafficKept
  <1> QED
    BY <1>1, <1>14, <1>16, <1>17, <1>19, <1>20, <1>21, <1>22, <1>23, <1>24, <1>26, <1>29, BothPeers

(* refuse_start.                                                           *)
LEMMA RefuseStartInv ==
    ASSUME SessionInv, NEW p \in Peers, RefuseStart(p)
    PROVE  SessionInv'
  <1>1. PICK q \in Peers : q = Other(p) /\ q # p /\ p = Other(q)
    BY TwoPeers
  <1>2. /\ TypeOK /\ OnceHeard(events[p])
        /\ Settled(p) /\ NumbersGiven(p) /\ Starting(p) /\ ClosingOver(p) /\ Agreeing(p)
        /\ GreetingFirst(p) /\ Traffic(p)
        /\ Settled(q) /\ NumbersGiven(q) /\ Starting(q) /\ ClosingOver(q) /\ Agreeing(q)
        /\ GreetingFirst(q) /\ Traffic(q)
    BY <1>1 DEF SessionInv, Once
  <1>3. /\ Take(p, {"StartRequested"}, << >>)
        /\ UNCHANGED <<state, channels, pending, next_channel, next_msgno, wire, ended, calls>>
    BY DEF RefuseStart, session
  <1>4. PICK e \in Events : e = Head(events[p])
    BY <1>2, <1>3, Taking
  <1>5. e.e = "StartRequested" /\ IsRequested(e) /\ e.msgno \in MsgNos
    <2>1. e.e = "StartRequested"
      BY <1>3, <1>4 DEF Take
    <2> QED
      BY <1>4, <2>1 DEF IsRequested, Events
  <1>6. PICK f \in Frames : f = [t |-> "error", msgno |-> e.msgno]
    BY <1>5 DEF Frames
  <1>7. f.t = "error" /\ f.msgno = e.msgno /\ IsReply(f) /\ Queue(p, f)
    BY <1>4, <1>6 DEF IsReply, RefuseStart
  <1>8. f.msgno = Head(events[p]).msgno /\ IsRequested(Head(events[p]))
        /\ (f.t = "ok" <=> Head(events[p]).e = "CloseRequested")
    BY <1>4, <1>5, <1>7
  <1>9. /\ Settled(p)' /\ Settled(q)'
        /\ Sent(p)' = Append(Sent(p), f) /\ Sent(q)' = Sent(q)
        /\ Asks(p)' = Asks(p) /\ Says(p)' = Says(p) \cup {f} /\ OnceSent(Sent(p))'
        /\ Asks(q)' = Asks(q) /\ Says(q)' = Says(q) /\ OnceSent(Sent(q))'
        /\ OnceHeard(events'[p]) /\ OnceHeard(events'[q]) /\ events'[q] = events[q]
        /\ events' \in [Peers -> Seq(Events)] /\ draining' \in [Peers -> BOOLEAN]
        /\ out' \in [Peers -> Seq(Frames)] /\ state[p] # "AwaitingGreeting"
    BY <1>1, <1>3, <1>7, <1>8, Replying
  <1>10. /\ \A m, n :
              InFront(Sent(p), m, n)
              /\ (f.t = "profile" /\ f.msgno = m =>
                    \A g \in Asks(p) : ~(g.t = "close" /\ g.n = n))
              => InFront(Sent(p), m, n)'
         /\ \A m, n : InFront(Sent(q), m, n) => InFront(Sent(q), m, n)'
    BY <1>1, <1>3, <1>7, <1>8, Replying
  <1>11. TypeOK'
    BY <1>2, <1>3, <1>9 DEF TypeOK
  <1>12. NumbersGiven(p)' /\ NumbersGiven(q)'
    BY <1>2, <1>3, NumbersKept
  <1>13. ASSUME NEW x \in Peers PROVE Starting(x)'
    <2>1. SUFFICES ASSUME NEW s \in pending[x], s.what = "start"
                   PROVE  Unopened(x, s.msgno, s.n)'
      BY <1>3 DEF Starting
    <2>2. PICK y \in Peers, m \in {s.msgno}, n \in {s.n} : y = Other(x) /\ m = s.msgno /\ n = s.n
      BY TwoPeers
    <2>3. Unopened(x, m, n) /\ n \notin channels'[x]
      BY <1>3, <2>1, <2>2 DEF SessionInv, Starting, Unopened
    <2>4. y = p \/ y = q
      BY <1>1, TwoPeers
    <2>5. \A g \in Says(y)' : g.t = "profile" => g \in Says(y)
      BY <1>7, <1>9, <2>4
    <2>6. Says(y) \subseteq Says(y)' /\ Asks(y)' = Asks(y)
      BY <1>9, <2>4
    <2>7. Agreed(x, m)' <=> Agreed(x, m)
      BY <2>2, <2>5, <2>6 DEF Agreed
    <2>8. Nos(Asks(y))' = Nos(Asks(y))
      BY <2>6 DEF Nos
    <2>9. InFront(Sent(y), m, n) => InFront(Sent(y), m, n)'
      BY <1>7, <1>10, <2>4
    <2>10. Unopened(x, m, n)'
      BY <1>3, <2>2, <2>3, <2>7, <2>8, <2>9, UnopenedKept
    <2> QED
      BY <2>2, <2>10
  <1>14. ClosingOver(p)' /\ ClosingOver(q)'
    BY <1>1, <1>2, <1>3, <1>7, <1>9, ClosingKept
  <1>15. Agreeing(p)' /\ Agreeing(q)'
    BY <1>1, <1>2, <1>3, AgreeingKept
  <1>16. Grows(p, {"error"}) /\ Grows(q, {})
    BY <1>7, <1>9 DEF Grows
  <1>17. GreetingFirst(p)' /\ GreetingFirst(q)'
    <2>1. state[q] = "AwaitingGreeting" => events'[q] = << >>
      BY <1>2, <1>9 DEF GreetingFirst
    <2> QED
      BY <1>1, <1>2, <1>3, <1>9, <1>16, <2>1, GreetingKept
  <1>18. Traffic(p)' /\ Traffic(q)'
    <2>1. (NoSends' <=> NoSends) /\ (NoCloses' <=> NoCloses)
      BY <1>3 DEF NoSends, NoCloses
    <2>2. /\ NoCloses => state[p] # "Closed" /\ \A s \in pending[p] : s.what = "start"
          /\ NoCloses => state[q] # "Closed" /\ \A s \in pending[q] : s.what = "start"
      BY <1>2 DEF Traffic
    <2> QED
      BY <1>1, <1>2, <1>3, <1>16, <2>1, <2>2, TrafficKept
  <1> QED
    BY <1>1, <1>9, <1>11, <1>12, <1>13, <1>14, <1>15, <1>17, <1>18, BothPeers

(* accept_close.                                                           *)
LEMMA AcceptCloseInv ==
    ASSUME SessionInv, NEW p \in Peers, AcceptClose(p)
    PROVE  SessionInv'
  <1>1. PICK q \in Peers : q = Other(p) /\ q # p /\ p = Other(q)
    BY TwoPeers
  <1>2. /\ TypeOK /\ OnceHeard(events[p])
        /\ Settled(p) /\ NumbersGiven(p) /\ Starting(p) /\ ClosingOver(p) /\ Agreeing(p)
        /\ GreetingFirst(p) /\ Traffic(p)
        /\ Settled(q) /\ NumbersGiven(q) /\ Starting(q) /\ ClosingOver(q) /\ Agreeing(q)
        /\ GreetingFirst(q) /\ Traffic(q)
    BY <1>1 DEF SessionInv, Once
  <1>3. PICK e : e = Head(events[p])
    OBVIOUS
  <1>4. /\ Take(p, {"CloseRequested"}, <<ClosedEvent(e.n)>>) /\ FinishClose(p, e.n)
        /\ Queue(p, [t |-> "ok", msgno |-> e.msgno])
        /\ UNCHANGED <<pending, next_channel, next_msgno, wire, ended, calls>>
    BY <1>3 DEF AcceptClose
  <1>5. e.e = "CloseRequested" /\ IsRequested(e)
    BY <1>3, <1>4 DEF Take, IsRequested
  <1>6. e \in Events
    <2>1. events[p] \in Seq(Events) /\ events[p] # << >>
      BY <1>2, <1>4 DEF Take, TypeOK
    <2> QED
      BY <1>3, <2>1, AtFront
  <1>7. e.n \in Numbers /\ e.msgno \in MsgNos
    BY <1>5, <1>6 DEF Events
  <1>8. ClosedEvent(e.n) \in Events /\ ~IsRequested(ClosedEvent(e.n))
    <2>1. PICK w \in {"SessionClosed", "ChannelClosed"} :
            w = IF e.n = 0 THEN "SessionClosed" ELSE "ChannelClosed"
      OBVIOUS
    <2>2. ClosedEvent(e.n) = [e |-> w, n |-> e.n]
      BY <2>1 DEF ClosedEvent
    <2> QED
      BY <1>7, <2>2 DEF Events, IsRequested
  <1>9. PICK f \in Frames : f = [t |-> "ok", msgno |-> e.msgno]
    BY <1>7 DEF Frames
  <1>10. f.t = "ok" /\ f.msgno = e.msgno /\ IsReply(f) /\ Queue(p, f)
    BY <1>4, <1>9 DEF IsReply
  <1>11. f.msgno = Head(events[p]).msgno /\ IsRequested(Head(events[p]))
         /\ (f.t = "ok" <=> Head(events[p]).e = "CloseRequested")
    BY <1>3, <1>5, <1>10
  <1>12. \E d \in Events : <<ClosedEvent(e.n)>> = <<d>> /\ ~IsRequested(d)
    BY <1>8
  <1>13. /\ Settled(p)' /\ Settled(q)'
         /\ Sent(p)' = Append(Sent(p), f) /\ Sent(q)' = Sent(q)
         /\ Asks(p)' = Asks(p) /\ Says(p)' = Says(p) \cup {f} /\ OnceSent(Sent(p))'
         /\ Asks(q)' = Asks(q) /\ Says(q)' = Says(q) /\ OnceSent(Sent(q))'
         /\ OnceHeard(events'[p]) /\ OnceHeard(events'[q]) /\ events'[q] = events[q]
         /\ events' \in [Peers -> Seq(Events)] /\ draining' \in [Peers -> BOOLEAN]
         /\ out' \in [Peers -> Seq(Frames)] /\ state[p] # "AwaitingGreeting"
    BY <1>1, <1>4, <1>10, <1>11, <1>12, Replying
  <1>14. /\ \A m, n :
              InFront(Sent(p), m, n)
              /\ (f.t = "profile" /\ f.msgno = m =>
                    \A g \in Asks(p) : ~(g.t = "close" /\ g.n = n))
              => InFront(Sent(p), m, n)'
         /\ \A m, n : InFront(Sent(q), m, n) => InFront(Sent(q), m, n)'
    BY <1>1, <1>4, <1>10, <1>11, <1>12, Replying
  <1>15. PICK r \in pending[q] : /\ r.msgno = f.msgno /\ e.n = r.n
                                 /\ e.e = Requested(r.what)
    <2>1. \E s \in pending[q] : /\ s.msgno = f.msgno /\ Head(events[p]).n = s.n
                                /\ Head(events[p]).e = Requested(s.what)
      BY <1>1, <1>4, <1>10, <1>11, <1>12, Replying
    <2> QED
      BY <1>3, <2>1
  <1>16. r.what = "close"
    <2>1. pending[q] \subseteq Requests
      BY <1>2 DEF TypeOK
    <2>2. r.what \in {"start", "close"}
      BY <2>1 DEF Requests
    <2> QED
      BY <1>5, <1>15, <2>2 DEF Requested
  <1>17. /\ channels' = [channels EXCEPT ![p] = IF r.n = 0 THEN {} ELSE @ \ {r.n}]
         /\ state' = [state EXCEPT ![p] = IF r.n = 0 THEN "Closed" ELSE @]
    BY <1>4, <1>15 DEF FinishClose
  <1>18. /\ channels'[q] = channels[q] /\ state'[q] = state[q]
         /\ channels'[p] = (IF r.n = 0 THEN {} ELSE channels[p] \ {r.n})
         /\ state'[p] = (IF r.n = 0 THEN "Closed" ELSE state[p])
         /\ channels' \in [Peers -> SUBSET Numbers]
         /\ state' \in [Peers -> {"AwaitingGreeting", "Ready", "Closed"}]
    BY <1>1, <1>2, <1>17 DEF TypeOK
  <1>19. /\ channels'[p] \subseteq channels[p] /\ r.n \notin channels'[p]
         /\ state[p] = "Closed" => state'[p] = "Closed"
         /\ r.n = 0 => state'[p] = "Closed"
         /\ \A n \in channels[p] : n # r.n => n \in channels'[p] \/ state'[p] = "Closed"
    BY <1>18
  <1>20. TypeOK'
    BY <1>2, <1>4, <1>13, <1>18 DEF TypeOK
  <1>21. NumbersGiven(p)' /\ NumbersGiven(q)'
    BY <1>2, <1>4, <1>18, <1>19, NumbersKept
  <1>22. Starting(p)'
    <2>1. SUFFICES ASSUME NEW s \in pending[p], s.what = "start"
                   PROVE  Unopened(p, s.msgno, s.n)'
      BY <1>4 DEF Starting
    <2>2. PICK m, n : m = s.msgno /\ n = s.n
      OBVIOUS
    <2>3. Unopened(p, m, n)
      BY <1>2, <2>1, <2>2 DEF Starting
    <2>4. n \notin channels'[p]
      BY <1>19, <2>3 DEF Unopened
    <2>5. Agreed(p, m)' <=> Agreed(p, m)
      BY <1>1, <1>13, AgreedKept
    <2>6. Nos(Asks(q))' = Nos(Asks(q))
      BY <1>13 DEF Nos
    <2>7. InFront(Sent(q), m, n) => InFront(Sent(q), m, n)'
      BY <1>14
    <2>8. Unopened(p, m, n)'
      BY <1>1, <1>4, <1>18, <2>3, <2>4, <2>5, <2>6, <2>7, UnopenedKept
    <2> QED
      BY <2>2, <2>8
  <1>23. Starting(q)'
    <2>1. SUFFICES ASSUME NEW s \in pending[q], s.what = "start"
                   PROVE  Unopened(q, s.msgno, s.n)'
      BY <1>4 DEF Starting
    <2>2. PICK m, n : m = s.msgno /\ n = s.n
      OBVIOUS
    <2>3. Unopened(q, m, n)
      BY <1>2, <2>1, <2>2 DEF Starting
    <2>4. n \notin channels'[q]
      BY <1>18, <2>3 DEF Unopened
    <2>5. n # r.n
      BY <1>2, <1>16, <2>1, <2>2 DEF NumbersGiven
    <2>6. Agreed(q, m)' <=> Agreed(q, m)
      BY <1>1, <1>10, <1>13 DEF Agreed
    <2>7. Nos(Asks(p))' = Nos(Asks(p))
      BY <1>13 DEF Nos
    <2>8. InFront(Sent(p), m, n) => InFront(Sent(p), m, n)'
      BY <1>10, <1>14
    <2>9. /\ n \in channels[p] \/ state[p] = "Closed" => n \in channels'[p] \/ state'[p] = "Closed"
          /\ n \notin channels[p] => n \notin channels'[p]
      BY <1>19, <2>5
    <2>10. Unopened(q, m, n)'
      BY <1>1, <1>4, <2>3, <2>4, <2>6, <2>7, <2>8, <2>9, UnopenedKept
    <2> QED
      BY <2>2, <2>10
  <1>24. ClosingOver(p)'
    BY <1>1, <1>2, <1>4, <1>13, <1>18, ClosingKept
  <1>25. ClosingOver(q)'
    <2>1. SUFFICES ASSUME NEW s \in pending[q], NEW g \in Says(p)', g.t = "ok", g.msgno = s.msgno
                   PROVE  s.n \notin channels'[p] /\ (s.n = 0 => state'[p] = "Closed")
      BY <1>1, <1>4 DEF ClosingOver
    <2>2. CASE g \in Says(p)
      <3>1. s.n \notin channels[p] /\ (s.n = 0 => state[p] = "Closed")
        BY <1>1, <1>2, <2>1, <2>2 DEF ClosingOver
      <3> QED
        BY <1>19, <3>1
    <2>3. CASE g = f
      <3>1. s = r
        BY <1>2, <1>15, <2>1, <2>3 DEF Settled, Exact
      <3> QED
        BY <1>19, <3>1
    <2> QED
      BY <1>13, <2>2, <2>3
  <1>26. Agreeing(p)'
    BY <1>1, <1>2, <1>4, <1>18, <1>19, AgreeingKept
  <1>27. Agreeing(q)'
    <2>1. SUFFICES ASSUME NEW n \in channels[q]
                   PROVE  \/ n \in channels'[p] \/ state'[p] = "Closed"
                          \/ \E s \in pending[q] \cup pending[p] : s.n = n
      BY <1>1, <1>4, <1>18 DEF Agreeing
    <2>2. \/ n \in channels[p] \/ state[p] = "Closed"
          \/ \E s \in pending[q] \cup pending[p] : s.n = n
      BY <1>1, <1>2 DEF Agreeing
    <2> QED
      BY <1>19, <2>2
  <1>28. Grows(p, {"ok"}) /\ Grows(q, {})
    BY <1>10, <1>13 DEF Grows
  <1>29. GreetingFirst(p)' /\ GreetingFirst(q)'
    <2>1. state[q] = "AwaitingGreeting" => events'[q] = << >>
      BY <1>2, <1>13 DEF GreetingFirst
    <2>2. state'[p] # "AwaitingGreeting"
      BY <1>13, <1>18
    <2> QED
      BY <1>1, <1>2, <1>4, <1>13, <1>18, <1>28, <2>1, <2>2, GreetingKept
  <1>30. Traffic(p)' /\ Traffic(q)'
    <2>1. (NoSends' <=> NoSends) /\ (NoCloses' <=> NoCloses)
      BY <1>4 DEF NoSends, NoCloses
    <2>2. ~NoCloses
      BY <1>2, <1>16 DEF Traffic
    <2> QED
      BY <1>1, <1>2, <1>4, <1>28, <2>1, <2>2, TrafficKept
  <1> QED
    BY <1>1, <1>13, <1>20, <1>21, <1>22, <1>23, <1>24, <1>25, <1>26, <1>27, <1>29, <1>30, BothPeers

(* p reads the reply f of q, and request r is settled.                      *)
Settles(p, q, r, f) ==
    /\ f.t \in {"profile", "ok", "error"} /\ r.msgno = f.msgno
    /\ r.what = (IF f.t = "ok" THEN "close" ELSE "start")
    /\ Settled(p)' /\ Settled(q)'
    /\ Sent(q) # << >> /\ f = Head(Sent(q)) /\ Sent(q)' = Tail(Sent(q)) /\ Sent(p)' = Sent(p)
    /\ Asks(q)' = Asks(q) /\ Says(q)' = Says(q) \ {f} /\ OnceSent(Sent(q))'
    /\ Asks(p)' = Asks(p) /\ Says(p)' = Says(p) /\ OnceSent(Sent(p))'
    /\ \A g \in Says(q) : g.msgno = f.msgno => g = f
    /\ \A s \in pending[p] : s # r => s.msgno # f.msgno
    /\ OnceHeard(events'[p]) /\ OnceHeard(events'[q]) /\ events'[q] = events[q]
    /\ state[p] # "AwaitingGreeting"
    /\ pending'[p] = pending[p] \ {r} /\ pending'[q] = pending[q]
    /\ UNCHANGED <<next_channel, next_msgno, out, ended, calls, draining>>
    /\ wire' \in [Peers -> Seq(Frames)] /\ events' \in [Peers -> Seq(Events)]
    /\ pending' \in [Peers -> SUBSET Requests]
    /\ f.t = "profile" => state' = state /\ channels' = [channels EXCEPT ![p] = @ \cup {r.n}]
    /\ f.t = "ok" => FinishClose(p, r.n)
    /\ f.t = "error" => state' = state /\ channels' = channels

(* A reply answers a request that is pending, which is settled then.       *)
LEMMA Settling ==
    ASSUME SessionInv, NEW p \in Peers, NEW q \in Peers, q = Other(p), p = Other(q), q # p,
           HandleReply(p)
    PROVE  \E r \in pending[p], f \in Says(q) : Settles(p, q, r, f)
  <1>1. /\ TypeOK /\ OnceSent(Sent(p)) /\ OnceSent(Sent(q))
        /\ OnceHeard(events[p]) /\ OnceHeard(events[q]) /\ Settled(p) /\ Settled(q)
    BY DEF SessionInv, Once
  <1>2. PICK f : f = Frame(p)
    OBVIOUS
  <1>3. Receive(p, {"profile", "ok", "error"}) /\ out'[q] = out[q] /\ out' = out
    <2>1. CASE Fail(p, "UnknownMsgNo")
      BY <2>1 DEF HandleReply, Fail
    <2>2. CASE ~Fail(p, "UnknownMsgNo")
      BY <2>2 DEF HandleReply
    <2> QED
      BY <2>1, <2>2
  <1>4. f.t \in {"profile", "ok", "error"}
    BY <1>2, <1>3 DEF Receive, Frame
  <1>27. PICK ts : Receive(p, ts)
    BY <1>3
  <1>5. IsReply(f) /\ f.t # "greeting"
    BY <1>4 DEF IsReply
  <1>6. /\ f \in Frames /\ draining' = draining /\ wire' \in [Peers -> Seq(Frames)]
        /\ Sent(q) # << >> /\ f = Head(Sent(q)) /\ Sent(q)' = Tail(Sent(q))
        /\ OnceSent(Sent(q))'
    BY <1>2, <1>3, <1>27, Receiving
  <1>7. Sent(p)' = Sent(p)
    <2>1. Sent(p)' = wire[p] \o out'[p]
      BY <1>3, <1>27, Receiving
    <2> QED
      BY <1>3, <2>1 DEF Sent
  <1>8. /\ Asks(q)' = Asks(q) /\ Says(q)' = Says(q) \ {f} /\ f \in Says(q)
        /\ \A g \in Says(q) : g.msgno = f.msgno => g = f
    <2>1. f \in Says(q)
      BY <1>2, <1>3, <1>5, <1>27, Receiving
    <2>3. Asks(q)' = Asks(q)
      BY <1>2, <1>3, <1>5, <1>27, Receiving
    <2>4. Says(q)' = Says(q) \ {f}
      <3>1. Says(q)' = Says(q) \ {g \in {f} : IsReply(g)}
        BY <1>1, <1>6, Reading
      <3> QED
        BY <1>5, <3>1
    <2>2. ASSUME NEW g \in Says(q), g.msgno = f.msgno PROVE g = f
      BY <1>2, <1>3, <1>5, <1>27, <2>2, Receiving
    <2> QED
      BY <2>1, <2>2, <2>3, <2>4
  <1>9. state[p] # "AwaitingGreeting"
    <2>1. Frame(p).t # "greeting" => state[p] # "AwaitingGreeting"
      BY <1>3, <1>27, Receiving
    <2> QED
      BY <1>2, <1>5, <2>1
  <1>10. Exact(pending[p], Asks(p), Heard(q), Says(q))
    BY <1>1 DEF Settled
  <1>11. PICK u \in pending[p] : u.msgno = f.msgno /\ u.what = IF f.t = "ok" THEN "close" ELSE "start"
    BY <1>8, <1>10, ItsRequest
  <1>12. Answers(u, f) /\ \A s \in pending[p] : s.msgno = f.msgno => s = u
    BY <1>10, <1>11 DEF Answers, Exact
  <1>13. PICK r \in pending[p] :
           /\ Answers(r, f)
           /\ pending' = [pending EXCEPT ![p] = @ \ {r}]
           /\ CASE f.t = "profile" ->
                     /\ channels' = [channels EXCEPT ![p] = @ \cup {r.n}]
                     /\ Raise(p, [e |-> "ChannelOpened", n |-> r.n])
                     /\ UNCHANGED state
                [] f.t = "ok" ->
                     /\ FinishClose(p, r.n)
                     /\ Raise(p, ClosedEvent(r.n))
                [] f.t = "error" ->
                     /\ Raise(p, [e |-> IF r.what = "start" THEN "StartRefused"
                                        ELSE "CloseRefused", n |-> r.n])
                     /\ UNCHANGED <<state, channels>>
           /\ UNCHANGED <<next_channel, next_msgno, out, ended, calls>>
    BY <1>2, <1>12 DEF HandleReply
  <1>14. r = u
    BY <1>12, <1>13 DEF Answers
  <1>15. r \in Requests /\ r.n \in Numbers
    <2>1. pending[p] \subseteq Requests
      BY <1>1 DEF TypeOK
    <2> QED
      BY <2>1 DEF Requests
  <1>16. PICK w \in {"ChannelOpened", "SessionClosed", "ChannelClosed", "StartRefused"} :
           Raise(p, [e |-> w, n |-> r.n])
    <2>1. CASE f.t = "profile"
      BY <1>13, <2>1
    <2>2. CASE f.t = "ok"
      BY <1>13, <2>2 DEF ClosedEvent
    <2>3. CASE f.t = "error"
      BY <1>11, <1>13, <1>14, <2>3
    <2> QED
      BY <1>4, <2>1, <2>2, <2>3
  <1>17. PICK e \in Events : e = [e |-> w, n |-> r.n] /\ ~IsRequested(e)
    <2>1. [e |-> w, n |-> r.n] \in Events
      BY <1>15 DEF Events
    <2>2. w \notin {"StartRequested", "CloseRequested"}
      OBVIOUS
    <2>3. ~IsRequested([e |-> w, n |-> r.n])
      BY <2>2 DEF IsRequested
    <2> QED
      BY <2>1, <2>3
  <1>18. /\ Heard(p)' = Heard(p) \cup {d \in {e} : IsRequested(d)} /\ Heard(q)' = Heard(q)
         /\ events' \in [Peers -> Seq(Events)] /\ events'[q] = events[q]
         /\ OnceHeard(events'[p])
    BY <1>1, <1>16, <1>17, Raising
  <1>19. Heard(p)' = Heard(p) /\ OnceHeard(events'[q])
    BY <1>1, <1>17, <1>18
  <1>20. /\ Asks(p)' = Asks(p) /\ Says(p)' = Says(p) /\ OnceSent(Sent(p))'
    BY <1>1, <1>7, Resting
  <1>21. /\ pending'[p] = pending[p] \ {r} /\ pending'[q] = pending[q]
         /\ pending' \in [Peers -> SUBSET Requests]
    BY <1>1, <1>13 DEF TypeOK
  <1>22. Settled(p)'
    <2>1. Exact(pending[p] \ {r}, Asks(p), Heard(q), Says(q) \ {f})
      BY <1>8, <1>10, <1>11, <1>14, ExactEnds
    <2> QED
      BY <1>8, <1>18, <1>20, <1>21, <2>1 DEF Settled
  <1>23. Settled(q)'
    BY <1>1, <1>8, <1>19, <1>20, <1>21, SettledKept
  <1>24. /\ f.t = "profile" => state' = state /\ channels' = [channels EXCEPT ![p] = @ \cup {r.n}]
         /\ f.t = "ok" => FinishClose(p, r.n)
         /\ f.t = "error" => state' = state /\ channels' = channels
    BY <1>13
  <1>25. UNCHANGED <<next_channel, next_msgno, out, ended, calls, draining>>
    BY <1>6, <1>13
  <1>26. /\ r.msgno = f.msgno /\ r.what = (IF f.t = "ok" THEN "close" ELSE "start")
         /\ \A s \in pending[p] : s # r => s.msgno # f.msgno
    BY <1>11, <1>12, <1>14
  <1>28. Settles(p, q, r, f)
    BY <1>4, <1>6, <1>7, <1>8, <1>9, <1>18, <1>19, <1>20, <1>21, <1>22, <1>23, <1>24, <1>25, <1>26
       DEF Settles
  <1> QED
    BY <1>8, <1>28

(* What the three kinds of reply have in common.                           *)
LEMMA SettledAll ==
    ASSUME SessionInv, NEW p \in Peers, NEW q \in Peers, q = Other(p), p = Other(q), q # p,
           NEW r \in pending[p], NEW f \in Says(q), Settles(p, q, r, f)
    PROVE  /\ TypeOK' /\ channels'[q] = channels[q] /\ state'[q] = state[q]
           /\ \A m, n : InFront(Sent(q), m, n) => InFront(Sent(q), m, n)'
           /\ \A m, n : InFront(Sent(p), m, n) => InFront(Sent(p), m, n)'
           /\ (NoSends' <=> NoSends) /\ (NoCloses' <=> NoCloses) /\ (f.t = "ok" => ~NoCloses)
           /\ NumbersGiven(p)' /\ NumbersGiven(q)'
           /\ GreetingFirst(p)' /\ GreetingFirst(q)' /\ Traffic(q)'
  <1>1. /\ TypeOK /\ OnceSent(Sent(p)) /\ OnceSent(Sent(q)) /\ NumbersGiven(p) /\ NumbersGiven(q)
        /\ GreetingFirst(p) /\ GreetingFirst(q) /\ Traffic(p) /\ Traffic(q)
    BY DEF SessionInv, Once
  <1>2. r \in Requests /\ r.n \in Numbers /\ r.what \in {"start", "close"}
    <2>1. pending[p] \subseteq Requests
      BY <1>1 DEF TypeOK
    <2> QED
      BY <2>1 DEF Requests
  <1>3. /\ channels' \in [Peers -> SUBSET Numbers] /\ channels'[q] = channels[q]
        /\ state' \in [Peers -> {"AwaitingGreeting", "Ready", "Closed"}] /\ state'[q] = state[q]
        /\ state'[p] # "AwaitingGreeting"
        /\ f.t = "profile" => state' = state /\ channels'[p] = channels[p] \cup {r.n}
        /\ f.t = "ok" => channels'[p] = IF r.n = 0 THEN {} ELSE channels[p] \ {r.n}
        /\ f.t = "error" => state' = state /\ channels' = channels
    <2>0. /\ channels \in [Peers -> SUBSET Numbers] /\ state[p] # "AwaitingGreeting"
          /\ state \in [Peers -> {"AwaitingGreeting", "Ready", "Closed"}]
      BY <1>1 DEF TypeOK, Settles
    <2>1. CASE f.t = "profile"
      <3>1. state' = state /\ channels' = [channels EXCEPT ![p] = @ \cup {r.n}]
        BY <2>1 DEF Settles
      <3> QED
        BY <1>2, <2>0, <2>1, <3>1
    <2>2. CASE f.t = "ok"
      <3>1. FinishClose(p, r.n)
        BY <2>2 DEF Settles
      <3> QED
        BY <1>2, <2>0, <2>2, <3>1 DEF FinishClose
    <2>3. CASE f.t = "error"
      <3>1. state' = state /\ channels' = channels
        BY <2>3 DEF Settles
      <3> QED
        BY <1>2, <2>0, <2>3, <3>1
    <2>4. f.t \in {"profile", "ok", "error"}
      BY DEF Settles
    <2> QED
      BY <2>1, <2>2, <2>3, <2>4
  <1>4. UNCHANGED <<next_channel, next_msgno, out, ended, calls, draining>>
    BY DEF Settles
  <1>5. TypeOK'
    <2>1. /\ wire' \in [Peers -> Seq(Frames)] /\ events' \in [Peers -> Seq(Events)]
          /\ pending' \in [Peers -> SUBSET Requests]
      BY DEF Settles
    <2> QED
      BY <1>1, <1>3, <1>4, <2>1 DEF TypeOK
  <1>6. Sent(p)' = Sent(p) /\ Sent(q) # << >> /\ f = Head(Sent(q)) /\ Sent(q)' = Tail(Sent(q))
    BY DEF Settles
  <1>7. \A m, n : InFront(Sent(q), m, n) => InFront(Sent(q), m, n)'
    BY <1>1, <1>6, Reading
  <1>8. \A m, n : InFront(Sent(p), m, n) => InFront(Sent(p), m, n)'
    BY <1>6, Resting
  <1>9. (NoSends' <=> NoSends) /\ (NoCloses' <=> NoCloses)
    BY <1>4 DEF NoSends, NoCloses
  <1>10. pending'[p] = pending[p] \ {r} /\ pending'[q] = pending[q]
    BY DEF Settles
  <1>11. r.what = IF f.t = "ok" THEN "close" ELSE "start"
    BY DEF Settles
  <1>12. f.t = "ok" => ~NoCloses
    <2>1. SUFFICES ASSUME f.t = "ok", NoCloses PROVE FALSE
      OBVIOUS
    <2>2. \A s \in pending[p] : s.what = "start"
      BY <1>1, <2>1 DEF Traffic
    <2> QED
      BY <1>11, <2>1, <2>2
  <1>13. NumbersGiven(p)'
    <2>1. \A n \in channels'[p] : n \in channels[p] \/ Given(n)
      <3>1. CASE f.t = "profile"
        <4>1. Gave(p, r.n)
          BY <1>1, <1>11, <3>1 DEF NumbersGiven
        <4>2. Given(r.n)
          BY <4>1 DEF Given
        <4> QED
          BY <1>3, <3>1, <4>2
      <3>2. CASE f.t # "profile"
        <4>1. f.t = "ok" \/ f.t = "error"
          BY <3>2 DEF Settles
        <4> QED
          BY <1>3, <4>1
      <3> QED
        BY <3>1, <3>2
    <2>2. next_channel' = next_channel /\ calls'[p].start = calls[p].start
      BY <1>4
    <2> QED
      BY <1>1, <1>10, <2>1, <2>2, NumbersKept
  <1>14. NumbersGiven(q)'
    <2>2. next_channel' = next_channel /\ calls'[q].start = calls[q].start
      BY <1>4
    <2> QED
      BY <1>1, <1>3, <1>10, <2>2, NumbersKept
  <1>15. GreetingFirst(p)'
    <2>1. state[p] # "AwaitingGreeting" /\ ended'[p] = ended[p]
      BY <1>4 DEF Settles
    <2> QED
      BY <1>1, <1>3, <1>6, <2>1, GreetingRead
  <1>16. Grows(p, {})
    BY <1>6 DEF Grows
  <1>17. GreetingFirst(q)'
    <2>1. events'[q] = events[q] /\ ended'[q] = ended[q]
      BY <1>4 DEF Settles
    <2>2. state[q] = "AwaitingGreeting" => events'[q] = << >>
      BY <1>1, <2>1 DEF GreetingFirst
    <2> QED
      BY <1>1, <1>3, <1>16, <2>1, <2>2, GreetingKept
  <1>18. Traffic(q)'
    <2>1. ended'[q] = ended[q]
      BY <1>4
    <2>2. ASSUME NoCloses'
          PROVE  /\ NoCloses /\ state'[q] # "Closed"
                 /\ \A z \in Peers : channels[z] \subseteq channels'[z]
                 /\ pending[q] \subseteq pending'[q]
                 /\ \A s \in pending'[q] : s.what = "start"
      <3>1. NoCloses /\ f.t # "ok"
        BY <1>9, <1>12, <2>2
      <3>2. state[q] # "Closed" /\ \A s \in pending[q] : s.what = "start"
        BY <1>1, <3>1 DEF Traffic
      <3>3. f.t = "profile" \/ f.t = "error"
        BY <3>1 DEF Settles
      <3>4. channels[p] \subseteq channels'[p]
        BY <1>3, <3>3
      <3>5. \A z \in Peers : z = p \/ z = q
        BY TwoPeers
      <3> QED
        BY <1>3, <1>10, <3>1, <3>2, <3>4, <3>5
    <2>3. NoSends' => NoSends
      BY <1>9
    <2>4. {"data", "seq"} \cap {} = {}
      OBVIOUS
    <2> QED
      BY <1>1, <1>16, <2>1, <2>2, <2>3, <2>4, TrafficKept
  <1> QED
    BY <1>3, <1>5, <1>7, <1>8, <1>9, <1>12, <1>13, <1>14, <1>15, <1>17, <1>18

(* Reading a reply. A channel that is opened is open at the other peer; one *)
(* that is closed is gone there; one that is refused was opened by nobody.  *)
LEMMA HandleReplyInv ==
    ASSUME SessionInv, NEW p \in Peers, HandleReply(p)
    PROVE  SessionInv'
  <1>1. PICK q \in Peers : q = Other(p) /\ p = Other(q) /\ q # p
    BY TwoPeers
  <1>2. PICK r \in pending[p], f \in Says(q) : Settles(p, q, r, f)
    BY <1>1, Settling
  <1>3. /\ Settled(p) /\ Settled(q) /\ NumbersGiven(p) /\ NumbersGiven(q) /\ TypeOK
        /\ Starting(p) /\ Starting(q) /\ ClosingOver(p) /\ ClosingOver(q)
        /\ Agreeing(p) /\ Agreeing(q) /\ Traffic(p)
    BY DEF SessionInv
  <1>4. /\ TypeOK' /\ channels'[q] = channels[q] /\ state'[q] = state[q]
        /\ NumbersGiven(p)' /\ NumbersGiven(q)'
        /\ GreetingFirst(p)' /\ GreetingFirst(q)' /\ Traffic(q)'
    BY <1>1, <1>2, SettledAll
  <1>5. /\ \A m, n : InFront(Sent(q), m, n) => InFront(Sent(q), m, n)'
        /\ \A m, n : InFront(Sent(p), m, n) => InFront(Sent(p), m, n)'
    BY <1>1, <1>2, SettledAll
  <1>6. (NoSends' <=> NoSends) /\ (NoCloses' <=> NoCloses) /\ (f.t = "ok" => ~NoCloses)
    BY <1>1, <1>2, SettledAll
  <1>7. /\ f.t \in {"profile", "ok", "error"} /\ r.msgno = f.msgno
        /\ r.what = (IF f.t = "ok" THEN "close" ELSE "start")
        /\ Settled(p)' /\ Settled(q)'
        /\ Sent(q) # << >> /\ f = Head(Sent(q)) /\ Sent(q)' = Tail(Sent(q))
        /\ Asks(q)' = Asks(q) /\ Says(q)' = Says(q) \ {f} /\ OnceSent(Sent(q))'
        /\ Asks(p)' = Asks(p) /\ Says(p)' = Says(p) /\ OnceSent(Sent(p))'
        /\ \A g \in Says(q) : g.msgno = f.msgno => g = f
        /\ \A s \in pending[p] : s # r => s.msgno # f.msgno
        /\ OnceHeard(events'[p]) /\ OnceHeard(events'[q])
        /\ pending'[p] = pending[p] \ {r} /\ pending'[q] = pending[q]
    BY <1>2 DEF Settles
  <1>8. channels \in [Peers -> SUBSET Numbers]
    BY <1>3 DEF TypeOK
  <1>9. /\ f.t = "profile" => state'[p] = state[p] /\ channels'[p] = channels[p] \cup {r.n}
        /\ f.t = "error" => state'[p] = state[p] /\ channels'[p] = channels[p]
    BY <1>2, <1>8 DEF Settles
  <1>10. f.t = "ok" => /\ channels'[p] = (IF r.n = 0 THEN {} ELSE channels[p] \ {r.n})
                       /\ state'[p] = (IF r.n = 0 THEN "Closed" ELSE state[p])
    <2>1. f.t = "ok" => FinishClose(p, r.n)
      BY <1>2 DEF Settles
    <2>2. state \in [Peers -> {"AwaitingGreeting", "Ready", "Closed"}]
      BY <1>3 DEF TypeOK
    <2> QED
      BY <1>8, <2>1, <2>2 DEF FinishClose
  <1>11. ended' = ended
    BY <1>2 DEF Settles
  <1>12. f.t = "profile" =>
           /\ r.n \notin channels[p] /\ (r.n \in channels[q] \/ state[q] = "Closed")
           /\ \A s \in pending[q] : s.n = r.n => s.msgno \in Nos(Asks(q))
    <2>1. SUFFICES ASSUME f.t = "profile"
                   PROVE  /\ r.n \notin channels[p] /\ (r.n \in channels[q] \/ state[q] = "Closed")
                          /\ \A s \in pending[q] : s.n = r.n => s.msgno \in Nos(Asks(q))
      OBVIOUS
    <2>2. Unopened(p, r.msgno, r.n)
      BY <1>3, <1>7, <2>1 DEF Starting
    <2>3. Agreed(p, r.msgno)
      BY <1>1, <1>7, <2>1 DEF Agreed
    <2> QED
      BY <1>1, <2>2, <2>3 DEF Unopened
  <1>13. f.t = "error" => /\ ~Agreed(p, r.msgno) /\ r.n \notin channels[p] /\ r.n \notin channels[q]
                          /\ \A s \in pending[q] : s.n # r.n
    <2>1. SUFFICES ASSUME f.t = "error"
                   PROVE  /\ ~Agreed(p, r.msgno) /\ r.n \notin channels[p] /\ r.n \notin channels[q]
                          /\ \A s \in pending[q] : s.n # r.n
      OBVIOUS
    <2>2. Unopened(p, r.msgno, r.n)
      BY <1>3, <1>7, <2>1 DEF Starting
    <2>3. ~Agreed(p, r.msgno)
      BY <1>1, <1>7, <2>1 DEF Agreed
    <2> QED
      BY <1>1, <2>2, <2>3 DEF Unopened
  <1>14. f.t = "ok" => r.n \notin channels[q] /\ (r.n = 0 => state[q] = "Closed")
    BY <1>1, <1>3, <1>7 DEF ClosingOver
  <1>15. r.msgno \notin Nos(Asks(p))
    <2>1. r.msgno \in Nos(Says(q))
      BY <1>7 DEF Nos
    <2> QED
      BY <1>1, <1>3, <2>1 DEF Settled, Exact
  <1>16. Starting(p)'
    <2>1. SUFFICES ASSUME NEW s \in pending[p], s # r, s.what = "start"
                   PROVE  Unopened(p, s.msgno, s.n)'
      BY <1>7 DEF Starting
    <2>2. Unopened(p, s.msgno, s.n) /\ s.n \notin channels[p]
      BY <1>3, <2>1 DEF Starting, Unopened
    <2>3. s.n # r.n
      BY <1>3, <2>1 DEF NumbersGiven
    <2>4. s.n \notin channels'[p]
      BY <1>7, <1>9, <1>10, <2>2, <2>3
    <2>5. Agreed(p, s.msgno)' <=> Agreed(p, s.msgno)
      BY <1>1, <1>7, <2>1 DEF Agreed
    <2> QED
      BY <1>1, <1>4, <1>5, <1>7, <2>2, <2>4, <2>5, UnopenedKept
  <1>17. Starting(q)'
    <2>1. SUFFICES ASSUME NEW s \in pending[q], s.what = "start"
                   PROVE  Unopened(q, s.msgno, s.n)'
      BY <1>7 DEF Starting
    <2>2. Unopened(q, s.msgno, s.n) /\ s.n \notin channels'[q]
      BY <1>3, <1>4, <2>1 DEF Starting, Unopened
    <2>3. Agreed(q, s.msgno)' <=> Agreed(q, s.msgno)
      BY <1>1, <1>7, AgreedKept
    <2>4. Agreed(q, s.msgno) /\ (s.n \in channels[p] \/ state[p] = "Closed")
             => s.n \in channels'[p] \/ state'[p] = "Closed"
      <3>1. CASE f.t = "ok" /\ Agreed(q, s.msgno)
        <4>1. r.n = s.n => r.msgno \in Nos(Asks(p))
          BY <1>1, <2>2, <3>1 DEF Unopened
        <4>2. r.n # s.n
          BY <1>15, <4>1
        <4> QED
          BY <1>10, <3>1, <4>2
      <3>2. CASE f.t # "ok"
        BY <1>7, <1>9, <3>2
      <3> QED
        BY <3>1, <3>2
    <2>5. ~Agreed(q, s.msgno) /\ s.n \notin channels[p] => s.n \notin channels'[p]
      <3>1. CASE f.t = "profile"
        <4>1. Gave(p, r.n) /\ Gave(q, s.n)
          BY <1>3, <1>7, <2>1, <3>1 DEF NumbersGiven
        <4>2. s.n # r.n
          BY <1>1, <4>1, GivenByOne
        <4> QED
          BY <1>9, <3>1, <4>2
      <3>2. CASE f.t # "profile"
        BY <1>7, <1>9, <1>10, <3>2
      <3> QED
        BY <3>1, <3>2
    <2>6. pending'[p] \subseteq pending[p]
      BY <1>7
    <2> QED
      BY <1>1, <1>5, <1>7, <2>2, <2>3, <2>4, <2>5, <2>6, UnopenedKept
  <1>18. ClosingOver(p)'
    BY <1>1, <1>3, <1>4, <1>7, ClosingKept
  <1>19. ClosingOver(q)'
    <2>1. SUFFICES ASSUME NEW s \in pending[q], NEW g \in Says(p), g.t = "ok", g.msgno = s.msgno
                   PROVE  s.n \notin channels'[p] /\ (s.n = 0 => state'[p] = "Closed")
      BY <1>1, <1>7 DEF ClosingOver
    <2>2. s.n \notin channels[p] /\ (s.n = 0 => state[p] = "Closed")
      BY <1>1, <1>3, <2>1 DEF ClosingOver
    <2>3. CASE f.t = "profile"
      <3>1. s.msgno \in Nos(Says(p))
        BY <2>1 DEF Nos
      <3>2. s.msgno \notin Nos(Asks(q))
        BY <1>1, <1>3, <3>1 DEF Settled, Exact
      <3>3. s.n # r.n
        BY <1>12, <2>3, <3>2
      <3> QED
        BY <1>9, <2>2, <2>3, <3>3
    <2>4. CASE f.t # "profile"
      BY <1>7, <1>9, <1>10, <2>2, <2>4
    <2> QED
      BY <2>3, <2>4
  <1>20. Agreeing(p)'
    <2>1. SUFFICES ASSUME NEW n \in channels'[p]
                   PROVE  \/ n \in channels[q] \/ state[q] = "Closed"
                          \/ \E s \in (pending[p] \ {r}) \cup pending[q] : s.n = n
      BY <1>1, <1>4, <1>7 DEF Agreeing
    <2>2. CASE n \in channels[p] /\ n # r.n
      <3>1. \/ n \in channels[q] \/ state[q] = "Closed"
            \/ \E s \in pending[p] \cup pending[q] : s.n = n
        BY <1>1, <1>3, <2>2 DEF Agreeing
      <3> QED
        BY <2>2, <3>1
    <2>3. CASE n \notin channels[p]
      <3>1. f.t = "profile" /\ n = r.n
        BY <1>7, <1>9, <1>10, <2>1, <2>3
      <3> QED
        BY <1>12, <3>1
    <2>4. CASE n \in channels[p] /\ n = r.n
      BY <1>7, <1>10, <1>12, <1>13, <2>1, <2>4
    <2> QED
      BY <2>2, <2>3, <2>4
  <1>21. Agreeing(q)'
    <2>1. SUFFICES ASSUME NEW n \in channels[q]
                   PROVE  \/ n \in channels'[p] \/ state'[p] = "Closed"
                          \/ \E s \in pending[q] \cup (pending[p] \ {r}) : s.n = n
      BY <1>1, <1>4, <1>7 DEF Agreeing
    <2>2. \/ n \in channels[p] \/ state[p] = "Closed"
          \/ \E s \in pending[q] \cup pending[p] : s.n = n
      BY <1>1, <1>3, <2>1 DEF Agreeing
    <2>3. CASE n = r.n
      <3>1. f.t = "profile"
        BY <1>7, <1>13, <1>14, <2>1, <2>3
      <3> QED
        BY <1>9, <2>3, <3>1
    <2>4. CASE n # r.n
      <3>1. n \in channels[p] \/ state[p] = "Closed" => n \in channels'[p] \/ state'[p] = "Closed"
        BY <1>7, <1>9, <1>10, <2>4
      <3> QED
        BY <2>2, <2>4, <3>1
    <2> QED
      BY <2>3, <2>4
  <1>22. Traffic(p)'
    <2>1. ASSUME NoCloses'
          PROVE  /\ NoCloses /\ state'[p] # "Closed"
                 /\ \A z \in Peers : channels[z] \subseteq channels'[z]
                 /\ \A s \in pending'[p] : s.what = "start"
                 /\ \A s \in pending[p] :
                      /\ s \in pending'[p] \/ s.n \in channels'[p] \/ ~Agreed(p, s.msgno)
                      /\ f.t = "profile" /\ f.msgno = s.msgno => s.n \in channels'[p]
      <3>1. NoCloses /\ (f.t = "profile" \/ f.t = "error")
        BY <1>6, <1>7, <2>1
      <3>2. state[p] # "Closed" /\ \A s \in pending[p] : s.what = "start"
        BY <1>3, <3>1 DEF Traffic
      <3>3. state'[p] # "Closed" /\ channels[p] \subseteq channels'[p]
        BY <1>9, <3>1, <3>2
      <3>4. \A z \in Peers : z = p \/ z = q
        BY <1>1, TwoPeers
      <3>5. \A z \in Peers : channels[z] \subseteq channels'[z]
        BY <1>4, <3>3, <3>4
      <3>6. ASSUME NEW s \in pending[p]
            PROVE  /\ s \in pending'[p] \/ s.n \in channels'[p] \/ ~Agreed(p, s.msgno)
                   /\ f.t = "profile" /\ f.msgno = s.msgno => s.n \in channels'[p]
        <4>1. CASE s = r
          BY <1>9, <1>13, <3>1, <4>1
        <4>2. CASE s # r
          BY <1>7, <4>2
        <4> QED
          BY <4>1, <4>2
      <3> QED
        BY <1>7, <3>1, <3>2, <3>3, <3>5, <3>6
    <2>2. NoSends' => NoSends
      BY <1>6
    <2>3. NoSends' \/ NoCloses' => ended'[p] # "NoSuchChannel"
      BY <1>3, <1>6, <1>11 DEF Traffic
    <2> QED
      BY <1>1, <1>3, <1>7, <2>1, <2>2, <2>3, TrafficRead
  <1> QED
    BY <1>1, <1>4, <1>7, <1>16, <1>17, <1>18, <1>19, <1>20, <1>21, <1>22, BothPeers

(* A greeting, cut or not.                                                 *)
LEMMA Greetings ==
    ASSUME NEW p \in Peers
    PROVE  /\ Greeting(p) \in Seq(Frames) /\ Greeting(p) # << >> /\ Len(Greeting(p)) \in Nat
           /\ \A i \in 1 .. Len(Greeting(p)) : Greeting(p)[i].t = "greeting"
           /\ Greeting(p)[1].more = (p \in BigGreeting)
           /\ p \notin BigGreeting => Len(Greeting(p)) = 1
  <1>1. [t |-> "greeting", more |-> TRUE] \in Frames /\ [t |-> "greeting", more |-> FALSE] \in Frames
    BY DEF Frames
  <1>2. CASE p \in BigGreeting
    <2>1. Greeting(p) = <<[t |-> "greeting", more |-> TRUE], [t |-> "greeting", more |-> FALSE]>>
      BY <1>2 DEF Greeting
    <2>2. Len(Greeting(p)) = 2 /\ Greeting(p) \in Seq(Frames)
      BY <1>1, <2>1
    <2>3. /\ Greeting(p)[1] = [t |-> "greeting", more |-> TRUE]
          /\ Greeting(p)[2] = [t |-> "greeting", more |-> FALSE]
      BY <2>1
    <2>4. \A i \in 1 .. 2 : i = 1 \/ i = 2
      OBVIOUS
    <2>5. Greeting(p)[1].t = "greeting" /\ Greeting(p)[2].t = "greeting" /\ Greeting(p)[1].more = TRUE
      BY <2>3
    <2>6. \A i \in 1 .. Len(Greeting(p)) : Greeting(p)[i].t = "greeting"
      BY <2>2, <2>4, <2>5
    <2>7. Greeting(p) # << >>
      BY <2>1
    <2>8. (p \in BigGreeting) = TRUE
      BY <1>2
    <2>9. Greeting(p)[1].more = (p \in BigGreeting)
      BY <2>5, <2>8, Zenon
    <2> QED
      BY <1>2, <2>2, <2>6, <2>7, <2>9
  <1>3. CASE p \notin BigGreeting
    <2>1. Greeting(p) = <<[t |-> "greeting", more |-> FALSE]>>
      BY <1>3 DEF Greeting
    <2>2. Len(Greeting(p)) = 1 /\ Greeting(p) \in Seq(Frames)
      BY <1>1, <2>1
    <2>3. Greeting(p)[1] = [t |-> "greeting", more |-> FALSE]
      BY <2>1
    <2>4. \A i \in 1 .. 1 : i = 1
      OBVIOUS
    <2>5. Greeting(p)[1].t = "greeting" /\ Greeting(p)[1].more = FALSE
      BY <2>3
    <2>6. \A i \in 1 .. Len(Greeting(p)) : Greeting(p)[i].t = "greeting"
      BY <2>2, <2>4, <2>5
    <2>7. Greeting(p) # << >>
      BY <2>1
    <2>8. (p \in BigGreeting) = FALSE
      BY <1>3
    <2>9. Greeting(p)[1].more = (p \in BigGreeting)
      BY <2>5, <2>8, Zenon
    <2> QED
      BY <1>3, <2>2, <2>6, <2>7, <2>9
  <1> QED
    BY <1>2, <1>3

(* Two new sessions: each has queued its greeting and nothing else.        *)
LEMMA InitInv ==
    ASSUME Init
    PROVE  SessionInv
  <1>1. TypeOK
    <2>1. next_channel \in [Peers -> Numbers]
      <3>1. \A p \in Peers : FirstChannel(p) \in Numbers
        BY SessionAssumption DEF FirstChannel, Numbers
      <3> QED
        BY <3>1 DEF Init
    <2>2. next_msgno \in [Peers -> MsgNos]
      BY SessionAssumption DEF Init, MsgNos
    <2>3. out \in [Peers -> Seq(Frames)]
      BY Greetings DEF Init
    <2>4. calls \in [Peers -> [start : 0 .. MaxStarts, close : 0 .. MaxCloses,
                               send : 0 .. MaxSends]]
      <3>1. 0 \in 0 .. MaxStarts /\ 0 \in 0 .. MaxCloses /\ 0 \in 0 .. MaxSends
        BY SessionAssumption
      <3> QED
        BY <3>1 DEF Init
    <2>5. wire \in [Peers -> Seq(Frames)] /\ events \in [Peers -> Seq(Events)]
      BY DEF Init
    <2>6. ended \in [Peers -> {"running", "closed", "eof", "Io", "dropped"} \cup ProtocolErrors]
      BY DEF Init
    <2>7. /\ state \in [Peers -> {"AwaitingGreeting", "Ready", "Closed"}]
          /\ channels \in [Peers -> SUBSET Numbers] /\ pending \in [Peers -> SUBSET Requests]
          /\ draining \in [Peers -> BOOLEAN]
      BY DEF Init
    <2> QED
      BY <2>1, <2>2, <2>3, <2>4, <2>5, <2>6, <2>7 DEF TypeOK
  <1>2. ASSUME NEW p \in Peers
        PROVE  /\ Sent(p) = Greeting(p) /\ events[p] = << >> /\ pending[p] = {} /\ channels[p] = {}
               /\ state[p] = "AwaitingGreeting" /\ ended[p] = "running"
               /\ next_channel[p] = FirstChannel(p) /\ calls[p].start = 0
    <2>1. wire[p] = << >> /\ out[p] = Greeting(p)
      BY DEF Init
    <2>2. << >> \o Greeting(p) = Greeting(p)
      BY Greetings
    <2> QED
      BY <2>1, <2>2 DEF Sent, Init
  <1>3. ASSUME NEW p \in Peers
        PROVE  /\ \A i \in 1 .. Len(Sent(p)) : Sent(p)[i].t = "greeting"
               /\ Asks(p) = {} /\ Says(p) = {} /\ Heard(p) = {}
               /\ OnceSent(Sent(p)) /\ OnceHeard(events[p])
    <2>1. \A i \in 1 .. Len(Sent(p)) : Sent(p)[i].t = "greeting"
      BY <1>2, Greetings
    <2>2. \A i \in 1 .. Len(Sent(p)) : ~IsRequest(Sent(p)[i]) /\ ~IsReply(Sent(p)[i])
      BY <2>1 DEF IsRequest, IsReply
    <2>3. Asks(p) = {} /\ Says(p) = {} /\ OnceSent(Sent(p))
      BY <2>2 DEF Asks, Says, Members, OnceSent
    <2>4. Len(events[p]) = 0
      BY <1>2
    <2>5. 1 .. Len(events[p]) = {}
      BY <2>4
    <2>6. Heard(p) = {} /\ OnceHeard(events[p])
      BY <2>5 DEF Heard, Members, OnceHeard
    <2> QED
      BY <2>1, <2>3, <2>6
  <1>4. Once
    BY <1>3 DEF Once
  <1>5. ASSUME NEW p \in Peers
        PROVE  /\ Settled(p) /\ NumbersGiven(p) /\ Starting(p) /\ ClosingOver(p)
               /\ Agreeing(p) /\ GreetingFirst(p) /\ Traffic(p)
    <2>1. PICK q \in Peers : q = Other(p)
      BY TwoPeers
    <2>2. Settled(p)
      <3>1. Nos({}) = {}
        BY DEF Nos
      <3>2. Exact({}, {}, {}, {})
        BY <3>1 DEF Exact
      <3> QED
        BY <1>2, <1>3, <2>1, <3>2 DEF Settled
    <2>3. NumbersGiven(p)
      <3>1. FirstChannel(p) \in Nat
        BY DEF FirstChannel
      <3> QED
        BY <1>2, <3>1 DEF NumbersGiven
    <2>4. Starting(p) /\ ClosingOver(p) /\ Agreeing(p)
      BY <1>2 DEF Starting, ClosingOver, Agreeing
    <2>5. GreetingFirst(p)
      <3>1. /\ Sent(q) # << >> /\ Sent(q)[1].more = (q \in BigGreeting)
            /\ q \notin BigGreeting => Len(Sent(q)) = 1
            /\ Len(Sent(q)) \in Nat
        BY <1>2, Greetings
      <3>2. Sent(q)[1].t = "greeting"
        <4>1. 1 \in 1 .. Len(Sent(q))
          <5>1. Sent(q) \in Seq(Frames)
            BY <1>2, Greetings
          <5> QED
            BY <3>1, <5>1, AtFront
        <4> QED
          BY <1>3, <4>1
      <3>3. q \notin BigGreeting => \A i \in 2 .. Len(Sent(q)) : Sent(q)[i].t # "greeting"
        <4>1. Len(Sent(q)) = 1 => 2 .. Len(Sent(q)) = {}
          OBVIOUS
        <4> QED
          BY <3>1, <4>1
      <3> QED
        BY <1>2, <2>1, <3>1, <3>2, <3>3 DEF GreetingFirst
    <2>6. Traffic(p)
      <3>1. \A j \in 1 .. Len(Sent(q)) : ~IsTraffic(Sent(q)[j])
        BY <1>3 DEF IsTraffic
      <3> QED
        BY <1>2, <2>1, <3>1 DEF Traffic
    <2> QED
      BY <2>2, <2>3, <2>4, <2>5, <2>6
  <1> QED
    BY <1>1, <1>4, <1>5 DEF SessionInv

(* Every step of either peer keeps the invariant.                          *)
LEMMA NextInv ==
    ASSUME SessionInv, [Next]_vars
    PROVE  SessionInv'
  <1>1. CASE Next
    <2>1. PICK p \in Peers : Handle(p) \/ Pump(p) \/ Command(p)
      BY <1>1 DEF Next
    <2>2. CASE AcceptStart(p)
      BY <2>2, AcceptStartInv
    <2>3. CASE RefuseStart(p)
      BY <2>3, RefuseStartInv
    <2>4. CASE AcceptClose(p)
      BY <2>4, AcceptCloseInv
    <2>5. CASE Report(p)
      BY <2>5, ReportInv
    <2>6. CASE HandleGreeting(p)
      BY <2>6, HandleGreetingInv
    <2>7. CASE HandleRequest(p)
      BY <2>7, HandleRequestInv
    <2>8. CASE HandleReply(p)
      BY <2>8, HandleReplyInv
    <2>9. CASE HandleData(p)
      BY <2>9, HandleDataInv
    <2>10. CASE HandleSeq(p)
      BY <2>10, HandleSeqInv
    <2>11. CASE Write(p)
      BY <2>11, WriteInv
    <2>12. CASE PumpClosed(p) \/ PumpEof(p) \/ PumpBroken(p) \/ PumpDropped(p)
      BY <2>12, EndInv
    <2>13. CASE StartChannel(p) \/ \E n \in Numbers : CloseChannel(p, n)
      BY <2>13, CommandInv
    <2>14. CASE \E n \in Numbers : Send(p, n)
      BY <2>14, SendInv
    <2>15. CASE StartExhausted(p)
      BY <2>15, StartExhaustedInv
    <2> QED
      BY <2>1, <2>2, <2>3, <2>4, <2>5, <2>6, <2>7, <2>8, <2>9, <2>10, <2>11, <2>12, <2>13, <2>14,
         <2>15 DEF Handle, Pump, Command
  <1>2. CASE UNCHANGED vars
    <2>1. UNCHANGED <<state, channels, pending, next_channel, next_msgno, calls>>
      BY <1>2 DEF vars, session
    <2>2. UNCHANGED <<events, draining, out, wire, ended>>
      BY <1>2 DEF vars
    <2>3. TypeOK /\ Once /\ \A x \in Peers : GreetingFirst(x)
      BY DEF SessionInv
    <2>4. TypeOK'
      BY <2>1, <2>2, <2>3 DEF TypeOK
    <2>5. ASSUME NEW x \in Peers
          PROVE  /\ Sent(x)' = Sent(x) /\ Heard(x)' = Heard(x) /\ OnceHeard(events[x])'
                 /\ state[x] = "AwaitingGreeting" => events'[x] = << >>
                 /\ ended'[x] = ended[x]
      <3>1. events'[x] = events[x] /\ ended'[x] = ended[x]
        BY <2>2
      <3>2. OnceHeard(events[x])'
        BY <2>3, <3>1 DEF Once, OnceHeard
      <3>3. Sent(x)' = Sent(x) /\ Heard(x)' = Heard(x)
        BY <2>2 DEF Sent, Heard
      <3>4. state[x] = "AwaitingGreeting" => events[x] = << >>
        BY <2>3 DEF GreetingFirst
      <3> QED
        BY <3>1, <3>2, <3>3, <3>4
    <2> QED
      BY <2>1, <2>4, <2>5, Still
  <1> QED
    BY <1>1, <1>2

-----------------------------------------------------------------------------
(* What follows from the invariant.                                        *)

(* The three kinds of step a request goes through.                         *)
LEMMA StepsOf ==
    /\ \A i, x, r : Concerns(<<"reply", i, x>>, r) <=> x.msgno = r.msgno /\ Answers(r, x)
    /\ \A i, x, r : Concerns(<<"waiting", i, x>>, r) <=>
                      x.msgno = r.msgno /\ x.e = Requested(r.what) /\ x.n = r.n
    /\ \A i, x, r : Concerns(<<"request", i, x>>, r) <=>
                      x.msgno = r.msgno /\ x.t = r.what /\ x.n = r.n
  <1>1. \A w, i, x : <<w, i, x>>[1] = w /\ <<w, i, x>>[3] = x
    OBVIOUS
  <1>2. ASSUME NEW i, NEW x, NEW r
        PROVE  Concerns(<<"reply", i, x>>, r) <=> x.msgno = r.msgno /\ Answers(r, x)
    BY <1>1 DEF Concerns
  <1>3. ASSUME NEW i, NEW x, NEW r
        PROVE  Concerns(<<"waiting", i, x>>, r) <=>
                 x.msgno = r.msgno /\ x.e = Requested(r.what) /\ x.n = r.n
    BY <1>1 DEF Concerns
  <1>4. ASSUME NEW i, NEW x, NEW r
        PROVE  Concerns(<<"request", i, x>>, r) <=>
                 x.msgno = r.msgno /\ x.t = r.what /\ x.n = r.n
    BY <1>1 DEF Concerns
  <1> QED
    BY <1>2, <1>3, <1>4

(* What is on the way of a request, and where.                             *)
LEMMA OnTheWay ==
    ASSUME NEW p \in Peers, NEW q, q = Other(p)
    PROVE  /\ \A step \in Trip(p) :
                \/ \E i \in 1 .. Len(Sent(q)) :
                     IsReply(Sent(q)[i]) /\ step = <<"reply", i, Sent(q)[i]>>
                \/ \E i \in 1 .. Len(events[q]) :
                     IsRequested(events[q][i]) /\ step = <<"waiting", i, events[q][i]>>
                \/ \E i \in 1 .. Len(Sent(p)) :
                     IsRequest(Sent(p)[i]) /\ step = <<"request", i, Sent(p)[i]>>
           /\ \A i \in 1 .. Len(Sent(q)) :
                IsReply(Sent(q)[i]) => <<"reply", i, Sent(q)[i]>> \in Trip(p)
           /\ \A i \in 1 .. Len(events[q]) :
                IsRequested(events[q][i]) => <<"waiting", i, events[q][i]>> \in Trip(p)
           /\ \A i \in 1 .. Len(Sent(p)) :
                IsRequest(Sent(p)[i]) => <<"request", i, Sent(p)[i]>> \in Trip(p)
  BY Zenon DEF Trip

(* Every pending request is in one place, and nothing else is under way.   *)
LEMMA Tracked ==
    ASSUME SessionInv
    PROVE  RequestsTracked
  <1>1. SUFFICES ASSUME NEW p \in Peers
                 PROVE  /\ \A step \in Trip(p) : \E r \in pending[p] : Concerns(step, r)
                        /\ \A r \in pending[p] : \E step \in Trip(p) :
                             \A other \in Trip(p) : Concerns(other, r) <=> other = step
    BY DEF RequestsTracked
  <1>2. PICK q \in Peers : q = Other(p)
    BY TwoPeers
  <1>3. /\ Exact(pending[p], Asks(p), Heard(q), Says(q))
        /\ OnceSent(Sent(p)) /\ OnceSent(Sent(q)) /\ OnceHeard(events[q])
    BY <1>2 DEF SessionInv, Settled, Once
  <1>4. /\ \A i \in 1 .. Len(Sent(q)) : IsReply(Sent(q)[i]) => Sent(q)[i] \in Says(q)
        /\ \A i \in 1 .. Len(events[q]) : IsRequested(events[q][i]) => events[q][i] \in Heard(q)
        /\ \A i \in 1 .. Len(Sent(p)) : IsRequest(Sent(p)[i]) => Sent(p)[i] \in Asks(p)
    BY DEF Says, Heard, Asks, Members
  <1>5. ASSUME NEW step \in Trip(p) PROVE \E r \in pending[p] : Concerns(step, r)
    <2>1. CASE \E i \in 1 .. Len(Sent(q)) :
                 IsReply(Sent(q)[i]) /\ step = <<"reply", i, Sent(q)[i]>>
      <3>1. PICK i \in 1 .. Len(Sent(q)) : IsReply(Sent(q)[i]) /\ step = <<"reply", i, Sent(q)[i]>>
        BY <2>1
      <3>2. PICK r \in pending[p] : /\ r.msgno = Sent(q)[i].msgno
                                    /\ r.what = (IF Sent(q)[i].t = "ok" THEN "close" ELSE "start")
        BY <1>3, <1>4, <3>1, ItsRequest
      <3>3. Answers(r, Sent(q)[i])
        BY <3>2 DEF Answers
      <3> QED
        BY <3>1, <3>2, <3>3, StepsOf
    <2>2. CASE \E i \in 1 .. Len(events[q]) :
                 IsRequested(events[q][i]) /\ step = <<"waiting", i, events[q][i]>>
      <3>1. PICK i \in 1 .. Len(events[q]) :
              IsRequested(events[q][i]) /\ step = <<"waiting", i, events[q][i]>>
        BY <2>2
      <3>2. PICK r \in pending[p] : /\ r.msgno = events[q][i].msgno
                                    /\ events[q][i].e = Requested(r.what) /\ events[q][i].n = r.n
        BY <1>3, <1>4, <3>1, ItsRequest
      <3> QED
        BY <3>1, <3>2, StepsOf
    <2>3. CASE \E i \in 1 .. Len(Sent(p)) :
                 IsRequest(Sent(p)[i]) /\ step = <<"request", i, Sent(p)[i]>>
      <3>1. PICK i \in 1 .. Len(Sent(p)) :
              IsRequest(Sent(p)[i]) /\ step = <<"request", i, Sent(p)[i]>>
        BY <2>3
      <3>2. PICK r \in pending[p] : /\ r.msgno = Sent(p)[i].msgno
                                    /\ Sent(p)[i].t = r.what /\ Sent(p)[i].n = r.n
        BY <1>3, <1>4, <3>1, ItsRequest
      <3> QED
        BY <3>1, <3>2, StepsOf
    <2> QED
      BY <1>2, <2>1, <2>2, <2>3, OnTheWay
  <1>6. ASSUME NEW r \in pending[p]
        PROVE  \E step \in Trip(p) : \A other \in Trip(p) : Concerns(other, r) <=> other = step
    <2>1. r.msgno \in Nos(Asks(p)) \cup Nos(Heard(q)) \cup Nos(Says(q))
      <3>1. r.msgno \in Nos(pending[p])
        BY DEF Nos
      <3> QED
        BY <1>3, <3>1 DEF Exact
    <2>2. /\ Nos(Asks(p)) \cap Nos(Heard(q)) = {}
          /\ (Nos(Asks(p)) \cup Nos(Heard(q))) \cap Nos(Says(q)) = {}
      BY <1>3 DEF Exact
    <2>3. ASSUME NEW i \in 1 .. Len(Sent(q)), IsReply(Sent(q)[i])
          PROVE  Sent(q)[i].msgno \in Nos(Says(q))
      BY <1>4, <2>3 DEF Nos
    <2>4. ASSUME NEW i \in 1 .. Len(events[q]), IsRequested(events[q][i])
          PROVE  events[q][i].msgno \in Nos(Heard(q))
      BY <1>4, <2>4 DEF Nos
    <2>5. ASSUME NEW i \in 1 .. Len(Sent(p)), IsRequest(Sent(p)[i])
          PROVE  Sent(p)[i].msgno \in Nos(Asks(p))
      BY <1>4, <2>5 DEF Nos
    <2>6. CASE r.msgno \in Nos(Says(q))
      <3>1. PICK i \in 1 .. Len(Sent(q)) : IsReply(Sent(q)[i]) /\ Sent(q)[i].msgno = r.msgno
        BY <2>6 DEF Nos, Says, Members
      <3>2. Answers(r, Sent(q)[i])
        <4>1. r.what = IF Sent(q)[i].t = "ok" THEN "close" ELSE "start"
          BY <1>3, <1>4, <3>1 DEF Exact
        <4> QED
          BY <3>1, <4>1 DEF Answers
      <3>3. Concerns(<<"reply", i, Sent(q)[i]>>, r) /\ <<"reply", i, Sent(q)[i]>> \in Trip(p)
        BY <1>2, <3>1, <3>2, StepsOf, OnTheWay
      <3>4. ASSUME NEW other \in Trip(p), Concerns(other, r)
            PROVE  other = <<"reply", i, Sent(q)[i]>>
        <4>1. ASSUME NEW j \in 1 .. Len(Sent(q)), IsReply(Sent(q)[j]),
                     other = <<"reply", j, Sent(q)[j]>>
              PROVE  other = <<"reply", i, Sent(q)[i]>>
          <5>1. Sent(q)[j].msgno = r.msgno
            BY <3>4, <4>1, StepsOf
          <5>2. i = j
            BY <1>3, <3>1, <4>1, <5>1 DEF OnceSent
          <5> QED
            BY <4>1, <5>2
        <4>2. ASSUME NEW j \in 1 .. Len(events[q]), IsRequested(events[q][j]),
                     other = <<"waiting", j, events[q][j]>>
              PROVE  FALSE
          BY <2>2, <2>4, <2>6, <3>4, <4>2, StepsOf
        <4>3. ASSUME NEW j \in 1 .. Len(Sent(p)), IsRequest(Sent(p)[j]),
                     other = <<"request", j, Sent(p)[j]>>
              PROVE  FALSE
          BY <2>2, <2>5, <2>6, <3>4, <4>3, StepsOf
        <4> QED
          BY <1>2, <4>1, <4>2, <4>3, OnTheWay
      <3> QED
        BY <3>3, <3>4
    <2>7. CASE r.msgno \in Nos(Heard(q))
      <3>1. PICK i \in 1 .. Len(events[q]) : IsRequested(events[q][i]) /\ events[q][i].msgno = r.msgno
        BY <2>7 DEF Nos, Heard, Members
      <3>2. events[q][i].e = Requested(r.what) /\ events[q][i].n = r.n
        BY <1>3, <1>4, <3>1 DEF Exact
      <3>3. /\ Concerns(<<"waiting", i, events[q][i]>>, r)
            /\ <<"waiting", i, events[q][i]>> \in Trip(p)
        BY <1>2, <3>1, <3>2, StepsOf, OnTheWay
      <3>4. ASSUME NEW other \in Trip(p), Concerns(other, r)
            PROVE  other = <<"waiting", i, events[q][i]>>
        <4>1. ASSUME NEW j \in 1 .. Len(Sent(q)), IsReply(Sent(q)[j]),
                     other = <<"reply", j, Sent(q)[j]>>
              PROVE  FALSE
          BY <2>2, <2>3, <2>7, <3>4, <4>1, StepsOf
        <4>2. ASSUME NEW j \in 1 .. Len(events[q]), IsRequested(events[q][j]),
                     other = <<"waiting", j, events[q][j]>>
              PROVE  other = <<"waiting", i, events[q][i]>>
          <5>1. events[q][j].msgno = r.msgno
            BY <3>4, <4>2, StepsOf
          <5>2. i = j
            BY <1>3, <3>1, <4>2, <5>1 DEF OnceHeard
          <5> QED
            BY <4>2, <5>2
        <4>3. ASSUME NEW j \in 1 .. Len(Sent(p)), IsRequest(Sent(p)[j]),
                     other = <<"request", j, Sent(p)[j]>>
              PROVE  FALSE
          BY <2>2, <2>5, <2>7, <3>4, <4>3, StepsOf
        <4> QED
          BY <1>2, <4>1, <4>2, <4>3, OnTheWay
      <3> QED
        BY <3>3, <3>4
    <2>8. CASE r.msgno \in Nos(Asks(p))
      <3>1. PICK i \in 1 .. Len(Sent(p)) : IsRequest(Sent(p)[i]) /\ Sent(p)[i].msgno = r.msgno
        BY <2>8 DEF Nos, Asks, Members
      <3>2. Sent(p)[i].t = r.what /\ Sent(p)[i].n = r.n
        BY <1>3, <1>4, <3>1 DEF Exact
      <3>3. Concerns(<<"request", i, Sent(p)[i]>>, r) /\ <<"request", i, Sent(p)[i]>> \in Trip(p)
        BY <1>2, <3>1, <3>2, StepsOf, OnTheWay
      <3>4. ASSUME NEW other \in Trip(p), Concerns(other, r)
            PROVE  other = <<"request", i, Sent(p)[i]>>
        <4>1. ASSUME NEW j \in 1 .. Len(Sent(q)), IsReply(Sent(q)[j]),
                     other = <<"reply", j, Sent(q)[j]>>
              PROVE  FALSE
          BY <2>2, <2>3, <2>8, <3>4, <4>1, StepsOf
        <4>2. ASSUME NEW j \in 1 .. Len(events[q]), IsRequested(events[q][j]),
                     other = <<"waiting", j, events[q][j]>>
              PROVE  FALSE
          BY <2>2, <2>4, <2>8, <3>4, <4>2, StepsOf
        <4>3. ASSUME NEW j \in 1 .. Len(Sent(p)), IsRequest(Sent(p)[j]),
                     other = <<"request", j, Sent(p)[j]>>
              PROVE  other = <<"request", i, Sent(p)[i]>>
          <5>1. Sent(p)[j].msgno = r.msgno
            BY <3>4, <4>3, StepsOf
          <5>2. i = j
            BY <1>3, <3>1, <4>3, <5>1 DEF OnceSent
          <5> QED
            BY <4>3, <5>2
        <4> QED
          BY <1>2, <4>1, <4>2, <4>3, OnTheWay
      <3> QED
        BY <3>3, <3>4
    <2> QED
      BY <2>1, <2>6, <2>7, <2>8
  <1> QED
    BY <1>5, <1>6

(* SessionInv holds of every reachable state, for any number of calls.     *)
THEOREM Inductive == Spec => []SessionInv
  <1>1. Init => SessionInv
    BY InitInv
  <1>2. SessionInv /\ [Next]_vars => SessionInv'
    BY NextInv
  <1> QED
    BY <1>1, <1>2, PTL DEF Spec

(* The fields of both sessions keep their types: channel numbers do not    *)
(* run past the calls that took them, message numbers wrap at MAX_MSG_NO.  *)
THEOREM TypeCorrect == Spec => []TypeOK
  <1>1. SessionInv => TypeOK
    BY DEF SessionInv
  <1> QED
    BY <1>1, Inductive, PTL

(* Session.pending is exact: each request is pending while it is in one    *)
(* place of its way to the peer and back, and nothing is on that way that  *)
(* no request is pending for.                                              *)
THEOREM PendingIsExact == Spec => []RequestsTracked
  <1>1. SessionInv => RequestsTracked
    BY Tracked
  <1> QED
    BY <1>1, Inductive, PTL

(* Two sessions that are open have the same channels, but for the ones a   *)
(* request that is not settled is about.                                   *)
THEOREM SameChannels == Spec => []ChannelsAgree
  <1>1. SessionInv => ChannelsAgree
    <2>1. SUFFICES ASSUME SessionInv, \A p \in Peers : Running(p) /\ state[p] = "Ready",
                          NEW p \in Peers, NEW n \in channels[p] \ channels[Other(p)]
                   PROVE  \E r \in pending[p] \cup pending[Other(p)] : r.n = n
      BY DEF ChannelsAgree
    <2>2. state[Other(p)] # "Closed"
      BY <2>1, TwoPeers
    <2> QED
      BY <2>1, <2>2 DEF SessionInv, Agreeing
  <1> QED
    BY <1>1, Inductive, PTL

(* When greetings fit one frame, no frame is a protocol error until some   *)
(* application asks to close something: what is sent on a channel the      *)
(* moment it exists finds the channel open at the peer.                    *)
THEOREM NothingRefusedWhileOpening ==
    ASSUME BigGreeting = {}
    PROVE  Spec => []OpeningSafe
  <1>1. SessionInv => OpeningSafe
    <2>1. SUFFICES ASSUME SessionInv, \A p \in Peers : calls[p].close = 0, NEW p \in Peers
                   PROVE  ended[p] \notin ProtocolErrors
      BY DEF OpeningSafe, NoProtocolError
    <2>2. NoCloses
      BY <2>1 DEF NoCloses
    <2>3. GreetingFirst(p) /\ Traffic(p)
      BY <2>1 DEF SessionInv
    <2>4. ended[p] # "NotAGreeting" /\ ended[p] # "UnknownMsgNo"
      BY <2>3 DEF GreetingFirst
    <2>5. ended[p] # "NoSuchChannel"
      BY <2>2, <2>3 DEF Traffic
    <2> QED
      BY <2>4, <2>5 DEF ProtocolErrors
  <1> QED
    BY <1>1, Inductive, PTL

(* When greetings fit one frame and nothing is sent on ordinary channels,  *)
(* or no channel is ever closed, no frame is a protocol error, whatever    *)
(* requests cross and however they are answered.                           *)
THEOREM NoErrorBetweenPeers ==
    ASSUME BigGreeting = {}, MaxSends = 0 \/ MaxCloses = 0
    PROVE  Spec => []NoProtocolError
  <1>1. SessionInv => NoProtocolError
    <2>1. SUFFICES ASSUME SessionInv, NEW p \in Peers
                   PROVE  ended[p] \notin ProtocolErrors
      BY DEF NoProtocolError
    <2>2. NoSends \/ NoCloses
      <3>1. \A x \in Peers : calls[x].send \in 0 .. MaxSends /\ calls[x].close \in 0 .. MaxCloses
        BY <2>1 DEF SessionInv, TypeOK
      <3> QED
        BY <3>1 DEF NoSends, NoCloses
    <2>3. GreetingFirst(p) /\ Traffic(p)
      BY <2>1 DEF SessionInv
    <2>4. ended[p] # "NotAGreeting" /\ ended[p] # "UnknownMsgNo"
      BY <2>3 DEF GreetingFirst
    <2>5. ended[p] # "NoSuchChannel"
      BY <2>2, <2>3 DEF Traffic
    <2> QED
      BY <2>4, <2>5 DEF ProtocolErrors
  <1> QED
    BY <1>1, Inductive, PTL
=============================================================================

--------------------------- MODULE WsStreamProofs ---------------------------
(***************************************************************************)
(* Theorems about WsStream, for every sequence of BEEP frames, every plan  *)
(* of the peer and every limit.                                            *)
(***************************************************************************)
EXTENDS WsStream, SequenceTheorems, FiniteSetTheorems, WellFoundedInduction, TLAPS

-----------------------------------------------------------------------------
(* Least numbers and sums.                                                 *)

(* A set of natural numbers that is not empty has a least member.          *)
LEMMA Smallest ==
    ASSUME NEW S \in SUBSET Nat, S # {}
    PROVE  \E l \in S : \A j \in S : l <= j
  <1>1. PICK l \in S : \A j \in S : ~(<<j, l>> \in OpToRel(<, Nat))
    BY NatLessThanWellFounded, WFMin
  <1>2. \A a, b \in Nat : a < b => <<a, b>> \in OpToRel(<, Nat)
    BY DEF OpToRel
  <1>3. ASSUME NEW j \in S PROVE l <= j
    <2>1. j \in Nat /\ l \in Nat
      OBVIOUS
    <2>2. ~(j < l)
      BY <1>1, <1>2, <2>1
    <2> QED
      BY <2>1, <2>2
  <1> QED
    BY <1>3

(* f is the sums of g up to each place.                                    *)
SumsOf(f, g, m) == f = [k \in 0 .. m |-> IF k = 0 THEN 0 ELSE f[k - 1] + g[k]]

(* There is such an f.                                                     *)
LEMMA SumsExist ==
    ASSUME NEW m \in Nat, NEW g \in [1 .. m -> Nat]
    PROVE  \E f : SumsOf(f, g, m)
  <1> DEFINE Bad0 == {n \in 0 .. m : ~ \E f : SumsOf(f, g, n)}
  <1>1. SUFFICES ASSUME Bad0 # {} PROVE FALSE
    <2>1. m \in 0 .. m
      OBVIOUS
    <2> QED
      BY <1>1, <2>1
  <1>2. PICK l \in Bad0 : \A j \in Bad0 : l <= j
    <2>1. Bad0 \in SUBSET Nat
      OBVIOUS
    <2> QED
      BY <1>1, <2>1, Smallest
  <1>3. CASE l = 0
    <2>1. SumsOf([k \in 0 .. 0 |-> 0], g, 0)
      BY DEF SumsOf
    <2> QED
      BY <1>2, <1>3, <2>1
  <1>4. CASE l # 0
    <2>1. l - 1 \in 0 .. m /\ l - 1 \notin Bad0 /\ l \in Nat
      BY <1>2, <1>4
    <2>2. PICK f : SumsOf(f, g, l - 1)
      BY <2>1
    <2> DEFINE h == [k \in 0 .. l |-> IF k = l THEN f[l - 1] + g[l] ELSE f[k]]
    <2>3. h = [k \in 0 .. l |-> IF k = 0 THEN 0 ELSE h[k - 1] + g[k]]
      <3>1. ASSUME NEW k \in 0 .. l
            PROVE  h[k] = IF k = 0 THEN 0 ELSE h[k - 1] + g[k]
        <4>1. CASE k = l
          BY <1>4, <2>1, <4>1
        <4>2. CASE k # l
          <5>1. k \in 0 .. l - 1
            BY <2>1, <4>2
          <5>2. f[k] = IF k = 0 THEN 0 ELSE f[k - 1] + g[k]
            BY <2>2, <5>1 DEF SumsOf
          <5> QED
            BY <2>1, <4>2, <5>1, <5>2
        <4> QED
          BY <4>1, <4>2
      <3> HIDE DEF h
      <3>2. DOMAIN h = 0 .. l /\ h = [k \in 0 .. l |-> h[k]]
        BY DEF h
      <3> QED
        BY <3>1, <3>2
    <2>4. SumsOf(h, g, l)
      BY <2>3 DEF SumsOf
    <2> QED
      BY <1>2, <2>4
  <1> QED
    BY <1>3, <1>4

(* Its values are natural numbers.                                         *)
LEMMA SumsType ==
    ASSUME NEW m \in Nat, NEW g \in [1 .. m -> Nat], NEW f, SumsOf(f, g, m)
    PROVE  /\ f \in [0 .. m -> Nat] /\ f[0] = 0
           /\ \A k \in 1 .. m : f[k] = f[k - 1] + g[k]
  <1>1. /\ f[0] = 0 /\ DOMAIN f = 0 .. m /\ f = [k \in 0 .. m |-> f[k]]
        /\ \A k \in 1 .. m : f[k] = f[k - 1] + g[k]
    BY DEF SumsOf
  <1> DEFINE Odd == {n \in 0 .. m : f[n] \notin Nat}
  <1>2. ASSUME Odd # {} PROVE FALSE
    <2>1. PICK l \in Odd : \A j \in Odd : l <= j
      <3>1. Odd \in SUBSET Nat
        OBVIOUS
      <3> QED
        BY <1>2, <3>1, Smallest
    <2>2. l # 0
      BY <1>1, <2>1
    <2>3. l - 1 \in 0 .. m /\ l - 1 \notin Odd /\ l \in 1 .. m
      BY <2>1, <2>2
    <2>4. f[l - 1] \in Nat /\ g[l] \in Nat /\ f[l] = f[l - 1] + g[l]
      BY <1>1, <2>3
    <2> QED
      BY <2>1, <2>4
  <1>3. \A n \in 0 .. m : f[n] \in Nat
    BY <1>2
  <1> QED
    BY <1>1, <1>3

-----------------------------------------------------------------------------
(* Where the BEEP frames end.                                              *)

(* The constants.                                                          *)
LEMMA Given ==
    /\ Frames \in Seq(Nat \ {0}) /\ Len(Frames) \in Nat
    /\ \A i \in 1 .. Len(Frames) : Frames[i] \in Nat /\ Frames[i] > 0
    /\ Plans \subseteq Seq(WsFrame)
    /\ Room \in Nat /\ Room > 0 /\ Short \in Nat /\ Short > 0 /\ Short + 1 < 128
    /\ Wide \in Nat /\ Short < Wide /\ Batch \in Nat /\ Batch > 0
    /\ HighWater \in Nat /\ HighWater > 0 /\ MaxPayload \in Nat
  <1>1. Frames \in Seq(Nat \ {0})
    BY WsAssumption
  <1>2. Len(Frames) \in Nat /\ \A i \in 1 .. Len(Frames) : Frames[i] \in Nat \ {0}
    BY <1>1, LenProperties, ElementOfSeq
  <1>3. \A i \in 1 .. Len(Frames) : Frames[i] \in Nat /\ Frames[i] > 0
    BY <1>2
  <1>4. /\ Plans \subseteq Seq(WsFrame) /\ Short < Wide /\ MaxPayload \in Nat
        /\ Short + 1 \in 0 .. 2 * 64 - 1
        /\ {Room, Short, Wide, Batch, HighWater} \subseteq Nat \ {0}
    BY WsAssumption DEF Octet, Key
  <1>5. \A n \in {Room, Short, Wide, Batch, HighWater} : n \in Nat /\ n > 0
    BY <1>4
  <1>6. /\ Room \in Nat /\ Room > 0 /\ Short \in Nat /\ Short > 0 /\ Wide \in Nat
        /\ Batch \in Nat /\ Batch > 0 /\ HighWater \in Nat /\ HighWater > 0
    BY <1>5
  <1>7. Short + 1 < 128
    BY <1>4, <1>6
  <1> QED
    BY <1>1, <1>2, <1>3, <1>4, <1>6, <1>7

(* The frames end one behind the other.                                    *)
LEMMA EndsOfFrames ==
    /\ EndOf \in [0 .. Len(Frames) -> Nat] /\ EndOf[0] = 0
    /\ \A i \in 1 .. Len(Frames) : EndOf[i] = EndOf[i - 1] + Frames[i]
    /\ \A i, j \in 0 .. Len(Frames) : i < j => EndOf[i] < EndOf[j]
  <1> DEFINE m == Len(Frames)
             g == [i \in 1 .. m |-> Frames[i]]
  <1>1. m \in Nat /\ g \in [1 .. m -> Nat] /\ \A i \in 1 .. m : g[i] > 0
    BY Given
  <1>2. EndOf = [i \in 0 .. m |-> IF i = 0 THEN 0 ELSE EndOf[i - 1] + Frames[i]]
    <2>1. PICK f : SumsOf(f, g, m)
      BY <1>1, SumsExist
    <2>2. f = [i \in 0 .. m |-> IF i = 0 THEN 0 ELSE f[i - 1] + Frames[i]]
      <3>1. f = [i \in 0 .. m |-> IF i = 0 THEN 0 ELSE f[i - 1] + g[i]]
        BY <2>1 DEF SumsOf
      <3>2. \A i \in 0 .. m : i # 0 => g[i] = Frames[i]
        OBVIOUS
      <3> HIDE DEF g
      <3> QED
        BY <3>1, <3>2
    <2> QED
      BY <2>2 DEF EndOf
  <1>3. SumsOf(EndOf, g, m)
    BY <1>2, <1>1 DEF SumsOf
  <1>4. /\ EndOf \in [0 .. m -> Nat] /\ EndOf[0] = 0
        /\ \A i \in 1 .. m : EndOf[i] = EndOf[i - 1] + g[i]
    <2> HIDE DEF g, m
    <2> QED
      BY <1>1, <1>3, SumsType
  <1>5. ASSUME NEW i \in 0 .. m, NEW j \in 0 .. m, i < j PROVE EndOf[i] < EndOf[j]
    <2> DEFINE Odd == {n \in i + 1 .. m : ~(EndOf[i] < EndOf[n])}
    <2>1. ASSUME Odd # {} PROVE FALSE
      <3>1. PICK l \in Odd : \A n \in Odd : l <= n
        <4>1. Odd \in SUBSET Nat
          BY <1>1
        <4> QED
          BY <2>1, <4>1, Smallest
      <3>2. /\ l \in 1 .. m /\ l - 1 \in 0 .. m /\ EndOf[l - 1] \in Nat
            /\ EndOf[l] = EndOf[l - 1] + g[l] /\ g[l] \in Nat /\ g[l] > 0
        <4>1. l \in 1 .. m /\ l - 1 \in 0 .. m
          BY <3>1, <1>1
        <4> HIDE DEF g, m
        <4> QED
          BY <4>1, <1>4, <1>1
      <3>3. EndOf[i] \in Nat /\ EndOf[l] \in Nat
        <4>1. l \in 0 .. m
          BY <3>2, <1>1
        <4> HIDE DEF m
        <4> QED
          BY <4>1, <1>4
      <3>4. l = i + 1 \/ l - 1 \in i + 1 .. m
        BY <3>1, <1>1
      <3>5. CASE l = i + 1
        BY <3>5, <3>1, <3>2, <3>3
      <3>6. CASE l - 1 \in i + 1 .. m
        <4>1. l - 1 \notin Odd
          BY <3>1, <3>2
        <4>2. EndOf[i] < EndOf[l - 1]
          BY <4>1, <3>6
        <4> QED
          BY <4>2, <3>1, <3>2, <3>3
      <3> QED
        BY <3>4, <3>5, <3>6
    <2>2. j \in i + 1 .. m
      BY <1>5, <1>1
    <2> QED
      BY <2>1, <2>2
  <1> QED
    BY <1>1, <1>4, <1>5

(* A function that is increasing between two numbers takes as many values. *)
LEMMA Increasing ==
    ASSUME NEW a \in Nat, NEW b \in Nat, a <= b, NEW P, NEW f \in [a + 1 .. b -> P],
           \A p \in P : \E j \in a + 1 .. b : f[j] = p,
           \A i, j \in a + 1 .. b : f[i] = f[j] => i = j
    PROVE  IsFiniteSet(P) /\ Cardinality(P) = b - a
  <1>1. f \in Bijection(a + 1 .. b, P)
    BY DEF Bijection, Injection, Surjection, IsInjective
  <1>2. ExistsBijection(a + 1 .. b, P)
    BY <1>1 DEF ExistsBijection
  <1>3. /\ IsFiniteSet(a + 1 .. b)
        /\ Cardinality(a + 1 .. b) = IF a + 1 > b THEN 0 ELSE b - (a + 1) + 1
    BY FS_Interval
  <1>4. IsFiniteSet(P) /\ Cardinality(P) = Cardinality(a + 1 .. b)
    BY <1>2, <1>3, FS_Bijection
  <1> QED
    BY <1>3, <1>4

(* frame_boundary finds the frames that are whole, and those only.         *)
LEMMA Whole ==
    ASSUME NEW i \in 0 .. Len(Frames), NEW n \in Nat, NEW m, m = WholeFrames(EndOf[i], n)
    PROVE  /\ m \in Nat /\ i + m \in 0 .. Len(Frames) /\ EndOf[i + m] <= EndOf[i] + n
           /\ \A j \in 0 .. Len(Frames) : EndOf[j] <= EndOf[i] + n => j <= i + m
  <1> DEFINE L == Len(Frames)
             from == EndOf[i]
             P == {p \in Ends : from < p /\ p <= from + n}
             Over == {j \in 0 .. L : ~(EndOf[j] <= from + n)}
  <1>1. /\ L \in Nat /\ from \in Nat /\ EndOf \in [0 .. L -> Nat]
        /\ \A a, b \in 0 .. L : a < b => EndOf[a] < EndOf[b]
    BY Given, EndsOfFrames
  <1>2. DOMAIN EndOf = 0 .. L
    BY <1>1
  <1>3. from \in Ends /\ \A p : p \in Ends <=> \E j \in 0 .. L : p = EndOf[j]
    BY <1>2 DEF Ends
  <1>4. m = Cardinality(P)
    BY <1>3 DEF WholeFrames
  <1>5. \E k \in i .. L : \A j \in 0 .. L : EndOf[j] <= from + n <=> j <= k
    <2>1. CASE Over = {}
      <3>1. \A j \in 0 .. L : EndOf[j] <= from + n /\ j <= L
        BY <2>1, <1>1, SMTT(30)
      <3>2. L \in i .. L
        BY <1>1
      <3> QED
        BY <3>1, <3>2
    <2>2. CASE Over # {}
      <3>1. PICK o \in Over : \A j \in Over : o <= j
        <4>1. Over \in SUBSET Nat
          BY <1>1
        <4> QED
          BY <2>2, <4>1, Smallest
      <3>2. o \in 0 .. L /\ o \in Nat /\ i \in Nat /\ EndOf[o] \in Nat /\ ~(EndOf[o] <= from + n)
        BY <3>1, <1>1
      <3>3. i < o
        <4>1. ASSUME o < i PROVE FALSE
          <5>1. EndOf[o] < from
            BY <4>1, <3>2, <1>1
          <5> QED
            BY <5>1, <3>2, <1>1
        <4>2. o # i
          BY <3>2, <1>1
        <4> QED
          BY <4>1, <4>2, <3>2
      <3>4. ASSUME NEW j \in 0 .. L PROVE EndOf[j] <= from + n <=> j <= o - 1
        <4>1. j \in Nat /\ EndOf[j] \in Nat
          BY <1>1
        <4>2. CASE j < o
          <5>1. j \notin Over
            BY <4>1, <4>2, <3>1, <3>2
          <5> QED
            BY <5>1, <4>1, <4>2, <3>2
        <4>3. CASE j = o
          BY <4>3, <3>2
        <4>4. CASE o < j
          <5>1. EndOf[o] < EndOf[j]
            BY <4>4, <3>2, <1>1
          <5> QED
            BY <5>1, <4>1, <4>4, <3>2, <1>1
        <4> QED
          BY <4>1, <4>2, <4>3, <4>4, <3>2
      <3>5. o - 1 \in i .. L
        BY <3>2, <3>3, <1>1
      <3> QED
        BY <3>4, <3>5
    <2> QED
      BY <2>1, <2>2
  <1>6. PICK k \in i .. L : \A j \in 0 .. L : EndOf[j] <= from + n <=> j <= k
    BY <1>5
  <1> DEFINE f == [j \in i + 1 .. k |-> EndOf[j]]
  <1>7. i \in Nat /\ k \in Nat /\ i <= k /\ k <= L /\ k \in 0 .. L
    BY <1>6, <1>1
  <1>8. ASSUME NEW j \in i + 1 .. k PROVE EndOf[j] \in P
    <2>1. j \in 0 .. L /\ i < j /\ j <= k
      BY <1>7, <1>1
    <2> QED
      BY <2>1, <1>1, <1>3, <1>6
  <1>9. f \in [i + 1 .. k -> P]
    BY <1>8
  <1>10. ASSUME NEW p \in P PROVE \E j \in i + 1 .. k : f[j] = p
    <2>1. PICK j \in 0 .. L : p = EndOf[j]
      BY <1>3
    <2>2. from < EndOf[j] /\ EndOf[j] <= from + n /\ EndOf[j] \in Nat /\ j \in Nat
      BY <2>1, <1>1
    <2>3. j <= k
      BY <2>2, <1>6
    <2>4. i < j
      <3>1. CASE j < i
        <4>1. EndOf[j] < from
          BY <3>1, <1>1
        <4> QED
          BY <4>1, <2>2, <1>1
      <3>2. CASE j = i
        BY <3>2, <2>2, <1>1
      <3> QED
        BY <3>1, <3>2, <2>2, <1>7
    <2>5. j \in i + 1 .. k
      BY <2>2, <2>3, <2>4, <1>7
    <2> QED
      BY <2>1, <2>5
  <1>11. ASSUME NEW a \in i + 1 .. k, NEW b \in i + 1 .. k, f[a] = f[b] PROVE a = b
    <2>1. a \in 0 .. L /\ b \in 0 .. L /\ a \in Nat /\ b \in Nat /\ EndOf[a] = EndOf[b]
      BY <1>11, <1>7, <1>1
    <2>2. ~(a < b) /\ ~(b < a)
      BY <2>1, <1>1
    <2> QED
      BY <2>1, <2>2
  <1>12. Cardinality(P) = k - i
    <2> HIDE DEF f, P
    <2> QED
      BY <1>7, <1>9, <1>10, <1>11, Increasing
  <1>13. i + m = k /\ m \in Nat
    BY <1>4, <1>7, <1>12
  <1> QED
    BY <1>13, <1>6, <1>7

-----------------------------------------------------------------------------
(* The WebSocket frames that carry BEEP frames.                            *)

(* Nth, of any sequence of queued frames.                                  *)
NthOf(q, k) == Cardinality({j \in 1 .. k : q[j].op = "Binary"})

(* Nth counts.                                                             *)
LEMMA Counts ==
    ASSUME NEW q, NEW k \in Nat
    PROVE  /\ IsFiniteSet({j \in 1 .. k : q[j].op = "Binary"})
           /\ NthOf(q, k) \in Nat /\ NthOf(q, 0) = 0
  <1> DEFINE S == {j \in 1 .. k : q[j].op = "Binary"}
  <1>1. IsFiniteSet(1 .. k)
    BY FS_Interval
  <1>2. S \in SUBSET (1 .. k)
    OBVIOUS
  <1>3. IsFiniteSet(S)
    BY <1>1, <1>2, FS_Subset
  <1>4. Cardinality(S) \in Nat
    <2> HIDE DEF S
    <2> QED
      BY <1>3, FS_CardinalityType
  <1>5. {j \in 1 .. 0 : q[j].op = "Binary"} = {}
    OBVIOUS
  <1>6. Cardinality({j \in 1 .. 0 : q[j].op = "Binary"}) = 0
    BY <1>5, FS_EmptySet
  <1> QED
    BY <1>3, <1>4, <1>6 DEF NthOf

(* t is q with d frames more behind it.                                    *)
Extends(t, q, d) ==
    /\ q \in Seq(Queued) /\ t \in Seq(Queued) /\ d \in Nat /\ Len(t) = Len(q) + d
    /\ \A j \in 1 .. Len(q) : t[j] = q[j]

(* What is put behind does not change how many there are before, and adds  *)
(* to those in all by what it is.                                          *)
LEMMA CountsMore ==
    ASSUME NEW t, NEW q, NEW d, Extends(t, q, d)
    PROVE  /\ \A k \in 0 .. Len(q) : NthOf(t, k) = NthOf(q, k)
           /\ (\A j \in Len(q) + 1 .. Len(t) : t[j].op = "Binary") =>
                \A k \in 0 .. d : NthOf(t, Len(q) + k) = NthOf(q, Len(q)) + k
           /\ (\A j \in Len(q) + 1 .. Len(t) : t[j].op # "Binary") =>
                NthOf(t, Len(t)) = NthOf(q, Len(q))
  <1>1. /\ q \in Seq(Queued) /\ t \in Seq(Queued) /\ d \in Nat /\ Len(t) = Len(q) + d
        /\ Len(q) \in Nat /\ Len(t) \in Nat
        /\ \A j \in 1 .. Len(q) : t[j] = q[j]
    BY LenProperties DEF Extends
  <1>2. ASSUME NEW k \in 0 .. Len(q) PROVE NthOf(t, k) = NthOf(q, k)
    <2>1. \A j \in 1 .. k : t[j] = q[j]
      BY <1>1
    <2>2. {j \in 1 .. k : t[j].op = "Binary"} = {j \in 1 .. k : q[j].op = "Binary"}
      BY <2>1
    <2> QED
      BY <2>2 DEF NthOf
  <1> DEFINE S == {j \in 1 .. Len(q) : q[j].op = "Binary"}
  <1>3. IsFiniteSet(S) /\ Cardinality(S) \in Nat /\ NthOf(q, Len(q)) = Cardinality(S)
    BY <1>1, Counts DEF NthOf
  <1>4. ASSUME \A j \in Len(q) + 1 .. Len(t) : t[j].op = "Binary", NEW k \in 0 .. d
        PROVE  NthOf(t, Len(q) + k) = NthOf(q, Len(q)) + k
    <2> DEFINE N == Len(q) + 1 .. Len(q) + k
    <2>1. {j \in 1 .. Len(q) + k : t[j].op = "Binary"} = S \cup N
      <3>1. ASSUME NEW j \in 1 .. Len(q) + k
            PROVE  t[j].op = "Binary" <=> j \in S \cup N
        <4>1. CASE j <= Len(q)
          <5>1. j \in 1 .. Len(q) /\ j \notin N
            BY <4>1, <1>1
          <5> QED
            BY <5>1, <1>1
        <4>2. CASE ~(j <= Len(q))
          <5>1. j \in N /\ j \in Len(q) + 1 .. Len(t)
            BY <4>2, <1>1
          <5> QED
            BY <5>1, <1>4
        <4> QED
          BY <4>1, <4>2
      <3>2. S \cup N \subseteq 1 .. Len(q) + k
        BY <1>1
      <3> QED
        BY <3>1, <3>2
    <2>2. IsFiniteSet(N) /\ Cardinality(N) = k
      <3>1. /\ IsFiniteSet(N)
            /\ Cardinality(N) = IF Len(q) + 1 > Len(q) + k THEN 0 ELSE Len(q) + k - (Len(q) + 1) + 1
        <4>1. Len(q) + 1 \in Int /\ Len(q) + k \in Int
          BY <1>1
        <4> QED
          BY <4>1, FS_Interval
      <3> QED
        BY <3>1, <1>1
    <2>3. S \cap N = {}
      BY <1>1
    <2>4. Cardinality(S \cup N) = Cardinality(S) + k
      <3>1. Cardinality(S \cap N) = 0
        BY <2>3, FS_EmptySet
      <3> HIDE DEF S, N
      <3>2. Cardinality(S \cup N) = Cardinality(S) + Cardinality(N) - Cardinality(S \cap N)
        BY <1>3, <2>2, FS_Union
      <3> QED
        BY <3>1, <3>2, <2>2, <1>3, <1>1
    <2> QED
      BY <2>1, <2>4, <1>3 DEF NthOf
  <1>5. ASSUME \A j \in Len(q) + 1 .. Len(t) : t[j].op # "Binary"
        PROVE  NthOf(t, Len(t)) = NthOf(q, Len(q))
    <2>1. {j \in 1 .. Len(t) : t[j].op = "Binary"} = S
      <3>1. ASSUME NEW j \in 1 .. Len(t) PROVE t[j].op = "Binary" <=> j \in S
        <4>1. CASE j <= Len(q)
          <5>1. j \in 1 .. Len(q)
            BY <4>1, <1>1
          <5> QED
            BY <5>1, <1>1
        <4>2. CASE ~(j <= Len(q))
          <5>1. j \notin S /\ j \in Len(q) + 1 .. Len(t)
            BY <4>2, <1>1
          <5> QED
            BY <5>1, <1>5
        <4> QED
          BY <4>1, <4>2
      <3>2. S \subseteq 1 .. Len(t)
        BY <1>1
      <3> QED
        BY <3>1, <3>2
    <2> QED
      BY <2>1, <1>3 DEF NthOf
  <1> QED
    BY <1>2, <1>4, <1>5

(* The frames queued carry the BEEP frames up to an octet, one each.       *)
InOrder(q, at) ==
    /\ NthOf(q, Len(q)) <= Len(Frames)
    /\ \A k \in 1 .. Len(q) : q[k].op = "Binary" =>
         q[k].carries = <<EndOf[NthOf(q, k) - 1], EndOf[NthOf(q, k)]>>
    /\ EndOf[NthOf(q, Len(q))] = at
Fields == [outbound : Nat, queued : Seq(Queued), framed : Nat, partial : Nat, took : Nat]
InGoodOrder(b) == b \in Fields /\ InOrder(b.queued, b.framed)

(* A WebSocket frame takes some octets.                                    *)
LEMMA Sizes ==
    ASSUME NEW n \in Nat
    PROVE  Size(n) \in Nat /\ Len(Length(n)) \in 1 .. 3
  <1>1. Len(Length(n)) \in 1 .. 3
    BY DEF Length
  <1> QED
    BY <1>1 DEF Size

(* A Pong or a Close is put behind what is queued and carries no frame.    *)
LEMMA QueueOther ==
    ASSUME NEW b, InGoodOrder(b), NEW op \in {"Pong", "Close"}, NEW carries \in Seq(Nat),
           NEW n \in Nat, NEW c, c = Queue(b, op, carries, n)
    PROVE  InGoodOrder(c) /\ c.framed = b.framed /\ c.partial = b.partial /\ c.took = b.took
  <1> DEFINE x == [op |-> op, carries |-> carries]
             q == b.queued
             t == Append(q, x)
  <1>1. x \in Queued /\ x.op # "Binary"
    BY DEF Queued
  <1>2. b \in Fields /\ q \in Seq(Queued) /\ Len(q) \in Nat /\ b.outbound \in Nat
    BY LenProperties DEF InGoodOrder, Fields
  <1>3. /\ t \in Seq(Queued) /\ Len(t) = Len(q) + 1 /\ t[Len(q) + 1] = x
        /\ \A j \in 1 .. Len(q) : t[j] = q[j]
    <2> HIDE DEF x, q
    <2> QED
      BY <1>1, <1>2, AppendProperties
  <1>4. c = [b EXCEPT !.outbound = @ + Size(n), !.queued = t]
    BY DEF Queue
  <1>5. /\ c \in Fields /\ c.queued = t /\ c.framed = b.framed /\ c.partial = b.partial
        /\ c.took = b.took
    <2>1. b.outbound + Size(n) \in Nat
      <3>1. Size(n) \in Nat
        BY Sizes
      <3> QED
        BY <3>1, <1>2
    <2> HIDE DEF t
    <2> QED
      BY <1>2, <1>3, <1>4, <2>1 DEF Fields
  <1> HIDE DEF t, x
  <1>6. Extends(t, q, 1)
    BY <1>2, <1>3 DEF Extends
  <1>7. /\ \A k \in 0 .. Len(q) : NthOf(t, k) = NthOf(q, k)
        /\ NthOf(t, Len(t)) = NthOf(q, Len(q))
    <2>1. \A j \in Len(q) + 1 .. Len(t) : t[j].op # "Binary"
      BY <1>1, <1>2, <1>3
    <2> HIDE DEF q
    <2> QED
      BY <1>6, <2>1, CountsMore
  <1>8. InOrder(q, b.framed)
    BY DEF InGoodOrder
  <1>9. InOrder(t, b.framed)
    <2>1. ASSUME NEW k \in 1 .. Len(t), t[k].op = "Binary"
          PROVE  t[k].carries = <<EndOf[NthOf(t, k) - 1], EndOf[NthOf(t, k)]>>
      <3>1. k \in 1 .. Len(q) /\ t[k] = q[k]
        BY <2>1, <1>1, <1>2, <1>3
      <3>2. NthOf(t, k) = NthOf(q, k)
        BY <3>1, <1>2, <1>7
      <3> QED
        BY <2>1, <3>1, <3>2, <1>8 DEF InOrder
    <2> QED
      BY <2>1, <1>7, <1>8 DEF InOrder
  <1> QED
    BY <1>5, <1>9 DEF InGoodOrder

(* The octets that some frames take.                                       *)
LEMMA SizesAdd ==
    ASSUME NEW i \in Nat, NEW m \in Nat, i + m <= Len(Frames)
    PROVE  SizesOf(i, m) \in Nat
  <1> DEFINE size == CHOOSE f : f = [k \in 0 .. m |-> IF k = 0 THEN 0
                                                      ELSE f[k - 1] + Size(Frames[i + k])]
             g == [k \in 1 .. m |-> Size(Frames[i + k])]
  <1>1. g \in [1 .. m -> Nat]
    <2>1. ASSUME NEW k \in 1 .. m PROVE Size(Frames[i + k]) \in Nat
      <3>1. i + k \in 1 .. Len(Frames)
        BY Given
      <3>2. Frames[i + k] \in Nat
        BY <3>1, Given
      <3> QED
        BY <3>2, Sizes
    <2> QED
      BY <2>1
  <1>2. PICK f : SumsOf(f, g, m)
    BY <1>1, SumsExist
  <1>3. \A k \in 0 .. m : k # 0 => g[k] = Size(Frames[i + k])
    OBVIOUS
  <1>4. f = [k \in 0 .. m |-> IF k = 0 THEN 0 ELSE f[k - 1] + Size(Frames[i + k])]
    <2>1. f = [k \in 0 .. m |-> IF k = 0 THEN 0 ELSE f[k - 1] + g[k]]
      BY <1>2 DEF SumsOf
    <2> HIDE DEF g
    <2> QED
      BY <1>3, <2>1
  <1>5. size = [k \in 0 .. m |-> IF k = 0 THEN 0 ELSE size[k - 1] + Size(Frames[i + k])]
    BY <1>4
  <1>6. SizesOf(i, m) = size[m]
    BY DEF SizesOf
  <1> HIDE DEF size
  <1>7. SumsOf(size, g, m)
    <2> HIDE DEF g
    <2> QED
      BY <1>3, <1>5 DEF SumsOf
  <1> HIDE DEF g
  <1>8. size \in [0 .. m -> Nat]
    BY <1>1, <1>7, SumsType
  <1> QED
    BY <1>6, <1>8

(* A function on the numbers from 1 is a sequence.                         *)
LEMMA Listed ==
    ASSUME NEW T, NEW n \in Nat, NEW f \in [1 .. n -> T]
    PROVE  f \in Seq(T) /\ Len(f) = n
  <1>1. f \in Seq(T)
    BY SeqDef
  <1>2. DOMAIN f = 1 .. n
    OBVIOUS
  <1> QED
    BY <1>1, <1>2, LenProperties

(* What queueing m BEEP frames from the i-th end on amounts to.            *)
LEMMA QueueFramesIs ==
    ASSUME NEW b, InGoodOrder(b), NEW i \in 0 .. Len(Frames), EndOf[i] = b.framed,
           NEW m \in Nat, m # 0, i + m <= Len(Frames), NEW c, c = QueueFrames(b, m)
    PROVE  /\ c \in Fields /\ c.queued = b.queued \o Carriers(i, m) /\ c.framed = EndOf[i + m]
           /\ c.partial = b.partial /\ c.took = b.took
           /\ Carriers(i, m) \in Seq(Queued) /\ Len(Carriers(i, m)) = m
  <1>1. b \in Fields /\ b.queued \in Seq(Queued) /\ b.outbound \in Nat
    BY DEF InGoodOrder, Fields
  <1>2. /\ EndOf \in [0 .. Len(Frames) -> Nat] /\ Len(Frames) \in Nat
        /\ \A a, d \in 0 .. Len(Frames) : a < d => EndOf[a] < EndOf[d]
    BY Given, EndsOfFrames
  <1>3. (CHOOSE j \in DOMAIN EndOf : EndOf[j] = b.framed) = i
    <2>1. i \in DOMAIN EndOf /\ EndOf[i] = b.framed
      BY <1>2
    <2>2. ASSUME NEW j \in DOMAIN EndOf, EndOf[j] = b.framed PROVE j = i
      <3>1. j \in 0 .. Len(Frames) /\ j \in Nat /\ i \in Nat /\ EndOf[j] = EndOf[i] /\ EndOf[j] \in Nat
        BY <2>2, <1>2
      <3>2. ~(i < j) /\ ~(j < i)
        BY <3>1, <1>2
      <3> QED
        BY <3>1, <3>2
    <2> QED
      BY <2>1, <2>2
  <1> DEFINE r == Carriers(i, m)
  <1>4. c = [b EXCEPT !.outbound = @ + SizesOf(i, m), !.queued = @ \o r, !.framed = EndOf[i + m]]
    BY <1>3 DEF QueueFrames
  <1>5. ASSUME NEW k \in 1 .. m
        PROVE  [op |-> "Binary", carries |-> <<EndOf[i + k - 1], EndOf[i + k]>>] \in Queued
    <2>1. i + k - 1 \in 0 .. Len(Frames) /\ i + k \in 0 .. Len(Frames)
      BY <1>2
    <2>2. EndOf[i + k - 1] \in Nat /\ EndOf[i + k] \in Nat
      BY <2>1, <1>2
    <2> QED
      BY <2>2 DEF Queued
  <1>6. r \in [1 .. m -> Queued]
    BY <1>5 DEF Carriers
  <1>7. r \in Seq(Queued) /\ Len(r) = m
    BY <1>6, Listed
  <1>8. b.queued \o r \in Seq(Queued)
    BY <1>1, <1>7, ConcatProperties
  <1>9. EndOf[i + m] \in Nat
    BY <1>2
  <1>10. b.outbound + SizesOf(i, m) \in Nat
    <2>1. SizesOf(i, m) \in Nat
      <3>1. i \in Nat
        BY <1>2
      <3> QED
        BY <3>1, SizesAdd
    <2> QED
      BY <2>1, <1>1
  <1> QED
    BY <1>1, <1>4, <1>7, <1>8, <1>9, <1>10 DEF Fields

(* Queueing whole frames keeps them in order, as long as the octets last.  *)
LEMMA QueueFramesKeep ==
    ASSUME NEW b, InGoodOrder(b), NEW n \in Nat, NEW m \in Nat,
           m <= WholeFrames(b.framed, n), NEW c, c = QueueFrames(b, m)
    PROVE  /\ InGoodOrder(c) /\ c.partial = b.partial /\ c.took = b.took
           /\ b.framed <= c.framed /\ c.framed <= b.framed + n
           /\ m = WholeFrames(b.framed, n) =>
                \A j \in 0 .. Len(Frames) : EndOf[j] <= b.framed + n => EndOf[j] <= c.framed
  <1> DEFINE q == b.queued
             i == NthOf(q, Len(q))
             r == Carriers(i, m)
             t == q \o r
             M == WholeFrames(b.framed, n)
  <1>1. /\ b \in Fields /\ q \in Seq(Queued) /\ Len(q) \in Nat /\ b.framed \in Nat
        /\ InOrder(q, b.framed)
    BY LenProperties DEF InGoodOrder, Fields
  <1>2. /\ EndOf \in [0 .. Len(Frames) -> Nat] /\ Len(Frames) \in Nat
        /\ \A a, d \in 0 .. Len(Frames) : a < d => EndOf[a] < EndOf[d]
    BY Given, EndsOfFrames
  <1>3. i \in 0 .. Len(Frames) /\ EndOf[i] = b.framed
    <2>1. i \in Nat
      BY <1>1, Counts
    <2> QED
      BY <2>1, <1>1, <1>2 DEF InOrder
  <1> HIDE DEF i, q
  <1>4. /\ M \in Nat /\ i + M \in 0 .. Len(Frames) /\ EndOf[i + M] <= b.framed + n
        /\ \A j \in 0 .. Len(Frames) : EndOf[j] <= b.framed + n => j <= i + M
    <2>1. M = WholeFrames(EndOf[i], n)
      BY <1>3
    <2> HIDE DEF M
    <2>2. /\ M \in Nat /\ i + M \in 0 .. Len(Frames) /\ EndOf[i + M] <= EndOf[i] + n
          /\ \A j \in 0 .. Len(Frames) : EndOf[j] <= EndOf[i] + n => j <= i + M
      BY <2>1, <1>3, Whole
    <2> QED
      BY <2>2, <1>3
  <1>5. i \in Nat /\ i + m \in 0 .. Len(Frames) /\ i + m <= Len(Frames)
    BY <1>2, <1>3, <1>4
  <1>6. ASSUME NEW a \in 0 .. Len(Frames), NEW d \in 0 .. Len(Frames), a <= d
        PROVE  EndOf[a] <= EndOf[d]
    <2>1. a \in Nat /\ d \in Nat /\ EndOf[a] \in Nat /\ EndOf[d] \in Nat
      BY <1>2
    <2>2. CASE a = d
      BY <2>1, <2>2
    <2>3. CASE a < d
      BY <2>1, <2>3, <1>2
    <2> QED
      BY <2>1, <2>2, <2>3, <1>6
  <1>7. /\ b.framed <= EndOf[i + m] /\ EndOf[i + m] <= b.framed + n
        /\ m = M => \A j \in 0 .. Len(Frames) :
                      EndOf[j] <= b.framed + n => EndOf[j] <= EndOf[i + m]
    <2>1. EndOf[i] <= EndOf[i + m]
      BY <1>3, <1>5, <1>6
    <2>2. EndOf[i + m] <= EndOf[i + M]
      BY <1>4, <1>5, <1>6
    <2>3. EndOf[i + m] \in Nat /\ EndOf[i + M] \in Nat
      BY <1>2, <1>4, <1>5
    <2>4. ASSUME m = M, NEW j \in 0 .. Len(Frames), EndOf[j] <= b.framed + n
          PROVE  EndOf[j] <= EndOf[i + m]
      BY <2>4, <1>4, <1>5, <1>6
    <2> QED
      BY <2>1, <2>2, <2>3, <2>4, <1>1, <1>3, <1>4, SMTT(30)
  <1>8. CASE m = 0
    <2>1. c = b
      BY <1>8 DEF QueueFrames
    <2>2. EndOf[i + m] = b.framed
      BY <1>3, <1>5, <1>8
    <2> QED
      BY <2>1, <2>2, <1>1, <1>7
  <1>9. CASE m # 0
    <2>1. /\ c \in Fields /\ c.queued = t /\ c.framed = EndOf[i + m]
          /\ c.partial = b.partial /\ c.took = b.took /\ r \in Seq(Queued) /\ Len(r) = m
      BY <1>3, <1>5, <1>9, QueueFramesIs, SMTT(30) DEF q
    <2>2. /\ t \in Seq(Queued) /\ Len(t) = Len(q) + m
          /\ \A j \in 1 .. Len(q) : t[j] = q[j]
          /\ \A k \in 1 .. m : t[Len(q) + k] = r[k]
      <3> HIDE DEF r
      <3>1. /\ t \in Seq(Queued) /\ Len(t) = Len(q) + m
            /\ \A k \in 1 .. Len(q) + m : t[k] = IF k <= Len(q) THEN q[k] ELSE r[k - Len(q)]
        BY <1>1, <2>1, ConcatProperties
      <3> HIDE DEF t
      <3> QED
        BY <3>1, <1>1
    <2>3. ASSUME NEW k \in 1 .. m
          PROVE  /\ t[Len(q) + k].op = "Binary"
                 /\ t[Len(q) + k].carries = <<EndOf[i + k - 1], EndOf[i + k]>>
      <3>1. r[k] = [op |-> "Binary", carries |-> <<EndOf[i + k - 1], EndOf[i + k]>>]
        BY DEF Carriers
      <3>2. t[Len(q) + k] = r[k]
        BY <2>2
      <3> HIDE DEF r, t
      <3> QED
        BY <3>1, <3>2
    <2> HIDE DEF r, t
    <2>4. Extends(t, q, m)
      BY <1>1, <2>2 DEF Extends
    <2>5. \A j \in Len(q) + 1 .. Len(t) : t[j].op = "Binary"
      <3>1. ASSUME NEW j \in Len(q) + 1 .. Len(t) PROVE t[j].op = "Binary"
        <4>1. j - Len(q) \in 1 .. m /\ Len(q) + (j - Len(q)) = j
          BY <1>1, <2>2
        <4> QED
          BY <4>1, <2>3
      <3> QED
        BY <3>1
    <2>6. /\ \A k \in 0 .. Len(q) : NthOf(t, k) = NthOf(q, k)
          /\ \A k \in 0 .. m : NthOf(t, Len(q) + k) = i + k
      BY <2>4, <2>5, CountsMore DEF i
    <2>7. ASSUME NEW k \in 1 .. Len(t), t[k].op = "Binary"
          PROVE  t[k].carries = <<EndOf[NthOf(t, k) - 1], EndOf[NthOf(t, k)]>>
      <3>1. CASE k \in 1 .. Len(q)
        <4>1. t[k] = q[k] /\ NthOf(t, k) = NthOf(q, k)
          BY <3>1, <1>1, <2>2, <2>6
        <4> QED
          BY <4>1, <3>1, <2>7, <1>1 DEF InOrder
      <3>2. CASE k \notin 1 .. Len(q)
        <4>1. PICK d \in 1 .. m : k = Len(q) + d
          <5>1. k - Len(q) \in 1 .. m /\ Len(q) + (k - Len(q)) = k
            BY <3>2, <1>1, <2>2
          <5> QED
            BY <5>1
        <4>2. t[k].carries = <<EndOf[i + d - 1], EndOf[i + d]>>
          BY <4>1, <2>3
        <4>3. NthOf(t, k) = i + d
          BY <4>1, <2>6
        <4>4. NthOf(t, k) - 1 = i + d - 1
          BY <4>3, <1>5
        <4> QED
          BY <4>2, <4>3, <4>4, Zenon
      <3> QED
        BY <3>1, <3>2
    <2>8. NthOf(t, Len(t)) = i + m
      BY <2>2, <2>6
    <2>9. InOrder(t, EndOf[i + m])
      BY <2>7, <2>8, <1>5 DEF InOrder
    <2> QED
      BY <2>1, <2>9, <1>7 DEF InGoodOrder
  <1> QED
    BY <1>8, <1>9

(* queue_whole_frames moves octets from partial into frames, and leaves    *)
(* none behind that ends a frame.                                          *)
LEMMA QueueWholeKeeps ==
    ASSUME NEW b, InGoodOrder(b), NEW c, c = QueueWhole(b)
    PROVE  /\ InGoodOrder(c) /\ c.took = b.took
           /\ c.framed + c.partial = b.framed + b.partial
           /\ (\E j \in 0 .. Len(Frames) : EndOf[j] = b.framed + b.partial) => c.partial = 0
  <1> DEFINE m == WholeFrames(b.framed, b.partial)
             d == QueueFrames(b, m)
  <1>1. b \in Fields /\ b.framed \in Nat /\ b.partial \in Nat /\ InOrder(b.queued, b.framed)
    BY DEF InGoodOrder, Fields
  <1>2. m \in Nat
    <2> DEFINE i == NthOf(b.queued, Len(b.queued))
    <2>1. Len(b.queued) \in Nat
      BY <1>1, LenProperties DEF Fields
    <2>2. i \in Nat
      BY <2>1, Counts
    <2>3. i \in 0 .. Len(Frames) /\ EndOf[i] = b.framed
      BY <2>2, <1>1, Given DEF InOrder
    <2> HIDE DEF i
    <2> QED
      BY <2>3, <1>1, Whole
  <1>3. /\ InGoodOrder(d) /\ d.partial = b.partial /\ d.took = b.took
        /\ b.framed <= d.framed /\ d.framed <= b.framed + b.partial
        /\ \A j \in 0 .. Len(Frames) : EndOf[j] <= b.framed + b.partial => EndOf[j] <= d.framed
    <2>1. m <= WholeFrames(b.framed, b.partial)
      BY <1>2
    <2> HIDE DEF m, d
    <2>2. d = QueueFrames(b, m) /\ m = WholeFrames(b.framed, b.partial)
      BY DEF m, d
    <2> QED
      BY <2>1, <2>2, <1>1, <1>2, QueueFramesKeep
  <1>4. c = [d EXCEPT !.partial = @ - (d.framed - b.framed)]
    BY DEF QueueWhole
  <1> HIDE DEF d, m
  <1>5. d \in Fields /\ d.framed \in Nat /\ InOrder(d.queued, d.framed)
    BY <1>3 DEF InGoodOrder, Fields
  <1>6. d.partial - (d.framed - b.framed) \in Nat
    BY <1>1, <1>3, <1>5
  <1>7. /\ c \in Fields /\ c.queued = d.queued /\ c.framed = d.framed /\ c.took = d.took
        /\ c.partial = d.partial - (d.framed - b.framed)
    BY <1>4, <1>5, <1>6 DEF Fields
  <1>8. ASSUME NEW j \in 0 .. Len(Frames), EndOf[j] = b.framed + b.partial
        PROVE  c.partial = 0
    <2>1. EndOf[j] <= d.framed
      BY <1>8, <1>1, <1>3
    <2> QED
      BY <2>1, <1>1, <1>3, <1>5, <1>7, <1>8
  <1> QED
    BY <1>1, <1>3, <1>5, <1>7, <1>8 DEF InGoodOrder

(* poll_write takes whole frames, and keeps what is left of the octets it  *)
(* has taken.                                                              *)
LEMMA TakeFramesKeeps ==
    ASSUME NEW b, InGoodOrder(b), b.partial = 0, NEW n \in Nat, NEW c, c = TakeFrames(b, n)
    PROVE  /\ InGoodOrder(c) /\ c.took <= n
           /\ c.framed + c.partial = b.framed + c.took
  <1> DEFINE w == WholeFrames(b.framed, n)
             P == {p \in Ends : b.framed <= p /\ p < b.framed + Batch}
             m == Least(w, Cardinality(P))
             d == QueueFrames(b, m)
             done == d.framed - b.framed
  <1>1. b \in Fields /\ b.framed \in Nat /\ InOrder(b.queued, b.framed)
    BY DEF InGoodOrder, Fields
  <1>2. w \in Nat
    <2> DEFINE i == NthOf(b.queued, Len(b.queued))
    <2>1. Len(b.queued) \in Nat
      BY <1>1, LenProperties DEF Fields
    <2>2. i \in Nat
      BY <2>1, Counts
    <2>3. i \in 0 .. Len(Frames) /\ EndOf[i] = b.framed
      BY <2>2, <1>1, Given DEF InOrder
    <2> HIDE DEF i
    <2> QED
      BY <2>3, <1>1, Whole
  <1>3. Cardinality(P) \in Nat
    <2>1. DOMAIN EndOf = 0 .. Len(Frames) /\ \A j \in 0 .. Len(Frames) : EndOf[j] \in Nat
      BY EndsOfFrames
    <2>2. P \in SUBSET Nat
      BY <2>1 DEF Ends
    <2>3. b.framed + Batch \in Nat
      BY <1>1, Given
    <2>4. \A p \in P : p <= b.framed + Batch
      BY <2>2, <2>3
    <2> HIDE DEF P
    <2>5. IsFiniteSet(P)
      BY <2>2, <2>3, <2>4, FS_BoundedSetOfNaturals
    <2> QED
      BY <2>5, FS_CardinalityType
  <1>4. m \in Nat /\ m <= w
    <2> HIDE DEF w, P
    <2> QED
      BY <1>2, <1>3 DEF Least
  <1>5. /\ InGoodOrder(d) /\ d.partial = b.partial /\ d.took = b.took
        /\ b.framed <= d.framed /\ d.framed <= b.framed + n
    <2>1. m <= WholeFrames(b.framed, n)
      BY <1>4
    <2> HIDE DEF m, d
    <2>2. d = QueueFrames(b, m)
      BY DEF d
    <2> QED
      BY <2>1, <2>2, <1>4, QueueFramesKeep
  <1>6. c = [d EXCEPT !.partial = IF done >= Batch THEN 0 ELSE n - done,
                      !.took = IF done >= Batch THEN done ELSE n]
    BY DEF TakeFrames
  <1> HIDE DEF d, m
  <1>7. d \in Fields /\ d.framed \in Nat /\ InOrder(d.queued, d.framed)
    BY <1>5 DEF InGoodOrder, Fields
  <1>8. done \in 0 .. n /\ Batch \in Nat
    BY <1>1, <1>5, <1>7, Given
  <1>9. /\ c \in Fields /\ c.queued = d.queued /\ c.framed = d.framed
        /\ c.partial = (IF done >= Batch THEN 0 ELSE n - done)
        /\ c.took = (IF done >= Batch THEN done ELSE n)
    <2> HIDE DEF done
    <2>1. (IF done >= Batch THEN 0 ELSE n - done) \in Nat /\ (IF done >= Batch THEN done ELSE n) \in Nat
      BY <1>8
    <2> QED
      BY <1>6, <1>7, <2>1 DEF Fields
  <1> QED
    BY <1>1, <1>5, <1>7, <1>8, <1>9 DEF InGoodOrder

(* With all octets there, the last of them end a frame: a flush queues no  *)
(* piece of one.                                                           *)
LEMMA FlushKeeps ==
    ASSUME NEW b, InGoodOrder(b), NEW j \in 0 .. Len(Frames),
           EndOf[j] = b.framed + b.partial, NEW c, c = FlushPartial(b)
    PROVE  InGoodOrder(c) /\ c.partial = 0 /\ c.framed = EndOf[j] /\ c.took = b.took
  <1> DEFINE d == QueueWhole(b)
  <1>1. /\ InGoodOrder(d) /\ d.took = b.took /\ d.framed + d.partial = b.framed + b.partial
        /\ d.partial = 0
    BY QueueWholeKeeps
  <1>2. c = d
    BY <1>1 DEF FlushPartial
  <1>3. d.framed \in Nat
    BY <1>1 DEF InGoodOrder, Fields
  <1> HIDE DEF d
  <1> QED
    BY <1>1, <1>2, <1>3

-----------------------------------------------------------------------------
(* Writing, step by step.                                                  *)

(* The part of the invariant about what is written.                        *)
Written ==
    /\ produced \in 0 .. Len(Frames)
    /\ out \in Nat /\ partial \in Nat /\ outbound \in Nat /\ framed \in Nat
    /\ up \in Nat /\ taken \in Nat /\ up <= Room
    /\ queued \in Seq(Queued)
    /\ pump \in {"select", "flush", "ended"}
    /\ closing \in BOOLEAN /\ gone \in BOOLEAN
    /\ pump = "flush" => out = 0
    /\ InOrder(queued, framed)
    /\ framed + partial + out = EndOf[produced]

(* It says that BEEP frames and WebSocket frames go together.              *)
LEMMA OneEach ==
    ASSUME Written
    PROVE  OneFrameEach
  <1> DEFINE i == NthOf(queued, Len(queued))
  <1>1. Len(queued) \in Nat /\ Len(Frames) \in Nat
    BY LenProperties, Given DEF Written
  <1>2. i \in Nat
    BY <1>1, Counts
  <1>3. i \in 0 .. Len(Frames) /\ EndOf[i] = framed
    BY <1>1, <1>2 DEF Written, InOrder
  <1> HIDE DEF i
  <1>4. i <= produced
    <2>1. CASE produced < i
      <3>1. EndOf[produced] < EndOf[i] /\ EndOf[produced] \in Nat
        BY <2>1, <1>3, EndsOfFrames DEF Written
      <3> QED
        BY <3>1, <1>3 DEF Written
    <2> QED
      BY <2>1, <1>2, <1>1 DEF Written
  <1>5. \A k : Nth(k) = NthOf(queued, k)
    BY DEF Nth, NthOf
  <1> QED
    BY <1>3, <1>4, <1>5 DEF OneFrameEach, Written, InOrder, i

(* The buffers of a state in which the invariant holds.                    *)
LEMMA BuffersAre ==
    ASSUME Written
    PROVE  /\ InGoodOrder(Buffers) /\ Buffers.framed = framed /\ Buffers.partial = partial
           /\ Buffers.took = 0
  BY DEF Buffers, InGoodOrder, Fields, Written

(* What is kept after buffers were changed.                                *)
LEMMA Kept ==
    ASSUME Written, NEW b, InGoodOrder(b), Keep(b)
    PROVE  /\ outbound' \in Nat /\ up' \in Nat /\ up' <= Room
           /\ framed' = b.framed /\ partial' = b.partial
           /\ framed' \in Nat /\ partial' \in Nat /\ queued' \in Seq(Queued)
           /\ InOrder(queued', framed')
  <1>1. /\ b.outbound \in Nat /\ b.framed \in Nat /\ b.partial \in Nat
        /\ b.queued \in Seq(Queued) /\ InOrder(b.queued, b.framed)
    BY DEF InGoodOrder, Fields
  <1>2. Room \in Nat /\ up \in Nat /\ up <= Room
    BY Given DEF Written
  <1>3. outbound' \in Nat /\ up' \in Nat /\ up' <= Room
    BY <1>1, <1>2 DEF Keep, Drain, Least
  <1> QED
    BY <1>1, <1>3 DEF Keep

(* The same octets are accounted for when what is written leaves out.      *)
LEMMA WrittenAfter ==
    ASSUME Written, NEW b, InGoodOrder(b), Keep(b),
           produced' = produced, taken' = taken, gone' = gone, closing' \in BOOLEAN,
           out' \in Nat, b.framed + b.partial + out' = framed + partial + out,
           pump' \in {"select", "flush", "ended"}, pump' = "flush" => out' = 0
    PROVE  Written'
  BY Kept DEF Written

(* Session::poll_transmit                                                  *)
LEMMA ProduceWrites ==
    ASSUME Written, Produce
    PROVE  Written'
  <1>1. /\ produced + 1 \in 1 .. Len(Frames) /\ produced' = produced + 1 /\ produced \in Nat
        /\ out' = out + Frames[produced + 1]
    BY Given DEF Produce, Written
  <1>2. Frames[produced + 1] \in Nat
    BY <1>1, Given
  <1>3. EndOf[produced + 1] = EndOf[(produced + 1) - 1] + Frames[produced + 1]
    BY <1>1, EndsOfFrames
  <1>4. EndOf[produced + 1] = EndOf[produced] + Frames[produced + 1]
    <2>1. (produced + 1) - 1 = produced
      BY <1>1
    <2> QED
      BY <2>1, <1>3, Zenon
  <1>5. /\ out \in Nat /\ partial \in Nat /\ framed \in Nat
        /\ framed + partial + out = EndOf[produced]
    BY DEF Written
  <1>6. framed + partial + out' = EndOf[produced'] /\ out' \in Nat
    BY <1>1, <1>2, <1>4, <1>5
  <1>7. UNCHANGED <<framed, partial, outbound, queued, up, taken, gone, closing, pump>>
        /\ pump = "select"
    BY DEF Produce, sending, peer
  <1>8. produced' \in 0 .. Len(Frames)
    BY <1>1, Given
  <1> QED
    BY <1>6, <1>7, <1>8 DEF Written

(* poll_write while too much is waiting.                                   *)
LEMMA WriteBlockedWrites ==
    ASSUME Written, WriteBlocked
    PROVE  Written'
  <1>1. /\ Keep(Buffers) /\ pump = "select"
        /\ UNCHANGED <<produced, out, taken, gone, closing, pump>>
    BY DEF WriteBlocked, session, peer
  <1>2. Buffers.framed + Buffers.partial + out' = framed + partial + out /\ out' \in Nat
    BY <1>1, BuffersAre DEF Written
  <1>3. closing' \in BOOLEAN /\ pump' = "select"
    BY <1>1 DEF Written
  <1> QED
    BY <1>1, <1>2, <1>3, BuffersAre, WrittenAfter

(* poll_write                                                              *)
LEMMA WriteWrites ==
    ASSUME Written, NEW n \in 1 .. out, Write(n)
    PROVE  Written'
  <1> DEFINE b1 == [Buffers EXCEPT !.partial = @ + n, !.took = n]
  <1>1. /\ out \in Nat /\ n \in Nat /\ n <= out /\ framed \in Nat /\ partial \in Nat
        /\ closing \in BOOLEAN
    BY DEF Written
  <1>2. PICK b : /\ b = IF partial > 0 THEN QueueWhole(b1) ELSE TakeFrames(Buffers, n)
                 /\ Keep(b) /\ out' = out - b.took /\ pump' = AfterWrite(out - b.took)
    BY DEF Write
  <1>3. UNCHANGED <<produced, taken, gone, closing>>
    BY DEF Write, peer
  <1>4. /\ InGoodOrder(b) /\ b.took \in Nat /\ b.took <= n
        /\ b.framed + b.partial = framed + partial + b.took
    <2>1. CASE partial > 0
      <3>1. /\ InGoodOrder(b1) /\ b1.framed = framed /\ b1.partial = partial + n
            /\ b1.took = n
        <4>1. /\ Buffers \in Fields /\ Buffers.framed = framed /\ Buffers.partial = partial
              /\ InOrder(Buffers.queued, Buffers.framed)
          BY BuffersAre DEF InGoodOrder
        <4>2. partial + n \in Nat
          BY <1>1
        <4>3. /\ b1 \in Fields /\ b1.framed = Buffers.framed /\ b1.queued = Buffers.queued
              /\ b1.partial = partial + n /\ b1.took = n
          BY <4>1, <4>2, <1>1 DEF Fields
        <4> QED
          BY <4>1, <4>3 DEF InGoodOrder
      <3> HIDE DEF b1
      <3>2. b = QueueWhole(b1)
        BY <2>1, <1>2
      <3>3. InGoodOrder(b) /\ b.took = n /\ b.framed + b.partial = framed + (partial + n)
        BY <3>1, <3>2, QueueWholeKeeps
      <3> QED
        BY <3>3, <1>1
    <2>2. CASE ~(partial > 0)
      <3>1. b = TakeFrames(Buffers, n) /\ partial = 0
        BY <2>2, <1>1, <1>2
      <3>2. InGoodOrder(b) /\ b.took <= n /\ b.framed + b.partial = framed + b.took
        BY <3>1, <1>1, BuffersAre, TakeFramesKeeps
      <3>3. b.took \in Nat
        BY <3>2 DEF InGoodOrder, Fields
      <3> QED
        BY <3>1, <3>2, <3>3, <1>1
    <2> QED
      BY <2>1, <2>2
  <1>5. b.framed \in Nat /\ b.partial \in Nat
    BY <1>4 DEF InGoodOrder, Fields
  <1>6. out' \in Nat /\ b.framed + b.partial + out' = framed + partial + out
    BY <1>1, <1>2, <1>4, <1>5
  <1>7. pump' \in {"select", "flush"} /\ (pump' = "flush" => out' = 0)
    BY <1>2 DEF AfterWrite
  <1> QED
    BY <1>1, <1>2, <1>3, <1>4, <1>6, <1>7, WrittenAfter

(* poll_flush, of all there is.                                            *)
LEMMA Flushed ==
    ASSUME Written, out = 0, NEW b, b = FlushPartial(Buffers)
    PROVE  InGoodOrder(b) /\ b.framed + b.partial + 0 = framed + partial + out
  <1>1. /\ produced \in 0 .. Len(Frames) /\ framed \in Nat /\ partial \in Nat
        /\ framed + partial + out = EndOf[produced]
    BY DEF Written
  <1>2. EndOf[produced] = Buffers.framed + Buffers.partial
    BY <1>1, BuffersAre
  <1>3. InGoodOrder(b) /\ b.partial = 0 /\ b.framed = EndOf[produced]
    BY <1>1, <1>2, BuffersAre, FlushKeeps
  <1> QED
    BY <1>1, <1>3

(* The driver waits in poll_flush.                                         *)
LEMMA FlushWrites ==
    ASSUME Written, Flush
    PROVE  Written'
  <1>1. PICK b : b = FlushPartial(Buffers) /\ Keep(b)
    BY DEF Flush
  <1>2. /\ out = 0 /\ out' = 0 /\ UNCHANGED <<produced, taken, gone, closing>>
        /\ closing' \in BOOLEAN /\ pump' \in {"select", "flush"}
    BY DEF Flush, Written, peer
  <1>3. InGoodOrder(b) /\ b.framed + b.partial + 0 = framed + partial + out
    BY <1>1, <1>2, Flushed
  <1> QED
    BY <1>1, <1>2, <1>3, WrittenAfter

(* poll_shutdown                                                           *)
LEMMA ShutdownWrites ==
    ASSUME Written, Shutdown
    PROVE  Written'
  <1>1. PICK b : b = Queue(FlushPartial(Buffers), "Close", CloseCode, 2) /\ Keep(b)
    BY DEF Shutdown
  <1>2. /\ out = 0 /\ out' = 0 /\ UNCHANGED <<produced, taken, gone>>
        /\ closing' \in BOOLEAN /\ pump' \in {"select", "flush"}
    BY DEF Shutdown, Written, peer
  <1> DEFINE c == FlushPartial(Buffers)
  <1>3. InGoodOrder(c) /\ c.framed + c.partial + 0 = framed + partial + out
    BY <1>2, Flushed
  <1>4. CloseCode \in Seq(Nat)
    BY DEF CloseCode
  <1> HIDE DEF c
  <1>5. InGoodOrder(b) /\ b.framed = c.framed /\ b.partial = c.partial
    <2> DEFINE op == "Close"
               e == CloseCode
               n == 2
    <2>1. b = Queue(c, op, e, n)
      BY <1>1 DEF c
    <2>2. op \in {"Pong", "Close"} /\ n \in Nat /\ e \in Seq(Nat)
      BY <1>4
    <2> HIDE DEF op, e, n
    <2>3. InGoodOrder(c)
      BY <1>3
    <2> QED
      BY <2>1, <2>2, <2>3, QueueOther, SMTT(30)
  <1> QED
    BY <1>1, <1>2, <1>3, <1>5, WrittenAfter

(* A control frame queued by the reader is written like the rest.          *)
LEMMA ControlWrites ==
    ASSUME Written, NEW op \in {"Pong", "Close"}, NEW carries \in Seq(Nat), NEW n \in Nat,
           Keep(Queue(Buffers, op, carries, n)),
           UNCHANGED <<produced, out, taken, gone>>, closing' \in BOOLEAN,
           pump' \in {"select", "ended"}
    PROVE  Written'
  <1> DEFINE b == Queue(Buffers, op, carries, n)
  <1>1. InGoodOrder(b) /\ b.framed = framed /\ b.partial = partial
    <2> DEFINE a == Buffers
    <2>1. InGoodOrder(a) /\ a.framed = framed /\ a.partial = partial
      BY BuffersAre
    <2>2. b = Queue(a, op, carries, n)
      OBVIOUS
    <2> HIDE DEF a, b
    <2> QED
      BY <2>1, <2>2, QueueOther, SMTT(30)
  <1> HIDE DEF b
  <1>2. Keep(b)
    BY DEF b
  <1>3. out' \in Nat /\ b.framed + b.partial + out' = framed + partial + out
    BY <1>1 DEF Written
  <1> QED
    BY <1>1, <1>2, <1>3, WrittenAfter

-----------------------------------------------------------------------------
(* The decoder on any octets.                                              *)

(* What the length in a header may be.                                     *)
LEMMA LengthRead ==
    ASSUME NEW s \in Seq(Nat), Len(s) >= 2, NEW l, l = PayloadLength(s)
    PROVE  \/ l = Nothing /\ Len(s) <= 3
           \/ l = Bad
           \/ l.kind = "length" /\ l.len \in Nat /\ l.octets \in 0 .. 2
  <1>1. Len(s) \in Nat /\ \A i \in 1 .. Len(s) : s[i] \in Nat
    BY LenProperties, ElementOfSeq
  <1>2. s[2] \in Nat /\ s[2] % 128 \in Nat
    BY <1>1
  <1>3. Short \in Nat /\ Wide \in Nat
    BY Given
  <1>4. CASE s[2] % 128 = Short
    <2>1. CASE Len(s) < 3
      BY <2>1, <1>1, <1>4 DEF PayloadLength
    <2>2. CASE ~(Len(s) < 3)
      <3>1. s[3] \in Nat
        BY <2>2, <1>1
      <3>2. l = Bad \/ l = [kind |-> "length", len |-> s[3], octets |-> 1]
        BY <2>2, <1>4 DEF PayloadLength
      <3> QED
        BY <3>1, <3>2
    <2> QED
      BY <2>1, <2>2
  <1>5. CASE s[2] % 128 = Short + 1
    <2>0. s[2] % 128 # Short
      BY <1>3, <1>5
    <2>1. CASE Len(s) < 4
      BY <2>0, <2>1, <1>1, <1>5 DEF PayloadLength
    <2>2. CASE ~(Len(s) < 4)
      <3>1. s[3] \in Nat /\ s[4] \in Nat
        BY <2>2, <1>1
      <3>2. s[3] * Wide + s[4] \in Nat
        <4>1. \A a, b, c \in Nat : a * b + c \in Nat
          OBVIOUS
        <4> QED
          BY <3>1, <4>1, <1>3, Zenon
      <3>3. l = Bad \/ l = [kind |-> "length", len |-> s[3] * Wide + s[4], octets |-> 2]
        BY <2>0, <2>2, <1>5 DEF PayloadLength
      <3> QED
        BY <3>2, <3>3
    <2> QED
      BY <2>1, <2>2
  <1>6. CASE s[2] % 128 # Short /\ s[2] % 128 # Short + 1
    <2>1. l = [kind |-> "length", len |-> s[2] % 128, octets |-> 0]
      BY <1>6 DEF PayloadLength
    <2> QED
      BY <2>1, <1>2
  <1> QED
    BY <1>4, <1>5, <1>6

(* What decode_header says is one of three things.                         *)
LEMMA HeaderRead ==
    ASSUME NEW s \in Seq(Nat), NEW h, h = DecodeHeader(s)
    PROVE  \/ h = Nothing /\ Len(s) <= 4
           \/ h = Bad
           \/ /\ h.kind = "header" /\ h.op \in OpCodes /\ h.masked \in BOOLEAN
              /\ h.len \in 0 .. MaxPayload /\ h.size \in 2 .. 5
              /\ Len(s) >= 2
  <1> DEFINE ops == {o \in OpCodes : Code[o] = s[1] % 16}
             op == CHOOSE o \in ops : TRUE
             l == PayloadLength(s)
             masked == s[2] >= 128
             at == 2 + l.octets
  <1>1. Len(s) \in Nat
    BY LenProperties
  <1>2. CASE Len(s) < 2
    <2>1. h = Nothing
      BY <1>2 DEF DecodeHeader
    <2> QED
      BY <2>1, <1>1, <1>2
  <1>3. CASE Len(s) >= 2
    <2>1. \/ l = Nothing /\ Len(s) <= 3
          \/ l = Bad
          \/ l.kind = "length" /\ l.len \in Nat /\ l.octets \in 0 .. 2
      <3> HIDE DEF l
      <3> QED
        BY <1>3, LengthRead DEF l
    <2>2. h = IF (s[1] % 128) \div 16 # 0 \/ ops = {} THEN Bad
              ELSE IF l.kind # "length" THEN l
              ELSE IF l.len > MaxPayload THEN Bad
              ELSE IF op \in Control /\ (l.len >= Short \/ s[1] < 128) THEN Bad
              ELSE IF masked /\ Len(s) <= at THEN Nothing
              ELSE [kind |-> "header", op |-> op, masked |-> masked, len |-> l.len,
                    size |-> IF masked THEN at + 1 ELSE at]
      BY <1>1, <1>3 DEF DecodeHeader
    <2>3. ops # {} => op \in OpCodes
      OBVIOUS
    <2>4. masked \in BOOLEAN
      OBVIOUS
    <2> HIDE DEF ops, op, l, masked
    <2>5. MaxPayload \in Nat
      BY Given
    <2>6. Nothing.kind # "length" /\ Bad.kind # "length"
      BY DEF Nothing, Bad
    <2>7. CASE l.kind # "length"
      BY <2>1, <2>2, <2>7, <1>1
    <2>8. CASE l.kind = "length"
      <3>1. l.len \in Nat /\ l.octets \in 0 .. 2 /\ at \in 2 .. 4
        BY <2>1, <2>6, <2>8
      <3>2. \/ h = Bad
            \/ h = Nothing /\ Len(s) <= at
            \/ /\ h = [kind |-> "header", op |-> op, masked |-> masked, len |-> l.len,
                       size |-> IF masked THEN at + 1 ELSE at]
               /\ ops # {} /\ ~(l.len > MaxPayload)
        BY <2>2, <2>8
      <3>3. (IF masked THEN at + 1 ELSE at) \in 2 .. 5
        BY <3>1
      <3> HIDE DEF at
      <3> QED
        BY <3>1, <3>2, <3>3, <2>3, <2>4, <2>5, <1>1, <1>3, SMTT(30)
    <2> QED
      BY <2>7, <2>8
  <1> QED
    BY <1>1, <1>2, <1>3

-----------------------------------------------------------------------------
(* Sequences of octets.                                                    *)

(* Two sequences, one behind the other.                                    *)
LEMMA Behind ==
    ASSUME NEW s \in Seq(Nat), NEW t \in Seq(Nat)
    PROVE  /\ s \o t \in Seq(Nat) /\ Len(s \o t) = Len(s) + Len(t)
           /\ Len(s) \in Nat /\ Len(t) \in Nat
           /\ \A i \in 1 .. Len(s) : (s \o t)[i] = s[i]
           /\ \A i \in 1 .. Len(t) : (s \o t)[Len(s) + i] = t[i]
           /\ s \o << >> = s /\ << >> \o s = s
  <1>1. /\ s \o t \in Seq(Nat) /\ Len(s \o t) = Len(s) + Len(t)
        /\ \A i \in 1 .. Len(s) + Len(t) : (s \o t)[i] =
               IF i <= Len(s) THEN s[i] ELSE t[i - Len(s)]
    BY ConcatProperties
  <1>2. Len(s) \in Nat /\ Len(t) \in Nat
    BY LenProperties
  <1>3. \A i \in 1 .. Len(s) : (s \o t)[i] = s[i]
    BY <1>1, <1>2
  <1>4. \A i \in 1 .. Len(t) : (s \o t)[Len(s) + i] = t[i]
    BY <1>1, <1>2
  <1>5. s \o << >> = s /\ << >> \o s = s
    BY ConcatEmptySeq
  <1> QED
    BY <1>1, <1>2, <1>3, <1>4, <1>5

(* It does not matter which two of three are put together first.           *)
LEMMA Together ==
    \A s, t, u \in Seq(Nat) : (s \o t) \o u = s \o (t \o u)
  <1> TAKE s, t, u \in Seq(Nat)
  <1> QED
    BY ConcatAssociative, SMTT(30)

(* What is behind the same front is the same.                              *)
LEMMA SameRest ==
    \A s, t, u \in Seq(Nat) : s \o t = s \o u => t = u
  <1>1. \A T : \A s, t, u \in Seq(T) : s \o t = s \o u => t = u
    BY ConcatSimplifications
  <1> QED
    BY <1>1

(* A piece of a sequence.                                                  *)
LEMMA Piece ==
    ASSUME NEW s \in Seq(Nat), NEW m \in Nat, NEW n \in Nat, m <= n, n <= Len(s),
           NEW p, p = SubSeq(s, m + 1, n)
    PROVE  p \in Seq(Nat) /\ Len(p) = n - m /\ \A i \in 1 .. n - m : p[i] = s[m + i]
  <1>1. Len(s) \in Nat /\ \A i \in 1 .. Len(s) : s[i] \in Nat
    BY LenProperties, ElementOfSeq
  <1>2. \A i \in m + 1 .. n : s[i] \in Nat
    BY <1>1
  <1>3. /\ SubSeq(s, m + 1, n) \in Seq(Nat)
        /\ Len(SubSeq(s, m + 1, n)) = IF m + 1 <= n THEN n - (m + 1) + 1 ELSE 0
        /\ \A i \in 1 .. n - (m + 1) + 1 : SubSeq(s, m + 1, n)[i] = s[(m + 1) + i - 1]
    <2>1. m + 1 \in Int /\ n \in Int
      OBVIOUS
    <2> QED
      BY <1>2, <2>1, SubSeqProperties
  <1>4. ASSUME NEW i \in 1 .. n - m PROVE p[i] = s[m + i]
    <2>1. i \in 1 .. n - (m + 1) + 1 /\ (m + 1) + i - 1 = m + i
      OBVIOUS
    <2> QED
      BY <1>3, <2>1
  <1>5. Len(p) = n - m
    BY <1>3
  <1> QED
    BY <1>3, <1>4, <1>5

(* A sequence cut in two.                                                  *)
CutInto(s, n, p, r) ==
    /\ p \in Seq(Nat) /\ r \in Seq(Nat) /\ p \o r = s
    /\ Len(p) = n /\ Len(r) = Len(s) - n
    /\ \A i \in 1 .. n : p[i] = s[i]

(* So is any sequence, at any of its octets.                               *)
LEMMA Cut ==
    ASSUME NEW s \in Seq(Nat), NEW n \in Nat, n <= Len(s)
    PROVE  CutInto(s, n, SubSeq(s, 1, n), Drop(s, n))
  <1> DEFINE p == SubSeq(s, 1, n)
             r == Drop(s, n)
  <1>1. Len(s) \in Nat
    BY LenProperties
  <1>2. p \in Seq(Nat) /\ Len(p) = n /\ \A i \in 1 .. n : p[i] = s[i]
    <2>1. p = SubSeq(s, 0 + 1, n)
      OBVIOUS
    <2>2. p \in Seq(Nat) /\ Len(p) = n - 0 /\ \A i \in 1 .. n - 0 : p[i] = s[0 + i]
      BY <2>1, Piece
    <2> QED
      BY <2>2
  <1>3. r \in Seq(Nat) /\ Len(r) = Len(s) - n /\ \A i \in 1 .. Len(s) - n : r[i] = s[n + i]
    BY <1>1, Piece DEF Drop
  <1>4. /\ p \o r \in Seq(Nat) /\ Len(p \o r) = Len(p) + Len(r)
        /\ \A i \in 1 .. Len(p) : (p \o r)[i] = p[i]
        /\ \A i \in 1 .. Len(r) : (p \o r)[Len(p) + i] = r[i]
    BY <1>2, <1>3, Behind
  <1>5. ASSUME NEW i \in 1 .. Len(s) PROVE (p \o r)[i] = s[i]
    <2>1. CASE i <= n
      BY <2>1, <1>1, <1>2, <1>4
    <2>2. CASE ~(i <= n)
      <3>1. PICK k \in 1 .. Len(s) - n : i = n + k
        <4>1. i - n \in 1 .. Len(s) - n /\ i = n + (i - n)
          BY <2>2, <1>1
        <4> QED
          BY <4>1
      <3>2. k \in 1 .. Len(r) /\ Len(p) + k = i
        BY <3>1, <1>2, <1>3
      <3>3. (p \o r)[Len(p) + k] = r[k]
        BY <3>2, <1>4
      <3>4. r[k] = s[n + k]
        BY <3>1, <1>3
      <3> QED
        BY <3>1, <3>2, <3>3, <3>4
    <2> QED
      BY <2>1, <2>2
  <1>6. Len(p \o r) = Len(s)
    BY <1>1, <1>2, <1>3, <1>4
  <1>7. p \o r = s
    <2>1. \A i \in 1 .. Len(p \o r) : (p \o r)[i] = s[i]
      BY <1>5, <1>6
    <2> QED
      BY <1>4, <1>6, <2>1, SeqEqual
  <1> QED
    BY <1>2, <1>3, <1>7 DEF CutInto

(* The front of what has arrived, s, is the front of what was sent, and    *)
(* once it is all there the rest is the rest.                              *)
SentAs(s, w, e, r) ==
    /\ s \in Seq(Nat) /\ w \in Seq(Nat) /\ e \in Seq(Nat) /\ r \in Seq(Nat)
    /\ s \o w = e \o r

(* This is how a decoder meets what an encoder wrote.                      *)
LEMMA Arrives ==
    ASSUME NEW s, NEW w, NEW e, NEW r, SentAs(s, w, e, r)
    PROVE  /\ Len(s) \in Nat /\ Len(e) \in Nat
           /\ \A i \in 1 .. Len(s) : i <= Len(e) => s[i] = e[i]
           /\ Len(s) >= Len(e) => Drop(s, Len(e)) \o w = r
  <1>1. s \in Seq(Nat) /\ w \in Seq(Nat) /\ e \in Seq(Nat) /\ r \in Seq(Nat) /\ s \o w = e \o r
    BY DEF SentAs
  <1>2. Len(s) \in Nat /\ Len(e) \in Nat
    BY <1>1, LenProperties
  <1>3. ASSUME NEW i \in 1 .. Len(s), i <= Len(e) PROVE s[i] = e[i]
    <2>1. (s \o w)[i] = s[i]
      BY <1>1, Behind
    <2>2. i \in 1 .. Len(e)
      BY <1>2, <1>3
    <2>3. (e \o r)[i] = e[i]
      BY <1>1, <2>2, Behind
    <2> QED
      BY <1>1, <2>1, <2>3
  <1>4. ASSUME Len(s) >= Len(e) PROVE Drop(s, Len(e)) \o w = r
    <2> DEFINE p == SubSeq(s, 1, Len(e))
               d == Drop(s, Len(e))
    <2>1. /\ p \in Seq(Nat) /\ d \in Seq(Nat) /\ p \o d = s /\ Len(p) = Len(e)
          /\ \A i \in 1 .. Len(e) : p[i] = s[i]
      <3>1. Len(e) <= Len(s)
        BY <1>2, <1>4
      <3>2. CutInto(s, Len(e), p, d)
        BY <1>1, <1>2, <3>1, Cut
      <3> QED
        BY <3>2 DEF CutInto
    <2> HIDE DEF p, d
    <2>2. p = e
      <3>1. \A i \in 1 .. Len(p) : p[i] = e[i]
        <4>1. ASSUME NEW i \in 1 .. Len(p) PROVE p[i] = e[i]
          <5>1. i \in 1 .. Len(e) /\ i \in 1 .. Len(s) /\ i <= Len(e)
            BY <2>1, <1>2, <1>4
          <5>2. p[i] = s[i]
            BY <5>1, <2>1
          <5>3. s[i] = e[i]
            BY <5>1, <1>3
          <5> QED
            BY <5>2, <5>3
        <4> QED
          BY <4>1
      <3> QED
        BY <3>1, <2>1, <1>1, SeqEqual
    <2>3. (e \o d) \o w = e \o (d \o w)
      <3>1. e \in Seq(Nat) /\ d \in Seq(Nat) /\ w \in Seq(Nat)
        BY <1>1, <2>1
      <3> HIDE DEF d
      <3> QED
        BY <3>1, Together, Zenon
    <2>4. e \o (d \o w) = e \o r
      BY <2>1, <2>2, <2>3, <1>1
    <2>5. d \o w \in Seq(Nat)
      BY <1>1, <2>1, Behind
    <2>6. d \o w = r
      BY <2>4, <2>5, <1>1, SameRest
    <2> QED
      BY <2>6 DEF d
  <1> QED
    BY <1>2, <1>3, <1>4

-----------------------------------------------------------------------------
(* Decoding what was encoded.                                              *)

(* Masking keeps the length, and keeps octets octets.                      *)
LEMMA MaskedType ==
    ASSUME NEW d \in Seq(Nat)
    PROVE  /\ Masked(d) \in Seq(Nat) /\ Len(Masked(d)) = Len(d)
           /\ \A i \in 1 .. Len(d) : Masked(d)[i] = (d[i] + 64) % 128
  <1>1. Len(d) \in Nat /\ \A i \in 1 .. Len(d) : d[i] \in Nat
    BY LenProperties, ElementOfSeq
  <1>2. \A i \in 1 .. Len(d) : (d[i] + 64) % 128 \in Nat
    BY <1>1
  <1>3. Masked(d) = [i \in 1 .. Len(d) |-> (d[i] + 64) % 128]
    BY DEF Masked, Key
  <1>4. Masked(d) \in [1 .. Len(d) -> Nat]
    BY <1>2, <1>3
  <1> QED
    BY <1>1, <1>3, <1>4, Listed

(* What Decoder::poll returns, and how much it may leave waiting.          *)
LEMMA Polled ==
    ASSUME NEW s \in Seq(Nat), NEW e, e = Poll(s)
    PROVE  \/ e = Nothing /\ Len(s) <= 4 + MaxPayload
           \/ e = Bad
           \/ /\ e.kind \in OpCodes /\ e.payload \in Seq(Nat)
              /\ e.rest \in Seq(Nat) /\ Len(e.rest) <= Len(s)
  <1> DEFINE h == DecodeHeader(s)
             data == SubSeq(s, h.size + 1, h.size + h.len)
  <1>1. Len(s) \in Nat /\ MaxPayload \in Nat
    BY LenProperties, Given
  <1>2. \/ h = Nothing /\ Len(s) <= 4
        \/ h = Bad
        \/ /\ h.kind = "header" /\ h.op \in OpCodes /\ h.masked \in BOOLEAN
           /\ h.len \in 0 .. MaxPayload /\ h.size \in 2 .. 5
    <2>1. h = DecodeHeader(s)
      OBVIOUS
    <2> HIDE DEF h
    <2> QED
      BY <2>1, HeaderRead
  <1>3. e = IF h.kind # "header" THEN h
            ELSE IF Len(s) < h.size + h.len THEN Nothing
            ELSE [kind |-> h.op, payload |-> IF h.masked THEN Masked(data) ELSE data,
                  rest |-> Drop(s, h.size + h.len)]
    BY DEF Poll
  <1> HIDE DEF h, data
  <1>4. CASE h.kind # "header"
    BY <1>1, <1>2, <1>3, <1>4
  <1>5. CASE h.kind = "header"
    <2>1. h.op \in OpCodes /\ h.len \in 0 .. MaxPayload /\ h.size \in 2 .. 5
      BY <1>2, <1>5 DEF Nothing, Bad
    <2>2. CASE Len(s) < h.size + h.len
      BY <1>1, <1>3, <1>5, <2>1, <2>2, SMTT(30)
    <2>3. CASE ~(Len(s) < h.size + h.len)
      <3>1. h.size \in Nat /\ h.size + h.len \in Nat /\ h.size <= h.size + h.len /\ h.size + h.len <= Len(s)
        <4>1. h.size \in Nat /\ h.len \in Nat
          BY <1>1, <2>1
        <4> QED
          BY <4>1, <1>1, <2>3
      <3>2. data \in Seq(Nat)
        <4>1. data = SubSeq(s, h.size + 1, h.size + h.len)
          BY DEF data
        <4> QED
          BY <3>1, <4>1, Piece
      <3>3. Drop(s, h.size + h.len) \in Seq(Nat) /\ Len(Drop(s, h.size + h.len)) = Len(s) - (h.size + h.len)
        <4>1. CutInto(s, h.size + h.len, SubSeq(s, 1, h.size + h.len), Drop(s, h.size + h.len))
          BY <3>1, Cut
        <4> QED
          BY <4>1 DEF CutInto
      <3>4. (IF h.masked THEN Masked(data) ELSE data) \in Seq(Nat)
        BY <3>2, MaskedType
      <3>5. e = [kind |-> h.op, payload |-> IF h.masked THEN Masked(data) ELSE data,
                 rest |-> Drop(s, h.size + h.len)]
        BY <1>3, <1>5, <2>3
      <3>6. Len(Drop(s, h.size + h.len)) <= Len(s)
        BY <3>1, <3>3, <1>1
      <3> QED
        BY <2>1, <3>3, <3>4, <3>5, <3>6
    <2> QED
      BY <2>2, <2>3
  <1> QED
    BY <1>4, <1>5

(* The codes of the frames tell them apart.                                *)
LEMMA Codes ==
    /\ DOMAIN Code = {"Continuation", "Text", "Binary", "Reserved", "Close", "Ping", "Pong"}
    /\ OpCodes = {"Continuation", "Text", "Binary", "Close", "Ping", "Pong"}
    /\ \A o \in DOMAIN Code : Code[o] \in 0 .. 10
    /\ \A o, p \in DOMAIN Code : Code[o] = Code[p] => o = p
  <1>1. DOMAIN Code = {"Continuation", "Text", "Binary", "Reserved", "Close", "Ping", "Pong"}
    BY DEF Code
  <1>2. /\ Code["Continuation"] = 0 /\ Code["Text"] = 1 /\ Code["Binary"] = 2
        /\ Code["Reserved"] = 3 /\ Code["Close"] = 8 /\ Code["Ping"] = 9 /\ Code["Pong"] = 10
    BY DEF Code
  <1>3. OpCodes = {"Continuation", "Text", "Binary", "Close", "Ping", "Pong"}
    BY <1>1 DEF OpCodes
  <1>4. \A o \in DOMAIN Code : Code[o] \in 0 .. 10
    BY <1>1, <1>2
  <1>5. \A o, p \in DOMAIN Code : Code[o] = Code[p] => o = p
    BY <1>1, <1>2
  <1> QED
    BY <1>1, <1>3, <1>4, <1>5

(* The first two octets of a frame.                                        *)
First(f) == (IF f.fin THEN 128 ELSE 0) + (IF f.rsv THEN 16 ELSE 0) + Code[f.op]
Second(f, mask) == (IF mask THEN 128 ELSE 0) + Length(Len(f.payload))[1]
HeaderSize(f, mask) == 1 + Len(Length(Len(f.payload))) + (IF mask THEN 1 ELSE 0)

(* e is f as encode_header and the masking make it.                        *)
IsEncoded(e, f, mask) ==
    /\ e \in Seq(Nat) /\ Len(f.payload) \in Nat
    /\ HeaderSize(f, mask) \in 2 .. 5
    /\ Len(e) = HeaderSize(f, mask) + Len(f.payload)
    /\ e[1] = First(f) /\ e[2] = Second(f, mask)
    /\ Len(f.payload) >= Short /\ Len(f.payload) < Wide => e[3] = Len(f.payload)
    /\ Len(f.payload) >= Wide =>
         e[3] = Len(f.payload) \div Wide /\ e[4] = Len(f.payload) % Wide
    /\ \A i \in 1 .. Len(f.payload) :
         e[HeaderSize(f, mask) + i] =
             IF mask THEN (f.payload[i] + 64) % 128 ELSE f.payload[i]

(* The fields of a frame.                                                  *)
LEMMA FrameType ==
    ASSUME NEW f \in WsFrame
    PROVE  /\ f.fin \in BOOLEAN /\ f.rsv \in BOOLEAN /\ f.op \in DOMAIN Code
           /\ f.payload \in Seq(Nat) /\ Len(f.payload) \in Nat
           /\ \A i \in 1 .. Len(f.payload) : f.payload[i] \in 0 .. 127
  <1>1. f.fin \in BOOLEAN /\ f.rsv \in BOOLEAN /\ f.op \in DOMAIN Code /\ f.payload \in Seq(Octet)
    BY DEF WsFrame
  <1>2. Len(f.payload) \in Nat /\ \A i \in 1 .. Len(f.payload) : f.payload[i] \in Octet
    BY <1>1, LenProperties, ElementOfSeq
  <1>3. Octet = 0 .. 127
    BY DEF Octet, Key
  <1>4. Octet \subseteq Nat
    BY <1>3
  <1>5. f.payload \in Seq(Nat)
    BY <1>1, <1>4, SeqMonotonic
  <1> QED
    BY <1>1, <1>2, <1>3, <1>5

(* Short tuples, one behind the other.                                     *)
LEMMA Tuples ==
    ASSUME NEW a \in Nat, NEW b \in Nat, NEW c \in Nat
    PROVE  /\ <<a, b>> \o << >> = <<a, b>>
           /\ <<a, b>> \o <<c>> = <<a, b, c>>
  <1>1. <<a, b>> \in Seq(Nat) /\ Len(<<a, b>>) = 2 /\ <<a, b>>[1] = a /\ <<a, b>>[2] = b
    OBVIOUS
  <1>2. <<a, b>> \o << >> = <<a, b>>
    BY <1>1, ConcatEmptySeq
  <1>3. <<a, b>> \o <<c>> = <<a, b, c>>
    <2> DEFINE p == <<a, b>>
               q == <<c>>
               r == <<a, b, c>>
    <2>1. q \in Seq(Nat) /\ Len(q) = 1 /\ q[1] = c
      OBVIOUS
    <2>2. r \in Seq(Nat) /\ Len(r) = 3 /\ r[1] = a /\ r[2] = b /\ r[3] = c
      OBVIOUS
    <2> HIDE DEF q, r
    <2>3. p \in Seq(Nat) /\ Len(p) = 2 /\ p[1] = a /\ p[2] = b
      BY <1>1
    <2> HIDE DEF p
    <2>4. /\ p \o q \in Seq(Nat) /\ Len(p \o q) = Len(p) + Len(q)
          /\ \A i \in 1 .. Len(p) : (p \o q)[i] = p[i]
          /\ \A i \in 1 .. Len(q) : (p \o q)[Len(p) + i] = q[i]
      <3>1. p \in Seq(Nat) /\ q \in Seq(Nat)
        BY <2>1, <2>3
      <3> QED
        BY <3>1, Behind
    <2>5. /\ Len(p \o q) = 3 /\ (p \o q)[1] = a /\ (p \o q)[2] = b /\ (p \o q)[3] = c
      BY <2>1, <2>3, <2>4
    <2>6. \A i \in 1 .. Len(p \o q) : (p \o q)[i] = r[i]
      BY <2>2, <2>5
    <2>7. p \o q = r
      BY <2>2, <2>4, <2>5, <2>6, SeqEqual
    <2> QED
      BY <2>7 DEF p, q, r
  <1> QED
    BY <1>2, <1>3

(* And two pairs.                                                          *)
LEMMA Pairs ==
    \A a, b, c, d \in Nat : <<a, b>> \o <<c, d>> = <<a, b, c, d>>
  <1> TAKE a, b, c, d \in Nat
  <1> DEFINE p == <<a, b>>
             q == <<c, d>>
             r == <<a, b, c, d>>
  <1>1. q \in Seq(Nat) /\ Len(q) = 2 /\ q[1] = c /\ q[2] = d
    OBVIOUS
  <1>2. r \in Seq(Nat) /\ Len(r) = 4 /\ r[1] = a /\ r[2] = b /\ r[3] = c /\ r[4] = d
    OBVIOUS
  <1> HIDE DEF q, r
  <1>3. p \in Seq(Nat) /\ Len(p) = 2 /\ p[1] = a /\ p[2] = b
    OBVIOUS
  <1> HIDE DEF p
  <1>4. /\ p \o q \in Seq(Nat) /\ Len(p \o q) = Len(p) + Len(q)
        /\ \A i \in 1 .. Len(p) : (p \o q)[i] = p[i]
        /\ \A i \in 1 .. Len(q) : (p \o q)[Len(p) + i] = q[i]
    <2>1. p \in Seq(Nat) /\ q \in Seq(Nat)
      BY <1>1, <1>3
    <2> QED
      BY <2>1, Behind
  <1>5. /\ Len(p \o q) = 4 /\ (p \o q)[1] = a /\ (p \o q)[2] = b
        /\ (p \o q)[3] = c /\ (p \o q)[4] = d
    BY <1>1, <1>3, <1>4
  <1>6. \A i \in 1 .. Len(p \o q) : (p \o q)[i] = r[i]
    BY <1>2, <1>5, SMTT(30)
  <1>7. p \o q = r
    BY <1>2, <1>4, <1>5, <1>6, SeqEqual
  <1> QED
    BY <1>7 DEF p, q, r

(* Division leaves a quotient and a rest, and both give the number back.   *)
LEMMA Divided ==
    ASSUME NEW n \in Nat, NEW w \in Nat, w > 0
    PROVE  /\ n \div w \in Nat /\ n % w \in Nat /\ (n \div w) * w + (n % w) = n
           /\ n >= w => n \div w # 0
  <1>1. n \div w \in Nat
    OBVIOUS
  <1>2. n % w \in 0 .. w - 1
    OBVIOUS
  <1>3. (n \div w) * w + (n % w) = n
    OBVIOUS
  <1>4. n >= w => n \div w # 0
    BY <1>1, <1>2, <1>3
  <1> QED
    BY <1>1, <1>2, <1>3, <1>4

(* Encoding makes it so.                                                   *)
LEMMA Encoded ==
    ASSUME NEW f \in WsFrame, NEW mask \in BOOLEAN, NEW e, e = Encode(f, mask)
    PROVE  IsEncoded(e, f, mask)
  <1> DEFINE p == f.payload
             n == Len(p)
             l == Length(n)
             hd == <<First(f), Second(f, mask)>> \o Tail(l)
             body == IF mask THEN <<Key>> \o Masked(p) ELSE p
             K == IF mask THEN 1 ELSE 0
  <1>1. e = hd \o body
    BY DEF Encode, First, Second
  <1>2. /\ f.fin \in BOOLEAN /\ f.rsv \in BOOLEAN /\ f.op \in DOMAIN Code
        /\ p \in Seq(Nat) /\ n \in Nat /\ \A i \in 1 .. n : p[i] \in 0 .. 127
    BY FrameType
  <1>3. Short \in Nat /\ Wide \in Nat /\ Wide > 0 /\ Short > 0 /\ Short < Wide
    BY Given
  <1>4. First(f) \in Nat
    <2>1. Code[f.op] \in Nat
      BY <1>2, Codes
    <2> QED
      BY <2>1, <1>2 DEF First
  <1> HIDE DEF p
  <1>5. /\ hd \in Seq(Nat) /\ Len(hd) = 1 + Len(l) /\ hd[1] = First(f) /\ hd[2] = Second(f, mask)
        /\ n >= Short /\ n < Wide => Len(hd) = 3 /\ hd[3] = n
        /\ n >= Wide => Len(hd) = 4 /\ hd[3] = n \div Wide /\ hd[4] = n % Wide
        /\ Len(l) \in 1 .. 3 /\ Len(hd) \in 2 .. 4
    <2> DEFINE A == First(f)
               B == Second(f, mask)
    <2>1. B = (IF mask THEN 128 ELSE 0) + l[1]
      BY DEF Second, p
    <2> HIDE DEF n, A, B
    <2>2. CASE n < Short
      <3>1. l = <<n>>
        BY <2>2 DEF Length
      <3>2. Len(l) = 1 /\ l[1] = n /\ Tail(l) = << >>
        BY <3>1
      <3>3. A \in Nat /\ B \in Nat
        BY <1>2, <1>4, <2>1, <3>2 DEF A, n
      <3>4. hd = <<A, B>>
        <4>1. <<A, B>> \o << >> = <<A, B>>
          BY <3>3, Tuples
        <4> QED
          BY <3>2, <4>1 DEF A, B
      <3> HIDE DEF hd, l
      <3> QED
        BY <3>2, <3>3, <3>4, <2>2, <1>2, <1>3 DEF A, B, n
    <2>3. CASE n >= Short /\ n < Wide
      <3>1. l = <<Short, n>>
        BY <2>3, <1>2, <1>3 DEF Length, n
      <3>2. Len(l) = 2 /\ l[1] = Short /\ Tail(l) = <<n>>
        BY <3>1
      <3>3. A \in Nat /\ B \in Nat /\ n \in Nat
        BY <1>2, <1>3, <1>4, <2>1, <3>2 DEF A, n
      <3>4. hd = <<A, B, n>>
        <4>1. <<A, B>> \o <<n>> = <<A, B, n>>
          BY <3>3, Tuples
        <4> QED
          BY <3>2, <4>1 DEF A, B
      <3> HIDE DEF hd, l
      <3> QED
        BY <3>2, <3>3, <3>4, <2>3, <1>3 DEF A, B
    <2>4. CASE n >= Wide
      <3>1. l = <<Short + 1, n \div Wide, n % Wide>>
        BY <2>4, <1>2, <1>3, SMTT(30) DEF Length, n
      <3>2. Len(l) = 3 /\ l[1] = Short + 1 /\ Tail(l) = <<n \div Wide, n % Wide>>
        BY <3>1
      <3>3. A \in Nat /\ B \in Nat /\ n \div Wide \in Nat /\ n % Wide \in Nat /\ n \in Nat
        <4>1. n \div Wide \in Nat /\ n % Wide \in Nat /\ n \in Nat
          BY <1>2, <1>3, Divided DEF n
        <4>2. A \in Nat /\ B \in Nat
          BY <1>3, <1>4, <2>1, <3>2 DEF A
        <4> QED
          BY <4>1, <4>2
      <3>4. hd = <<A, B, n \div Wide, n % Wide>>
        <4> DEFINE x == n \div Wide
                   y == n % Wide
        <4>1. <<A, B>> \o <<x, y>> = <<A, B, x, y>>
          <5>1. x \in Nat /\ y \in Nat /\ A \in Nat /\ B \in Nat
            BY <3>3
          <5> HIDE DEF x, y
          <5>2. \A a, b, c, d \in Nat : <<a, b>> \o <<c, d>> = <<a, b, c, d>>
            BY Pairs
          <5> QED
            BY <5>1, <5>2, Zenon
        <4> QED
          BY <3>2, <4>1 DEF A, B
      <3> HIDE DEF hd, l
      <3> QED
        BY <3>2, <3>3, <3>4, <2>4, <1>3 DEF A, B
    <2>5. n \in Nat
      BY <1>2 DEF n
    <2>6. n < Short \/ (n >= Short /\ n < Wide) \/ n >= Wide
      BY <2>5, <1>3
    <2> HIDE DEF hd, l
    <2> QED
      BY <2>2, <2>3, <2>4, <2>6
  <1>6. /\ body \in Seq(Nat) /\ Len(body) = K + n
        /\ \A i \in 1 .. n : body[K + i] = IF mask THEN (p[i] + 64) % 128 ELSE p[i]
    <2>1. CASE mask
      <3>1. /\ Masked(p) \in Seq(Nat) /\ Len(Masked(p)) = n
            /\ \A i \in 1 .. n : Masked(p)[i] = (p[i] + 64) % 128
        BY <1>2, MaskedType
      <3>2. <<Key>> \in Seq(Nat) /\ Len(<<Key>>) = 1
        BY DEF Key
      <3>3. body = <<Key>> \o Masked(p) /\ K = 1
        BY <2>1
      <3> HIDE DEF body, K
      <3>4. /\ body \in Seq(Nat) /\ Len(body) = 1 + n
            /\ \A i \in 1 .. n : body[1 + i] = Masked(p)[i]
        BY <3>1, <3>2, <3>3, Behind
      <3> QED
        BY <2>1, <3>1, <3>3, <3>4
    <2>2. CASE ~mask
      <3>1. body = p /\ K = 0
        BY <2>2
      <3> HIDE DEF body, K
      <3> QED
        BY <2>2, <3>1, <1>2
    <2> QED
      BY <2>1, <2>2
  <1>7. HeaderSize(f, mask) = Len(hd) + K /\ K \in 0 .. 1
    <2>1. HeaderSize(f, mask) = 1 + Len(l) + K
      BY DEF HeaderSize, p
    <2> HIDE DEF hd, l
    <2> QED
      BY <2>1, <1>5
  <1> HIDE DEF hd, body, K, n, l
  <1>8. /\ e \in Seq(Nat) /\ Len(e) = Len(hd) + Len(body)
        /\ \A i \in 1 .. Len(hd) : e[i] = hd[i]
        /\ \A i \in 1 .. Len(body) : e[Len(hd) + i] = body[i]
    <2>1. hd \in Seq(Nat) /\ body \in Seq(Nat)
      BY <1>5, <1>6
    <2> QED
      BY <1>1, <2>1, Behind
  <1>9. n \in Nat /\ Len(hd) \in Nat /\ K \in Nat
    BY <1>2, <1>5, <1>7 DEF n
  <1>10. /\ e[1] = First(f) /\ e[2] = Second(f, mask)
         /\ n >= Short /\ n < Wide => e[3] = n
         /\ n >= Wide => e[3] = n \div Wide /\ e[4] = n % Wide
    <2>1. e[1] = hd[1] /\ e[2] = hd[2]
      BY <1>5, <1>8
    <2>2. ASSUME n >= Short, n < Wide PROVE e[3] = n
      BY <2>2, <1>5, <1>8
    <2>3. ASSUME n >= Wide PROVE e[3] = n \div Wide /\ e[4] = n % Wide
      BY <2>3, <1>5, <1>8
    <2> QED
      BY <2>1, <2>2, <2>3, <1>5
  <1>11. ASSUME NEW i \in 1 .. n
         PROVE  e[HeaderSize(f, mask) + i] = IF mask THEN (p[i] + 64) % 128 ELSE p[i]
    <2>1. /\ K + i \in 1 .. Len(body)
          /\ Len(hd) + (K + i) = HeaderSize(f, mask) + i
      BY <1>6, <1>7, <1>9
    <2>2. e[Len(hd) + (K + i)] = body[K + i]
      BY <2>1, <1>8
    <2> QED
      BY <2>1, <2>2, <1>6
  <1>12. HeaderSize(f, mask) \in 2 .. 5 /\ Len(e) = HeaderSize(f, mask) + n
    <2>1. Len(hd) \in 2 .. 4 /\ Len(body) = K + n /\ Len(e) = Len(hd) + Len(body)
      BY <1>5, <1>6, <1>8
    <2> DEFINE h == HeaderSize(f, mask)
               a == Len(hd)
    <2>2. h = a + K /\ K \in 0 .. 1 /\ a \in 2 .. 4 /\ Len(e) = a + (K + n) /\ n \in Nat
      BY <2>1, <1>7, <1>9
    <2> HIDE DEF h, a
    <2>3. h \in 2 .. 5 /\ Len(e) = h + n
      BY <2>2
    <2> QED
      BY <2>3 DEF h
  <1> QED
    BY <1>8, <1>9, <1>10, <1>11, <1>12 DEF IsEncoded, n, p

(* s begins as e does, as far as both go.                                  *)
Begins(s, e) ==
    /\ s \in Seq(Nat) /\ Len(s) \in Nat
    /\ \A i \in 1 .. Len(s) : i <= Len(e) => s[i] = e[i]

(* The first octet tells what frame it is.                                 *)
LEMMA FirstRead ==
    ASSUME NEW f \in WsFrame, NEW op \in OpCodes, Code[op] = First(f) % 16
    PROVE  op = f.op
  <1>1. f.fin \in BOOLEAN /\ f.rsv \in BOOLEAN /\ f.op \in DOMAIN Code
    BY FrameType
  <1>2. Code[f.op] \in 0 .. 10 /\ op \in DOMAIN Code
    BY <1>1, Codes
  <1> DEFINE c == Code[f.op]
             a == IF f.fin THEN 128 ELSE 0
             b == IF f.rsv THEN 16 ELSE 0
  <1>3. First(f) = a + b + c
    BY DEF First
  <1>4. a \in {0, 128} /\ b \in {0, 16}
    BY <1>1
  <1> HIDE DEF a, b, c
  <1>5. c \in 0 .. 10
    BY <1>2 DEF c
  <1>6. (a + b + c) % 16 = c
    BY <1>4, <1>5
  <1>7. Code[op] = Code[f.op]
    BY <1>3, <1>6 DEF c
  <1> QED
    BY <1>1, <1>2, <1>7, Codes

(* The second octet tells whether it is masked, and the form of the length.*)
LEMMA SecondRead ==
    ASSUME NEW f \in WsFrame, NEW mask \in BOOLEAN, NEW n, n = Len(f.payload)
    PROVE  /\ Second(f, mask) \in Nat /\ (Second(f, mask) >= 128 <=> mask)
           /\ n < Short => Second(f, mask) % 128 = n /\ Len(Length(n)) = 1
           /\ n >= Short /\ n < Wide => Second(f, mask) % 128 = Short /\ Len(Length(n)) = 2
           /\ n >= Wide => Second(f, mask) % 128 = Short + 1 /\ Len(Length(n)) = 3
  <1>1. n \in Nat /\ Short \in Nat /\ Wide \in Nat /\ Short < Wide /\ Short + 1 < 128
    BY FrameType, Given
  <1> DEFINE k == IF mask THEN 128 ELSE 0
             x == Length(n)[1]
  <1>2. Second(f, mask) = k + x
    BY DEF Second
  <1>3. k \in {0, 128} /\ (k = 128 <=> mask)
    OBVIOUS
  <1>4. /\ n < Short => x = n /\ Len(Length(n)) = 1
        /\ n >= Short /\ n < Wide => x = Short /\ Len(Length(n)) = 2
        /\ n >= Wide => x = Short + 1 /\ Len(Length(n)) = 3
    <2>1. ASSUME n < Short PROVE x = n /\ Len(Length(n)) = 1
      BY <2>1 DEF Length
    <2>2. ASSUME n >= Short, n < Wide PROVE x = Short /\ Len(Length(n)) = 2
      BY <2>2, <1>1 DEF Length
    <2>3. ASSUME n >= Wide PROVE x = Short + 1 /\ Len(Length(n)) = 3
      BY <2>3, <1>1 DEF Length
    <2> QED
      BY <2>1, <2>2, <2>3
  <1> HIDE DEF k, x
  <1>5. x \in 0 .. 127
    <2>1. n < Short \/ (n >= Short /\ n < Wide) \/ n >= Wide
      BY <1>1
    <2>2. (x = n /\ n < Short) \/ x = Short \/ x = Short + 1
      BY <2>1, <1>4
    <2>3. \A a, b \in Nat : b + 1 < 128 /\ (a < b \/ a = b \/ a = b + 1) => a \in 0 .. 127
      OBVIOUS
    <2>4. x \in Nat /\ (x < Short \/ x = Short \/ x = Short + 1)
      <3>1. Short + 1 \in Nat
        BY <1>1
      <3> QED
        BY <2>2, <3>1, <1>1, Zenon
    <2> QED
      BY <2>3, <2>4, <1>1, Zenon
  <1>6. k + x \in Nat /\ (k + x >= 128 <=> mask) /\ (k + x) % 128 = x
    BY <1>3, <1>5
  <1> QED
    BY <1>2, <1>4, <1>6

(* decode_header, on the front of an encoded frame, says what was encoded, *)
(* if it says anything.                                                    *)
LEMMA HeaderIsRead ==
    ASSUME NEW f \in WsFrame, NEW mask \in BOOLEAN, NEW e, IsEncoded(e, f, mask),
           NEW s, Begins(s, e), NEW h, h = DecodeHeader(s), h.kind = "header"
    PROVE  /\ h.op = f.op /\ h.masked = mask
           /\ h.len = Len(f.payload) /\ h.size = HeaderSize(f, mask)
  <1> DEFINE n == Len(f.payload)
             ops == {o \in OpCodes : Code[o] = s[1] % 16}
             op == CHOOSE o \in ops : TRUE
             l == PayloadLength(s)
             masked == s[2] >= 128
             at == 2 + l.octets
  <1>1. /\ s \in Seq(Nat) /\ Len(s) \in Nat /\ n \in Nat
        /\ \A i \in 1 .. Len(s) : i <= Len(e) => s[i] = e[i]
        /\ Len(e) = HeaderSize(f, mask) + n /\ HeaderSize(f, mask) \in 2 .. 5
        /\ e[1] = First(f) /\ e[2] = Second(f, mask)
        /\ n >= Short /\ n < Wide => e[3] = n
        /\ n >= Wide => e[3] = n \div Wide /\ e[4] = n % Wide
    BY DEF IsEncoded, Begins
  <1>2. Short \in Nat /\ Wide \in Nat /\ Short < Wide /\ Short > 0
    BY Given
  <1>3. Len(s) >= 2
    <2>1. Nothing.kind # "header"
      BY DEF Nothing
    <2>2. CASE Len(s) < 2
      <3>1. h = Nothing
        BY <2>2 DEF DecodeHeader
      <3> QED
        BY <2>1, <3>1
    <2> QED
      BY <2>2, <1>1
  <1>4. s[1] = First(f) /\ s[2] = Second(f, mask)
    <2>1. 1 \in 1 .. Len(s) /\ 2 \in 1 .. Len(s) /\ 1 <= Len(e) /\ 2 <= Len(e)
      BY <1>1, <1>3, SMTT(30)
    <2> QED
      BY <2>1, <1>1
  <1>5. /\ ops # {} /\ l.kind = "length"
        /\ h = [kind |-> "header", op |-> op, masked |-> masked, len |-> l.len,
                size |-> IF masked THEN at + 1 ELSE at]
    <2>1. Nothing.kind # "header" /\ Bad.kind # "header"
      BY DEF Nothing, Bad
    <2>2. h = IF (s[1] % 128) \div 16 # 0 \/ ops = {} THEN Bad
              ELSE IF l.kind # "length" THEN l
              ELSE IF l.len > MaxPayload THEN Bad
              ELSE IF op \in Control /\ (l.len >= Short \/ s[1] < 128) THEN Bad
              ELSE IF masked /\ Len(s) <= at THEN Nothing
              ELSE [kind |-> "header", op |-> op, masked |-> masked, len |-> l.len,
                    size |-> IF masked THEN at + 1 ELSE at]
      BY <1>1, <1>3 DEF DecodeHeader
    <2>3. l.kind # "header"
      <3>1. \/ l = Nothing \/ l = Bad \/ l.kind = "length"
        <4>1. l = PayloadLength(s)
          OBVIOUS
        <4> HIDE DEF l
        <4> QED
          BY <4>1, <1>1, <1>3, LengthRead
      <3> HIDE DEF l
      <3> QED
        BY <3>1, <2>1
    <2> HIDE DEF ops, op, l, masked, at
    <2> QED
      BY <2>1, <2>2, <2>3
  <1>6. op = f.op
    <2>1. op \in OpCodes /\ Code[op] = s[1] % 16
      BY <1>5
    <2> HIDE DEF op
    <2> QED
      BY <2>1, <1>4, FirstRead
  <1>7. /\ Second(f, mask) \in Nat /\ (Second(f, mask) >= 128 <=> mask)
        /\ n < Short => Second(f, mask) % 128 = n /\ Len(Length(n)) = 1
        /\ n >= Short /\ n < Wide => Second(f, mask) % 128 = Short /\ Len(Length(n)) = 2
        /\ n >= Wide => Second(f, mask) % 128 = Short + 1 /\ Len(Length(n)) = 3
    BY SecondRead
  <1>8. masked = mask
    BY <1>4, <1>7
  <1>9. HeaderSize(f, mask) = 1 + Len(Length(n)) + (IF mask THEN 1 ELSE 0)
    BY DEF HeaderSize
  <1>10. Len(e) >= 1 + Len(Length(n)) /\ Len(Length(n)) \in 1 .. 3
    <2>1. Len(Length(n)) \in 1 .. 3
      BY <1>1, Sizes
    <2> HIDE DEF n
    <2> QED
      BY <2>1, <1>1, <1>9
  <1> DEFINE y == s[2] % 128
  <1>11. l.len = n /\ l.octets = Len(Length(n)) - 1
    <2>1. CASE n < Short
      <3>1. s[2] % 128 = n /\ s[2] % 128 # Short /\ s[2] % 128 # Short + 1
        BY <2>1, <1>1, <1>2, <1>4, <1>7, SMTT(30)
      <3>2. l = [kind |-> "length", len |-> s[2] % 128, octets |-> 0]
        BY <3>1 DEF PayloadLength
      <3>3. l.len = n /\ l.octets = 0
        BY <3>1, <3>2
      <3> QED
        BY <3>3, <2>1, <1>7
    <2>2. CASE n >= Short /\ n < Wide
      <3>1. s[2] % 128 = Short /\ s[2] % 128 # Short + 1
        BY <2>2, <1>2, <1>4, <1>7
      <3>2. ~(Len(s) < 3) /\ l = [kind |-> "length", len |-> s[3], octets |-> 1]
        <4>1. l = IF Len(s) < 3 THEN Nothing
                  ELSE IF s[3] < Short THEN Bad
                  ELSE [kind |-> "length", len |-> s[3], octets |-> 1]
          BY <3>1 DEF PayloadLength
        <4>2. Nothing.kind # "length" /\ Bad.kind # "length"
          BY DEF Nothing, Bad
        <4> HIDE DEF l
        <4> QED
          BY <4>1, <4>2, <1>5
      <3>3. 3 \in 1 .. Len(s) /\ 3 <= Len(e)
        <4>1. Len(Length(n)) = 2 /\ Len(e) >= 1 + Len(Length(n))
          BY <2>2, <1>7, <1>10
        <4>2. Len(e) \in Nat
          BY <1>1
        <4> HIDE DEF n, l
        <4> QED
          BY <3>2, <4>1, <4>2, <1>1
      <3>4. s[3] = n
        BY <3>3, <2>2, <1>1
      <3>5. l.len = n /\ l.octets = 1
        BY <3>2, <3>4
      <3> QED
        BY <3>5, <2>2, <1>7
    <2>3. CASE n >= Wide
      <3>1. s[2] % 128 = Short + 1 /\ s[2] % 128 # Short
        BY <2>3, <1>2, <1>4, <1>7
      <3>2. ~(Len(s) < 4) /\ l = [kind |-> "length", len |-> s[3] * Wide + s[4], octets |-> 2]
        <4>1. l = IF Len(s) < 4 THEN Nothing
                  ELSE IF s[3] = 0 THEN Bad
                  ELSE [kind |-> "length", len |-> s[3] * Wide + s[4], octets |-> 2]
          BY <3>1 DEF PayloadLength
        <4>2. Nothing.kind # "length" /\ Bad.kind # "length"
          BY DEF Nothing, Bad
        <4> HIDE DEF l
        <4> QED
          BY <4>1, <4>2, <1>5
      <3>3. 3 \in 1 .. Len(s) /\ 3 <= Len(e) /\ 4 \in 1 .. Len(s) /\ 4 <= Len(e)
        <4>1. Len(Length(n)) = 3 /\ Len(e) >= 1 + Len(Length(n))
          BY <2>3, <1>7, <1>10
        <4>2. Len(e) \in Nat
          BY <1>1
        <4> HIDE DEF n, l
        <4> QED
          BY <3>2, <4>1, <4>2, <1>1
      <3>4. s[3] = n \div Wide /\ s[4] = n % Wide
        BY <3>3, <2>3, <1>1
      <3>5. (n \div Wide) * Wide + (n % Wide) = n
        <4>1. n \in Nat /\ Wide \in Nat /\ Wide > 0
          BY <1>1, <1>2
        <4> HIDE DEF n
        <4> QED
          BY <4>1, Divided
      <3>6. l.len = n /\ l.octets = 2
        BY <3>2, <3>4, <3>5
      <3> QED
        BY <3>6, <2>3, <1>7
    <2> QED
      BY <2>1, <2>2, <2>3, <1>1, <1>2, SMTT(30)
  <1>12. (IF masked THEN at + 1 ELSE at) = HeaderSize(f, mask)
    <2> HIDE DEF l, masked, n
    <2> QED
      BY <1>8, <1>9, <1>10, <1>11
  <1> HIDE DEF l, masked, op, n, at
  <1> QED
    BY <1>5, <1>6, <1>8, <1>11, <1>12 DEF n

(* Two sequences with the same elements are the same.                      *)
LEMMA SameElements ==
    ASSUME NEW s \in Seq(Nat), NEW t \in Seq(Nat), Len(s) = Len(t),
           \A i \in 1 .. Len(s) : s[i] = t[i]
    PROVE  s = t
  BY SeqEqual

(* s and w, which follows it, are f encoded, and r; ev is what the decoder *)
(* then finds.                                                             *)
Meets(s, w, f, mask, r) ==
    f \in WsFrame /\ mask \in BOOLEAN /\ SentAs(s, w, Encode(f, mask), r)
Finds(ev, f, w, r) ==
    /\ ev.kind = f.op /\ ev.payload = f.payload
    /\ ev.rest \in Seq(Nat) /\ ev.rest \o w = r

(* Decoder::poll, on what begins with an encoded frame, finds that frame,  *)
(* unmasked, and leaves what is behind it, if it finds one at all.         *)
LEMMA FrontIsRead ==
    ASSUME NEW s, NEW w, NEW f, NEW mask, NEW r, Meets(s, w, f, mask, r),
           NEW ev, ev = Poll(s), ev.kind # "none", ev.kind # "error"
    PROVE  Finds(ev, f, w, r)
  <1>0. PICK e : e = Encode(f, mask)
    OBVIOUS
  <1> USE <1>0
  <1> f \in WsFrame /\ mask \in BOOLEAN /\ SentAs(s, w, e, r)
    BY DEF Meets
  <1> DEFINE h == DecodeHeader(s)
             data == SubSeq(s, h.size + 1, h.size + h.len)
             n == Len(f.payload)
             H == HeaderSize(f, mask)
  <1>1. IsEncoded(e, f, mask)
    BY Encoded
  <1>2. s \in Seq(Nat) /\ Begins(s, e)
    BY Arrives DEF Begins, SentAs
  <1>3. /\ h.kind = "header" /\ h.size \in Nat /\ h.len \in Nat
        /\ Len(s) >= h.size + h.len
        /\ ev = [kind |-> h.op, payload |-> IF h.masked THEN Masked(data) ELSE data,
                 rest |-> Drop(s, h.size + h.len)]
    <2>1. \/ h = Nothing
          \/ h = Bad
          \/ h.kind = "header" /\ h.len \in 0 .. MaxPayload /\ h.size \in 2 .. 5
      <3>1. h = DecodeHeader(s)
        OBVIOUS
      <3> HIDE DEF h
      <3> QED
        BY <3>1, <1>2, HeaderRead
    <2>2. ev = IF h.kind # "header" THEN h
               ELSE IF Len(s) < h.size + h.len THEN Nothing
               ELSE [kind |-> h.op, payload |-> IF h.masked THEN Masked(data) ELSE data,
                     rest |-> Drop(s, h.size + h.len)]
      BY DEF Poll
    <2>3. Nothing.kind = "none" /\ Bad.kind = "error"
      BY DEF Nothing, Bad
    <2>4. h.kind = "header" /\ h.size \in Nat /\ h.len \in Nat
      <3> HIDE DEF h, data
      <3>1. h # Nothing /\ h # Bad
        BY <2>2, <2>3
      <3> QED
        BY <2>1, <3>1
    <2>5. ~(Len(s) < h.size + h.len)
      <3> HIDE DEF h, data
      <3> QED
        BY <2>2, <2>3, <2>4
    <2>6. Len(s) \in Nat
      BY <1>2, LenProperties
    <2> HIDE DEF h, data
    <2> QED
      BY <2>2, <2>4, <2>5, <2>6
  <1>4. h.op = f.op /\ h.masked = mask /\ h.len = n /\ h.size = H
    <2>1. h = DecodeHeader(s)
      OBVIOUS
    <2> HIDE DEF h
    <2> QED
      BY <2>1, <1>1, <1>2, <1>3, HeaderIsRead
  <1>5. /\ Len(e) = H + n /\ H \in Nat /\ n \in Nat /\ Len(s) \in Nat
        /\ \A i \in 1 .. n : e[H + i] = IF mask THEN (f.payload[i] + 64) % 128 ELSE f.payload[i]
    <2>1. H \in 2 .. 5
      BY <1>1 DEF IsEncoded
    <2>2. H \in Nat
      <3> HIDE DEF H
      <3> QED
        BY <2>1
    <2> QED
      BY <2>2, <1>1, <1>2, Zenon DEF IsEncoded, Begins
  <1>6. Len(s) >= Len(e) /\ Len(s) >= H + n
    <2> HIDE DEF h, H, n, data
    <2> QED
      BY <1>3, <1>4, <1>5
  <1>7. Drop(s, H + n) \in Seq(Nat) /\ Drop(s, H + n) \o w = r
    <2> HIDE DEF H, n
    <2>1. Drop(s, Len(e)) \o w = r
      BY <1>6, Arrives
    <2>2. CutInto(s, H + n, SubSeq(s, 1, H + n), Drop(s, H + n))
      BY <1>2, <1>5, <1>6, Cut
    <2> QED
      BY <2>1, <2>2, <1>5 DEF CutInto
  <1>8. data = SubSeq(s, H + 1, H + n)
    BY <1>4
  <1> HIDE DEF h, H, n, data
  <1>9. data \in Seq(Nat) /\ Len(data) = n /\ \A i \in 1 .. n : data[i] = s[H + i]
    <2>1. H \in Nat /\ H + n \in Nat /\ H <= H + n /\ H + n <= Len(s) /\ (H + n) - H = n
      BY <1>5, <1>6
    <2>2. /\ data \in Seq(Nat) /\ Len(data) = (H + n) - H
          /\ \A i \in 1 .. (H + n) - H : data[i] = s[H + i]
      BY <2>1, <1>2, <1>8, Piece
    <2> QED
      BY <2>1, <2>2
  <1>10. ASSUME NEW i \in 1 .. n PROVE data[i] = e[H + i]
    <2>1. H + i \in 1 .. Len(s) /\ H + i <= Len(e)
      BY <1>5, <1>6
    <2> QED
      BY <2>1, <1>2, <1>9 DEF Begins
  <1>11. (IF mask THEN Masked(data) ELSE data) = f.payload
    <2>1. /\ f.payload \in Seq(Nat) /\ Len(f.payload) = n
          /\ \A i \in 1 .. n : f.payload[i] \in 0 .. 127
      BY FrameType DEF n
    <2>2. CASE ~mask
      <3>1. \A i \in 1 .. n : data[i] = f.payload[i]
        BY <2>2, <1>5, <1>10
      <3>2. data = f.payload
        BY <2>1, <3>1, <1>9, SameElements
      <3> QED
        BY <2>2, <3>2
    <2>3. CASE mask
      <3>1. /\ Masked(data) \in Seq(Nat) /\ Len(Masked(data)) = n
            /\ \A i \in 1 .. n : Masked(data)[i] = (data[i] + 64) % 128
        BY <1>9, MaskedType
      <3>2. ASSUME NEW i \in 1 .. n PROVE Masked(data)[i] = f.payload[i]
        <4>1. data[i] = (f.payload[i] + 64) % 128
          BY <2>3, <1>5, <1>10
        <4>2. Masked(data)[i] = (((f.payload[i] + 64) % 128) + 64) % 128
          BY <4>1, <3>1
        <4>3. \A x \in 0 .. 127 : (((x + 64) % 128) + 64) % 128 = x
          OBVIOUS
        <4> QED
          BY <4>2, <4>3, <2>1
      <3>3. Masked(data) = f.payload
        BY <2>1, <3>1, <3>2, SameElements
      <3> QED
        BY <2>3, <3>3
    <2> QED
      BY <2>2, <2>3
  <1>12. /\ ev.kind = h.op /\ ev.payload = (IF h.masked THEN Masked(data) ELSE data)
         /\ ev.rest = Drop(s, h.size + h.len)
    BY <1>3
  <1> QED
    BY <1>4, <1>7, <1>11, <1>12 DEF Finds

-----------------------------------------------------------------------------
(* What the peer sends, frame after frame.                                 *)

(* f is what the first sequences of g are, one behind the other.           *)
JoinsOf(f, g, m) == f = [i \in 1 .. m |-> IF i = 1 THEN g[i] ELSE f[i - 1] \o g[i]]

(* There is such an f.                                                     *)
LEMMA JoinsExist ==
    ASSUME NEW m \in Nat, NEW g
    PROVE  \E f : JoinsOf(f, g, m)
  <1> DEFINE Bad0 == {n \in 0 .. m : ~ \E f : JoinsOf(f, g, n)}
  <1>1. SUFFICES ASSUME Bad0 # {} PROVE FALSE
    <2>1. m \in 0 .. m
      OBVIOUS
    <2> QED
      BY <1>1, <2>1
  <1>2. PICK l \in Bad0 : \A j \in Bad0 : l <= j
    <2>1. Bad0 \in SUBSET Nat
      OBVIOUS
    <2> QED
      BY <1>1, <2>1, Smallest
  <1>3. CASE l = 0
    <2>1. JoinsOf([k \in 1 .. 0 |-> 0], g, 0)
      BY DEF JoinsOf
    <2> QED
      BY <1>2, <1>3, <2>1
  <1>4. CASE l # 0
    <2>1. l - 1 \in 0 .. m /\ l - 1 \notin Bad0 /\ l \in Nat /\ l >= 1
      BY <1>2, <1>4
    <2>2. PICK f : JoinsOf(f, g, l - 1)
      BY <2>1
    <2> DEFINE h == [k \in 1 .. l |-> IF k = l THEN (IF l = 1 THEN g[l] ELSE f[l - 1] \o g[l])
                                      ELSE f[k]]
    <2>3. h = [k \in 1 .. l |-> IF k = 1 THEN g[k] ELSE h[k - 1] \o g[k]]
      <3>1. ASSUME NEW k \in 1 .. l
            PROVE  h[k] = IF k = 1 THEN g[k] ELSE h[k - 1] \o g[k]
        <4>1. CASE k = l
          <5>1. CASE k = 1
            BY <4>1, <5>1, <2>1
          <5>2. CASE k # 1
            <6>1. k - 1 \in 1 .. l /\ k - 1 # l
              BY <5>2, <2>1
            <6>2. h[k - 1] = f[k - 1]
              BY <6>1
            <6>3. h[k] = f[l - 1] \o g[l]
              BY <4>1, <5>2
            <6> HIDE DEF h
            <6> QED
              BY <4>1, <5>2, <6>2, <6>3
          <5> QED
            BY <5>1, <5>2
        <4>2. CASE k # l
          <5>1. k \in 1 .. l - 1 /\ (k # 1 => k - 1 \in 1 .. l /\ k - 1 # l)
            BY <2>1, <4>2
          <5>2. f[k] = IF k = 1 THEN g[k] ELSE f[k - 1] \o g[k]
            BY <2>2, <5>1 DEF JoinsOf
          <5>3. h[k] = f[k] /\ (k # 1 => h[k - 1] = f[k - 1])
            BY <4>2, <5>1
          <5> HIDE DEF h
          <5> QED
            BY <5>2, <5>3
        <4> QED
          BY <4>1, <4>2
      <3> HIDE DEF h
      <3>2. DOMAIN h = 1 .. l /\ h = [k \in 1 .. l |-> h[k]]
        BY DEF h
      <3> QED
        BY <3>1, <3>2
    <2>4. JoinsOf(h, g, l)
      BY <2>3 DEF JoinsOf
    <2> QED
      BY <1>2, <2>4
  <1> QED
    BY <1>3, <1>4

(* q and g begin with the same n.                                          *)
SameFront(q, g, n) == \A i \in 1 .. n : q[i] = g[i]

(* There is one only, and for less of g it is the beginning of it.         *)
LEMMA JoinsAgree ==
    ASSUME NEW m \in Nat, NEW n \in Nat, n <= m, NEW f, NEW g, NEW h, NEW q,
           JoinsOf(f, g, m), JoinsOf(h, q, n), SameFront(q, g, n)
    PROVE  SameFront(h, f, n)
  <1>0. \A i \in 1 .. n : q[i] = g[i]
    BY DEF SameFront
  <1>1. /\ \A i \in 1 .. m : f[i] = IF i = 1 THEN g[i] ELSE f[i - 1] \o g[i]
        /\ \A i \in 1 .. n : h[i] = IF i = 1 THEN q[i] ELSE h[i - 1] \o q[i]
    BY DEF JoinsOf
  <1> DEFINE Odd == {i \in 1 .. n : h[i] # f[i]}
  <1>2. ASSUME Odd # {} PROVE FALSE
    <2>1. PICK l \in Odd : \A j \in Odd : l <= j
      <3>1. Odd \in SUBSET Nat
        OBVIOUS
      <3> QED
        BY <1>2, <3>1, Smallest
    <2>2. l \in 1 .. n /\ l \in 1 .. m /\ q[l] = g[l] /\ h[l] # f[l]
      BY <2>1, <1>0
    <2>3. CASE l = 1
      BY <2>2, <2>3, <1>1
    <2>4. CASE l # 1
      <3>1. l - 1 \in 1 .. n /\ ~(l <= l - 1)
        BY <2>2, <2>4
      <3>2. h[l - 1] = f[l - 1]
        BY <2>1, <3>1
      <3> HIDE DEF Odd
      <3>3. h[l] = h[l - 1] \o q[l] /\ f[l] = f[l - 1] \o g[l]
        BY <2>2, <2>4, <1>1
      <3> QED
        BY <2>2, <3>2, <3>3
    <2> QED
      BY <2>3, <2>4
  <1> QED
    BY <1>2 DEF SameFront

(* The first k sequences of g, one behind the other.                       *)
Flat(g, k) == FlattenSeq([i \in 1 .. k |-> g[i]])

(* It is what the joins say.                                               *)
LEMMA FlatJoins ==
    ASSUME NEW m \in Nat, NEW g \in [1 .. m -> Seq(Nat)], NEW f, JoinsOf(f, g, m),
           NEW k \in 1 .. m
    PROVE  Flat(g, k) = f[k]
  <1> DEFINE q == [i \in 1 .. k |-> g[i]]
             c == CHOOSE h : JoinsOf(h, q, k)
  <1>1. k \in Nat /\ k <= m /\ k # 0
    OBVIOUS
  <1>2. Len(q) = k /\ \A i \in 1 .. k : q[i] = g[i]
    OBVIOUS
  <1> HIDE DEF q
  <1>3. JoinsOf(c, q, k)
    BY <1>1, JoinsExist
  <1>4. FlattenSeq(q) = c[k]
    BY <1>1, <1>2 DEF FlattenSeq, JoinsOf
  <1> HIDE DEF c
  <1>5. c[k] = f[k]
    <2>1. SameFront(q, g, k)
      BY <1>2 DEF SameFront
    <2>2. SameFront(c, f, k)
      BY <2>1, <1>1, <1>3, JoinsAgree
    <2>3. k \in 1 .. k
      BY <1>1
    <2> QED
      BY <2>2, <2>3 DEF SameFront
  <1> QED
    BY <1>4, <1>5 DEF Flat, q

(* It grows by one sequence at a time.                                     *)
LEMMA Flattened ==
    ASSUME NEW m \in Nat, NEW g \in [1 .. m -> Seq(Nat)]
    PROVE  /\ Flat(g, 0) = << >>
           /\ \A k \in 0 .. m : Flat(g, k) \in Seq(Nat)
           /\ \A k \in 1 .. m : Flat(g, k) = Flat(g, k - 1) \o g[k]
  <1>1. PICK f : JoinsOf(f, g, m)
    BY JoinsExist
  <1>2. \A k \in 1 .. m : Flat(g, k) = f[k]
    BY <1>1, FlatJoins
  <1>3. \A i \in 1 .. m : f[i] = IF i = 1 THEN g[i] ELSE f[i - 1] \o g[i]
    BY <1>1 DEF JoinsOf
  <1>4. Flat(g, 0) = << >>
    <2>1. [i \in 1 .. 0 |-> g[i]] = << >>
      OBVIOUS
    <2>2. FlattenSeq(<< >>) = << >>
      BY DEF FlattenSeq
    <2> QED
      BY <2>1, <2>2 DEF Flat
  <1> DEFINE Sq == Seq(Nat)
  <1>5. ASSUME NEW k \in 1 .. m PROVE Flat(g, k) = Flat(g, k - 1) \o g[k]
    <2>1. CASE k = 1
      <3>1. Flat(g, k) = g[1] /\ g[1] \in Seq(Nat)
        BY <2>1, <1>2, <1>3
      <3>2. << >> \o g[1] = g[1]
        BY <3>1, Behind
      <3>3. k - 1 = 0
        BY <2>1
      <3> QED
        BY <2>1, <3>1, <3>2, <3>3, <1>4, Zenon
    <2>2. CASE k # 1
      <3>1. k - 1 \in 1 .. m
        BY <2>2
      <3>2. f[k] = f[k - 1] \o g[k]
        BY <2>2, <1>3
      <3> QED
        BY <3>1, <3>2, <1>2, Zenon
    <2> QED
      BY <2>1, <2>2
  <1>6. \A k \in 0 .. m : Flat(g, k) \in Seq(Nat)
    <2> DEFINE Odd == {k \in 0 .. m : Flat(g, k) \notin Seq(Nat)}
    <2>1. ASSUME Odd # {} PROVE FALSE
      <3>1. PICK l \in Odd : \A j \in Odd : l <= j
        <4>1. Odd \in SUBSET Nat
          OBVIOUS
        <4> QED
          BY <2>1, <4>1, Smallest
      <3>2. l # 0
        BY <3>1, <1>4, EmptySeq
      <3>3. l \in 1 .. m /\ l - 1 \in 0 .. m /\ ~(l <= l - 1)
        BY <3>1, <3>2
      <3>4. Flat(g, l - 1) \in Seq(Nat) /\ g[l] \in Seq(Nat)
        BY <3>1, <3>3
      <3>5. Flat(g, l - 1) \o g[l] \in Seq(Nat)
        BY <3>4, Behind
      <3> QED
        BY <3>1, <3>3, <3>5, <1>5
    <2> QED
      BY <2>1
  <1> QED
    BY <1>4, <1>5, <1>6

(* What is there stays in front.                                           *)
LEMMA FlatFront ==
    ASSUME NEW m \in Nat, NEW g \in [1 .. m -> Seq(Nat)], NEW k \in 0 .. m, NEW l \in k .. m
    PROVE  \E u \in Seq(Nat) : Flat(g, l) = Flat(g, k) \o u
  <1> DEFINE Odd == {j \in k .. m : ~ \E u \in Seq(Nat) : Flat(g, j) = Flat(g, k) \o u}
  <1>1. /\ \A j \in 0 .. m : Flat(g, j) \in Seq(Nat)
        /\ \A j \in 1 .. m : Flat(g, j) = Flat(g, j - 1) \o g[j]
    BY Flattened
  <1>2. ASSUME Odd # {} PROVE FALSE
    <2>1. PICK j \in Odd : \A i \in Odd : j <= i
      <3>1. Odd \in SUBSET Nat
        OBVIOUS
      <3> QED
        BY <1>2, <3>1, Smallest
    <2>2. j # k
      <3>1. Flat(g, k) = Flat(g, k) \o << >> /\ << >> \in Seq(Nat)
        BY <1>1, Behind, EmptySeq
      <3> QED
        BY <2>1, <3>1
    <2>3. j \in 1 .. m /\ j - 1 \in k .. m /\ ~(j <= j - 1)
      BY <2>1, <2>2
    <2>4. PICK u \in Seq(Nat) : Flat(g, j - 1) = Flat(g, k) \o u
      BY <2>1, <2>3
    <2>5. g[j] \in Seq(Nat) /\ Flat(g, k) \in Seq(Nat)
      BY <2>3, <1>1
    <2>6. u \o g[j] \in Seq(Nat) /\ (Flat(g, k) \o u) \o g[j] = Flat(g, k) \o (u \o g[j])
      <3>1. u \o g[j] \in Seq(Nat)
        BY <2>5, Behind
      <3>2. (Flat(g, k) \o u) \o g[j] = Flat(g, k) \o (u \o g[j])
        BY <2>5, Together, Zenon
      <3> QED
        BY <3>1, <3>2
    <2>7. Flat(g, j) = Flat(g, k) \o (u \o g[j])
      BY <2>3, <2>4, <2>6, <1>1
    <2> QED
      BY <2>1, <2>6, <2>7
  <1> QED
    BY <1>2

(* The octets of each frame of the peer, and the data in each.             *)
Wire == [i \in 1 .. Len(plan) |-> Encode(plan[i], ~Masks)]
Words == [i \in 1 .. Len(plan) |-> DataOf(plan[i])]

(* What the peer sends and what is heard are these, one behind the other.  *)
LEMMA PlanIs ==
    ASSUME plan \in Plans
    PROVE  /\ Len(plan) \in Nat /\ \A i \in 1 .. Len(plan) : plan[i] \in WsFrame
           /\ Wire \in [1 .. Len(plan) -> Seq(Nat)] /\ Words \in [1 .. Len(plan) -> Seq(Nat)]
           /\ \A k \in 0 .. Len(plan) : OnWire(k) = Flat(Wire, k) /\ Heard(k) = Flat(Words, k)
           /\ Script = OnWire(Len(plan))
  <1>1. plan \in Seq(WsFrame)
    BY Given
  <1>2. Len(plan) \in Nat /\ \A i \in 1 .. Len(plan) : plan[i] \in WsFrame
    BY <1>1, LenProperties, ElementOfSeq
  <1>3. ASSUME NEW i \in 1 .. Len(plan)
        PROVE  Encode(plan[i], ~Masks) \in Seq(Nat) /\ DataOf(plan[i]) \in Seq(Nat)
    <2>1. plan[i] \in WsFrame
      BY <1>2
    <2>2. (~Masks) \in BOOLEAN
      BY DEF Masks
    <2>3. IsEncoded(Encode(plan[i], ~Masks), plan[i], ~Masks)
      BY <2>1, <2>2, Encoded
    <2>4. plan[i].payload \in Seq(Nat)
      BY <2>1, FrameType
    <2>5. << >> \in Seq(Nat)
      OBVIOUS
    <2> QED
      BY <2>3, <2>4, <2>5 DEF IsEncoded, DataOf
  <1>4. Wire \in [1 .. Len(plan) -> Seq(Nat)] /\ Words \in [1 .. Len(plan) -> Seq(Nat)]
    BY <1>3 DEF Wire, Words
  <1>5. ASSUME NEW k \in 0 .. Len(plan)
        PROVE  OnWire(k) = Flat(Wire, k) /\ Heard(k) = Flat(Words, k)
    <2>1. \A i \in 1 .. k : i \in 1 .. Len(plan)
      BY <1>2
    <2>2. [i \in 1 .. k |-> Encode(plan[i], ~Masks)] = [i \in 1 .. k |-> Wire[i]]
      BY <2>1 DEF Wire
    <2>3. [i \in 1 .. k |-> DataOf(plan[i])] = [i \in 1 .. k |-> Words[i]]
      BY <2>1 DEF Words
    <2> QED
      BY <2>2, <2>3 DEF OnWire, Heard, Flat
  <1>6. Script = OnWire(Len(plan))
    <2> DEFINE m == ~Masks
    <2>1. m \in BOOLEAN
      BY DEF Masks
    <2> HIDE DEF m
    <2>2. Octets[plan][m] = FlattenSeq([i \in 1 .. Len(plan) |-> Encode(plan[i], m)])
      BY <2>1 DEF Octets
    <2> QED
      BY <2>2 DEF Script, OnWire, m
  <1> QED
    BY <1>2, <1>4, <1>5, <1>6

(* What the peer sends grows by a frame, and the script has it all.        *)
LEMMA PlanSteps ==
    ASSUME plan \in Plans
    PROVE  /\ OnWire(0) = << >> /\ Heard(0) = << >>
           /\ \A k \in 0 .. Len(plan) : OnWire(k) \in Seq(Nat) /\ Heard(k) \in Seq(Nat)
           /\ \A k \in 1 .. Len(plan) :
                /\ OnWire(k) = OnWire(k - 1) \o Encode(plan[k], ~Masks)
                /\ Heard(k) = Heard(k - 1) \o DataOf(plan[k])
           /\ Script \in Seq(Nat)
           /\ \A k \in 0 .. Len(plan) : \E u \in Seq(Nat) : Script = OnWire(k) \o u
  <1> DEFINE m == Len(plan)
  <1>1. /\ m \in Nat /\ Wire \in [1 .. m -> Seq(Nat)] /\ Words \in [1 .. m -> Seq(Nat)]
        /\ \A k \in 0 .. m : OnWire(k) = Flat(Wire, k) /\ Heard(k) = Flat(Words, k)
        /\ Script = OnWire(m)
    BY PlanIs
  <1>2. ASSUME NEW k \in 1 .. m
        PROVE  Wire[k] = Encode(plan[k], ~Masks) /\ Words[k] = DataOf(plan[k])
    BY DEF Wire, Words
  <1> HIDE DEF m
  <1>3. /\ Flat(Wire, 0) = << >> /\ Flat(Words, 0) = << >>
        /\ \A k \in 0 .. m : Flat(Wire, k) \in Seq(Nat) /\ Flat(Words, k) \in Seq(Nat)
        /\ \A k \in 1 .. m : Flat(Wire, k) = Flat(Wire, k - 1) \o Wire[k]
        /\ \A k \in 1 .. m : Flat(Words, k) = Flat(Words, k - 1) \o Words[k]
    <2>1. /\ Flat(Wire, 0) = << >>
          /\ \A k \in 0 .. m : Flat(Wire, k) \in Seq(Nat)
          /\ \A k \in 1 .. m : Flat(Wire, k) = Flat(Wire, k - 1) \o Wire[k]
      BY <1>1, Flattened
    <2>2. /\ Flat(Words, 0) = << >>
          /\ \A k \in 0 .. m : Flat(Words, k) \in Seq(Nat)
          /\ \A k \in 1 .. m : Flat(Words, k) = Flat(Words, k - 1) \o Words[k]
      BY <1>1, Flattened
    <2> QED
      BY <2>1, <2>2
  <1>4. \A k \in 1 .. m : k \in 0 .. m /\ k - 1 \in 0 .. m
    BY <1>1
  <1>5. 0 \in 0 .. m /\ m \in 0 .. m
    BY <1>1
  <1>6. ASSUME NEW k \in 0 .. m PROVE \E u \in Seq(Nat) : Script = OnWire(k) \o u
    <2>1. m \in k .. m
      BY <1>1
    <2>2. \E u \in Seq(Nat) : Flat(Wire, m) = Flat(Wire, k) \o u
      BY <2>1, <1>1, FlatFront
    <2> QED
      BY <2>2, <1>1, <1>5
  <1>7. ASSUME NEW k \in 1 .. m
        PROVE  /\ OnWire(k) = OnWire(k - 1) \o Encode(plan[k], ~Masks)
               /\ Heard(k) = Heard(k - 1) \o DataOf(plan[k])
    <2>1. /\ OnWire(k) = Flat(Wire, k) /\ OnWire(k - 1) = Flat(Wire, k - 1)
          /\ Heard(k) = Flat(Words, k) /\ Heard(k - 1) = Flat(Words, k - 1)
      BY <1>1, <1>4
    <2> QED
      BY <2>1, <1>2, <1>3
  <1> QED
    BY <1>1, <1>3, <1>5, <1>6, <1>7 DEF m

(* Up to the first Close, what is heard is part of what is expected.       *)
LEMMA ExpectedIs ==
    ASSUME plan \in Plans, NEW k \in 0 .. Len(plan), \A i \in 1 .. k - 1 : plan[i].op # "Close"
    PROVE  \E u \in Seq(Nat) : Expected = Heard(k) \o u
  <1> DEFINE I == {i \in 1 .. Len(plan) : plan[i].op = "Close"}
             c == IF I # {} THEN Min(I) ELSE 0
             F == IF c = 0 THEN plan ELSE SubSeq(plan, 1, c)
  <1>1. Len(plan) \in Nat /\ plan \in Seq(WsFrame)
    BY PlanIs, Given
  <1>2. Firsts = F
    BY DEF Firsts, SelectInSeq
  <1>3. /\ Len(F) \in k .. Len(plan) /\ \A i \in 1 .. Len(F) : F[i] = plan[i]
    <2>1. CASE I = {}
      BY <2>1, <1>1
    <2>2. CASE I # {}
      <3>1. c \in I
        <4>1. \E l \in I : \A j \in I : l <= j
          <5>1. I \in SUBSET Nat
            OBVIOUS
          <5> HIDE DEF I
          <5> QED
            BY <5>1, <2>2, Smallest
        <4> HIDE DEF I
        <4> QED
          BY <4>1, <2>2 DEF Min
      <3>2. c \in 1 .. Len(plan) /\ plan[c].op = "Close"
        BY <3>1
      <3> HIDE DEF c, I
      <3>3. c >= k /\ c \in Nat /\ c # 0
        BY <3>2, <1>1
      <3>4. F = SubSeq(plan, 1, c)
        BY <3>3
      <3> HIDE DEF F
      <3>5. /\ Len(F) = IF 1 <= c THEN c - 1 + 1 ELSE 0
            /\ \A i \in 1 .. c - 1 + 1 : F[i] = plan[1 + i - 1]
        <4>1. \A i \in 1 .. c : plan[i] \in WsFrame
          BY <3>2, <1>1, PlanIs
        <4> QED
          BY <3>2, <3>4, <4>1, <1>1, SubSeqProperties
      <3>6. Len(F) = c /\ \A i \in 1 .. c : F[i] = plan[i]
        BY <3>3, <3>5
      <3> QED
        BY <3>2, <3>3, <3>6
    <2> QED
      BY <2>1, <2>2
  <1> DEFINE L == Len(F)
  <1>4. Expected = Heard(L)
    <2>1. [i \in 1 .. L |-> DataOf(F[i])] = [i \in 1 .. L |-> DataOf(plan[i])]
      <3> HIDE DEF F
      <3> QED
        BY <1>3
    <2> HIDE DEF F
    <2> QED
      BY <2>1, <1>2 DEF Expected, Heard
  <1> HIDE DEF F, c, I, L
  <1>5. L \in k .. Len(plan) /\ L \in 0 .. Len(plan)
    BY <1>1, <1>3 DEF L
  <1>6. \E u \in Seq(Nat) : Flat(Words, L) = Flat(Words, k) \o u
    BY <1>1, <1>5, PlanIs, FlatFront
  <1>7. Heard(L) = Flat(Words, L) /\ Heard(k) = Flat(Words, k)
    BY <1>5, PlanIs
  <1> QED
    BY <1>4, <1>6, <1>7

-----------------------------------------------------------------------------
(* Reading, step by step.                                                  *)

(* The part of the invariant about what is read.                           *)
ReadPart ==
    /\ side \in Sides /\ plan \in Plans
    /\ inbound \in Seq(Nat) /\ payload \in Seq(Nat) /\ got \in Seq(Nat) /\ down \in Seq(Nat)
    /\ sent \in 0 .. Len(Script)
    /\ Len(down) <= Room /\ Len(inbound) <= 4 + MaxPayload + Room
    /\ \E k \in 0 .. Len(plan) : Between(k)

(* What has not been read, here or on its way.                             *)
Coming == inbound \o (down \o Drop(Script, sent))

(* The types of what is named of it.                                       *)
LEMMA ReadTypes ==
    ASSUME ReadPart
    PROVE  /\ Len(plan) \in Nat /\ Len(inbound) \in Nat /\ Len(down) \in Nat
           /\ Script \in Seq(Nat) /\ Len(Script) \in Nat /\ Drop(Script, sent) \in Seq(Nat)
           /\ down \o Drop(Script, sent) \in Seq(Nat) /\ Coming \in Seq(Nat)
  <1>1. Script \in Seq(Nat) /\ Len(plan) \in Nat
    BY PlanIs, PlanSteps DEF ReadPart
  <1>2. Len(Script) \in Nat /\ Len(inbound) \in Nat /\ Len(down) \in Nat
    BY <1>1, LenProperties DEF ReadPart
  <1>3. sent \in Nat /\ sent <= Len(Script)
    BY <1>2 DEF ReadPart
  <1>4. Drop(Script, sent) \in Seq(Nat)
    BY <1>1, <1>3, Cut DEF CutInto
  <1>5. down \o Drop(Script, sent) \in Seq(Nat)
    BY <1>4, Behind DEF ReadPart
  <1>6. Coming \in Seq(Nat)
    BY <1>5, Behind DEF ReadPart, Coming
  <1> QED
    BY <1>1, <1>2, <1>4, <1>5, <1>6

(* The side and the plan are chosen once.                                  *)
LEMMA SameGiven ==
    ASSUME UNCHANGED given
    PROVE  /\ side' = side /\ plan' = plan /\ Script' = Script
           /\ \A k : OnWire(k)' = OnWire(k) /\ Heard(k)' = Heard(k)
  <1>1. side' = side /\ plan' = plan
    BY DEF given
  <1>2. Script' = Script
    BY <1>1 DEF Script, Octets, Masks
  <1>3. \A k : OnWire(k)' = OnWire(k) /\ Heard(k)' = Heard(k)
    BY <1>1 DEF OnWire, Heard, Masks
  <1> QED
    BY <1>1, <1>2, <1>3

(* Between(k), with what is coming named.                                  *)
LEMMA BetweenIs ==
    ASSUME NEW k
    PROVE  Between(k) <=>
             /\ got \o payload = Heard(k)
             /\ \A i \in 1 .. k - 1 : plan[i].op # "Close"
             /\ pump # "ended" =>
                  /\ \A i \in 1 .. k : plan[i].op # "Close"
                  /\ OnWire(k) \o Coming = Script
  BY DEF Between, Coming

(* The same after a step, when the given parts stay.                       *)
LEMMA BetweenNext ==
    ASSUME UNCHANGED given, NEW k
    PROVE  Between(k)' <=>
             /\ got' \o payload' = Heard(k)
             /\ \A i \in 1 .. k - 1 : plan[i].op # "Close"
             /\ pump' # "ended" =>
                  /\ \A i \in 1 .. k : plan[i].op # "Close"
                  /\ OnWire(k) \o Coming' = Script
  <1>1. /\ plan' = plan /\ Script' = Script /\ OnWire(k)' = OnWire(k) /\ Heard(k)' = Heard(k)
    BY SameGiven
  <1>2. Between(k)' <=>
             /\ got' \o payload' = Heard(k)'
             /\ \A i \in 1 .. k - 1 : plan'[i].op # "Close"
             /\ pump' # "ended" =>
                  /\ \A i \in 1 .. k : plan'[i].op # "Close"
                  /\ OnWire(k)' \o Coming' = Script'
    BY DEF Between, Coming
  <1> QED
    BY <1>1, <1>2

(* Octets move on: what is heard and what is coming stay as they are.      *)
LEMMA OctetsMove ==
    ASSUME ReadPart, UNCHANGED <<given, payload, got>>,
           pump' # "ended" => pump # "ended",
           inbound' \in Seq(Nat), down' \in Seq(Nat), sent' \in 0 .. Len(Script),
           Len(down') <= Room, Len(inbound') <= 4 + MaxPayload + Room,
           Coming' = Coming
    PROVE  ReadPart'
  <1>1. /\ side' = side /\ plan' = plan /\ Script' = Script
    BY SameGiven
  <1>2. UNCHANGED given /\ got' \o payload' = got \o payload
    OBVIOUS
  <1>3. PICK k \in 0 .. Len(plan) : Between(k)
    BY DEF ReadPart
  <1>4. /\ got \o payload = Heard(k)
        /\ \A i \in 1 .. k - 1 : plan[i].op # "Close"
        /\ pump # "ended" =>
             /\ \A i \in 1 .. k : plan[i].op # "Close"
             /\ OnWire(k) \o Coming = Script
    BY <1>3, BetweenIs
  <1>5. Between(k)'
    BY <1>2, <1>4, BetweenNext
  <1> QED
    BY <1>1, <1>5 DEF ReadPart

(* A step that reads nothing.                                              *)
LEMMA NothingRead ==
    ASSUME ReadPart, UNCHANGED <<given, inbound, payload, got, down, sent>>,
           pump' # "ended" => pump # "ended"
    PROVE  ReadPart'
  <1>1. Script' = Script
    BY SameGiven
  <1>2. Coming' = Coming
    BY <1>1 DEF Coming, Drop
  <1> QED
    BY <1>2, OctetsMove DEF ReadPart

(* poll_read hands up what is decoded.                                     *)
LEMMA HandUpReads ==
    ASSUME ReadPart, HandUp
    PROVE  ReadPart'
  <1>1. /\ UNCHANGED given /\ pump' = pump /\ inbound' = inbound /\ down' = down /\ sent' = sent
        /\ got' = got \o payload /\ payload' = << >>
    BY DEF HandUp, peer
  <1>2. /\ side' = side /\ plan' = plan /\ Script' = Script
    BY <1>1, SameGiven
  <1>3. /\ got' \in Seq(Nat) /\ payload' \in Seq(Nat) /\ got' \o payload' = got \o payload
    <2>1. got \o payload \in Seq(Nat)
      BY Behind DEF ReadPart
    <2>2. (got \o payload) \o << >> = got \o payload
      BY <2>1, Behind
    <2> QED
      BY <2>1, <2>2, <1>1
  <1>4. Coming' = Coming
    BY <1>1, <1>2 DEF Coming, Drop
  <1>5. PICK k \in 0 .. Len(plan) : Between(k)
    BY DEF ReadPart
  <1>6. Between(k)'
    BY <1>1, <1>3, <1>4, <1>5, BetweenIs, BetweenNext
  <1> QED
    BY <1>1, <1>2, <1>3, <1>6 DEF ReadPart

(* The transport hands over what has arrived.                              *)
LEMMA ReceiveReads ==
    ASSUME ReadPart, NEW n \in 1 .. Len(down), Receive(Poll(inbound), n)
    PROVE  ReadPart'
  <1> DEFINE p == SubSeq(down, 1, n)
             r == Drop(down, n)
             w == Drop(Script, sent)
             ev == Poll(inbound)
  <1>1. /\ UNCHANGED <<given, payload, got>> /\ pump' = pump /\ sent' = sent
        /\ inbound' = inbound \o p /\ down' = r /\ ev.kind = "none"
    BY DEF Receive, Turn, peer
  <1>2. /\ Len(down) \in Nat /\ Len(inbound) \in Nat /\ w \in Seq(Nat)
        /\ inbound \in Seq(Nat) /\ down \in Seq(Nat) /\ Len(down) <= Room
        /\ sent \in 0 .. Len(Script)
    BY ReadTypes DEF ReadPart
  <1>3. Room \in Nat /\ MaxPayload \in Nat
    BY Given
  <1>4. Len(inbound) <= 4 + MaxPayload
    <2>1. ev = Poll(inbound)
      OBVIOUS
    <2>2. "none" \notin OpCodes /\ Bad.kind # "none"
      BY Codes DEF Bad
    <2> HIDE DEF ev
    <2> QED
      BY <2>1, <2>2, <1>1, <1>2, Polled
  <1>5. p \in Seq(Nat) /\ r \in Seq(Nat) /\ p \o r = down /\ Len(p) = n /\ Len(r) = Len(down) - n
    <2>1. CutInto(down, n, p, r)
      BY <1>2, Cut
    <2> QED
      BY <2>1 DEF CutInto
  <1> HIDE DEF p, r, w, ev
  <1>6. inbound \o p \in Seq(Nat) /\ Len(inbound \o p) = Len(inbound) + Len(p)
    BY <1>2, <1>5, Behind
  <1>7. Len(r) <= Room /\ Len(inbound \o p) <= 4 + MaxPayload + Room
    <2> DEFINE a == Len(inbound)
               b == Len(down)
               c == Len(r)
               d == Len(inbound \o p)
    <2>1. a \in Nat /\ b \in Nat /\ n \in 1 .. b /\ c = b - n /\ d = a + n
      BY <1>2, <1>5, <1>6
    <2>2. a <= 4 + MaxPayload /\ b <= Room
      BY <1>2, <1>4
    <2> HIDE DEF a, b, c, d
    <2>3. c <= Room /\ d <= 4 + MaxPayload + Room
      BY <2>1, <2>2, <1>3
    <2> QED
      BY <2>3 DEF c, d
  <1>8. (inbound \o p) \o (r \o w) = inbound \o (down \o w)
    <2>1. r \o w \in Seq(Nat)
      BY <1>2, <1>5, Behind
    <2>2. (inbound \o p) \o (r \o w) = inbound \o (p \o (r \o w))
      <3>1. inbound \in Seq(Nat) /\ p \in Seq(Nat)
        BY <1>2, <1>5
      <3> QED
        BY <2>1, <3>1, Together, Zenon
    <2>3. (p \o r) \o w = p \o (r \o w)
      <3>1. p \in Seq(Nat) /\ r \in Seq(Nat) /\ w \in Seq(Nat)
        BY <1>2, <1>5
      <3> QED
        BY <3>1, Together, Zenon
    <2> QED
      BY <2>2, <2>3, <1>5, Zenon
  <1>9. Coming' = Coming
    <2>1. Script' = Script
      BY <1>1, SameGiven
    <2>2. Coming' = inbound' \o (down' \o w)
      BY <2>1, <1>1 DEF Coming, Drop, w
    <2>3. Coming = inbound \o (down \o w)
      BY DEF Coming, w
    <2> QED
      BY <2>2, <2>3, <1>1, <1>8
  <1> QED
    BY <1>1, <1>2, <1>5, <1>6, <1>7, <1>9, OctetsMove

(* What is left of a sequence.                                             *)
LEMMA Rest ==
    ASSUME NEW s \in Seq(Nat), NEW m \in Nat, m <= Len(s), NEW r, r = Drop(s, m)
    PROVE  r \in Seq(Nat) /\ Len(r) = Len(s) - m /\ \A i \in 1 .. Len(s) - m : r[i] = s[m + i]
  <1>1. Len(s) \in Nat /\ Len(s) <= Len(s)
    BY LenProperties
  <1>2. r = SubSeq(s, m + 1, Len(s))
    BY DEF Drop
  <1> QED
    BY <1>1, <1>2, Piece

(* What is left of a sequence begins with what is taken next.              *)
LEMMA NextPiece ==
    ASSUME NEW s \in Seq(Nat), NEW m \in Nat, NEW n \in Nat, m + n <= Len(s),
           NEW p, p = SubSeq(s, m + 1, m + n)
    PROVE  /\ p \in Seq(Nat) /\ Len(p) = n
           /\ Drop(s, m) = p \o Drop(s, m + n) /\ Drop(s, m + n) \in Seq(Nat)
  <1> DEFINE r == Drop(s, m + n)
             d == Drop(s, m)
             L == Len(s)
  <1>1. L \in Nat
    BY LenProperties
  <1>2. m + n \in Nat /\ m <= m + n /\ m + n <= L /\ m <= L /\ L <= L /\ (m + n) - m = n
    BY <1>1
  <1>3. p \in Seq(Nat) /\ Len(p) = n /\ \A i \in 1 .. n : p[i] = s[m + i]
    <2>1. p \in Seq(Nat) /\ Len(p) = (m + n) - m /\ \A i \in 1 .. (m + n) - m : p[i] = s[m + i]
      BY <1>2, Piece
    <2> QED
      BY <2>1, <1>2
  <1>4. r \in Seq(Nat) /\ Len(r) = L - (m + n) /\ \A i \in 1 .. L - (m + n) : r[i] = s[(m + n) + i]
    <2> DEFINE a == m + n
    <2>1. r = Drop(s, a) /\ a \in Nat /\ a <= Len(s)
      BY <1>2
    <2> HIDE DEF r, a
    <2>2. r \in Seq(Nat) /\ Len(r) = Len(s) - a /\ \A i \in 1 .. Len(s) - a : r[i] = s[a + i]
      BY <2>1, Rest
    <2> QED
      BY <2>2 DEF a
  <1>5. d \in Seq(Nat) /\ Len(d) = L - m /\ \A i \in 1 .. L - m : d[i] = s[m + i]
    <2>1. d = Drop(s, m) /\ m <= Len(s)
      BY <1>2
    <2> HIDE DEF d
    <2> QED
      BY <2>1, Rest
  <1> HIDE DEF r, d, L
  <1>6. /\ p \o r \in Seq(Nat) /\ Len(p \o r) = n + (L - (m + n))
        /\ \A i \in 1 .. n : (p \o r)[i] = p[i]
        /\ \A i \in 1 .. Len(r) : (p \o r)[n + i] = r[i]
    <2>1. /\ p \o r \in Seq(Nat) /\ Len(p \o r) = Len(p) + Len(r)
          /\ \A i \in 1 .. Len(p) : (p \o r)[i] = p[i]
          /\ \A i \in 1 .. Len(r) : (p \o r)[Len(p) + i] = r[i]
      <3>1. p \in Seq(Nat) /\ r \in Seq(Nat)
        BY <1>3, <1>4
      <3> QED
        BY <3>1, Behind
    <2> QED
      BY <2>1, <1>3, <1>4
  <1>7. Len(p \o r) = Len(d)
    BY <1>1, <1>5, <1>6, SMTT(30)
  <1>8. ASSUME NEW i \in 1 .. Len(d) PROVE (p \o r)[i] = d[i]
    <2>1. d[i] = s[m + i] /\ i \in Nat
      BY <1>1, <1>2, <1>5
    <2>2. CASE i <= n
      BY <2>1, <2>2, <1>3, <1>6
    <2>3. CASE ~(i <= n)
      <3> DEFINE j == i - n
      <3>1. j \in 1 .. Len(r) /\ j \in 1 .. L - (m + n) /\ n + j = i /\ (m + n) + j = m + i
        BY <2>1, <2>3, <1>1, <1>4, <1>5
      <3> HIDE DEF j
      <3>2. (p \o r)[n + j] = r[j] /\ r[j] = s[(m + n) + j]
        BY <3>1, <1>4, <1>6
      <3> QED
        BY <3>1, <3>2, <2>1
    <2> QED
      BY <2>2, <2>3
  <1>9. p \o r = d
    BY <1>5, <1>6, <1>7, <1>8, SameElements
  <1> QED
    BY <1>3, <1>4, <1>9 DEF r, d

(* The same for all sequences.                                             *)
LEMMA NextPieces ==
    \A s \in Seq(Nat) : \A m, n \in Nat : m + n <= Len(s) =>
        /\ SubSeq(s, m + 1, m + n) \in Seq(Nat) /\ Len(SubSeq(s, m + 1, m + n)) = n
        /\ Drop(s, m) = SubSeq(s, m + 1, m + n) \o Drop(s, m + n)
        /\ Drop(s, m + n) \in Seq(Nat)
  BY NextPiece

(* The peer sends as much of its frames as there is room for.              *)
LEMMA PeerSendsReads ==
    ASSUME ReadPart, PeerSends
    PROVE  ReadPart'
  <1> DEFINE n == Least(Len(Script) - sent, Room - Len(down))
             p == SubSeq(Script, sent + 1, sent + n)
             w == Drop(Script, sent)
             r == Drop(Script, sent + n)
  <1>1. /\ n > 0 /\ down' = down \o p /\ sent' = sent + n
        /\ UNCHANGED <<given, payload, got>> /\ pump' = pump /\ inbound' = inbound
    BY DEF PeerSends, session
  <1>2. /\ Len(down) \in Nat /\ Len(inbound) \in Nat /\ Len(Script) \in Nat
        /\ inbound \in Seq(Nat) /\ down \in Seq(Nat) /\ Script \in Seq(Nat)
        /\ sent \in 0 .. Len(Script) /\ Len(down) <= Room /\ w \in Seq(Nat)
        /\ Len(inbound) <= 4 + MaxPayload + Room
    BY ReadTypes DEF ReadPart
  <1>3. Room \in Nat
    BY Given
  <1>4. n \in Nat /\ sent \in Nat /\ sent + n <= Len(Script) /\ Len(down) + n <= Room
    BY <1>1, <1>2, <1>3 DEF Least
  <1> HIDE DEF n
  <1>5. p \in Seq(Nat) /\ Len(p) = n /\ w = p \o r /\ r \in Seq(Nat)
    <2> DEFINE S == Script
    <2>1. p = SubSeq(S, sent + 1, sent + n) /\ w = Drop(S, sent) /\ r = Drop(S, sent + n)
      OBVIOUS
    <2>2. S \in Seq(Nat) /\ n \in Nat /\ sent \in Nat /\ sent + n <= Len(S)
      BY <1>2, <1>4
    <2> HIDE DEF S, p, w, r
    <2>3. /\ p \in Seq(Nat) /\ Len(p) = n
          /\ Drop(S, sent) = p \o Drop(S, sent + n) /\ Drop(S, sent + n) \in Seq(Nat)
      BY <2>1, <2>2, NextPieces, Zenon
    <2> QED
      BY <2>1, <2>3
  <1> HIDE DEF p, w, r
  <1>6. down \o p \in Seq(Nat) /\ Len(down \o p) = Len(down) + n
    BY <1>2, <1>5, Behind
  <1>7. (down \o p) \o r = down \o w
    <2>1. down \in Seq(Nat) /\ p \in Seq(Nat) /\ r \in Seq(Nat)
      BY <1>2, <1>5
    <2>2. (down \o p) \o r = down \o (p \o r)
      BY <2>1, Together, Zenon
    <2> QED
      BY <2>2, <1>5, Zenon
  <1>8. Coming' = Coming
    <2>1. Script' = Script
      BY <1>1, SameGiven
    <2>2. Coming' = inbound \o ((down \o p) \o r)
      BY <2>1, <1>1 DEF Coming, Drop, r
    <2>3. Coming = inbound \o (down \o w)
      BY DEF Coming, w
    <2> QED
      BY <2>2, <2>3, <1>7
  <1>9. sent' \in 0 .. Len(Script) /\ Len(down') <= Room
    BY <1>1, <1>2, <1>3, <1>4, <1>6
  <1> QED
    BY <1>1, <1>2, <1>6, <1>8, <1>9, OctetsMove

(* What the decoder finds is the next frame of the peer.                   *)
IsNext(k, ev) ==
    /\ k \in 0 .. Len(plan) /\ k + 1 \in 1 .. Len(plan)
    /\ got \o payload = Heard(k)
    /\ \A i \in 1 .. k : plan[i].op # "Close"
    /\ ev.kind = plan[k + 1].op /\ ev.payload = plan[k + 1].payload
    /\ ev.rest \in Seq(Nat) /\ Len(ev.rest) <= Len(inbound)
    /\ OnWire(k + 1) \o (ev.rest \o (down \o Drop(Script, sent))) = Script

(* It is so whenever the decoder finds a frame.                            *)
LEMMA NextFrame ==
    ASSUME ReadPart, pump # "ended", NEW ev, ev = Poll(inbound),
           ev.kind # "none", ev.kind # "error"
    PROVE  \E k \in 0 .. Len(plan) : IsNext(k, ev)
  <1> DEFINE w == down \o Drop(Script, sent)
             mask == ~Masks
  <1>1. PICK k \in 0 .. Len(plan) : Between(k)
    BY DEF ReadPart
  <1>2. /\ got \o payload = Heard(k) /\ \A i \in 1 .. k : plan[i].op # "Close"
        /\ OnWire(k) \o (inbound \o w) = Script
    BY <1>1 DEF Between
  <1>3. /\ Len(plan) \in Nat /\ w \in Seq(Nat) /\ inbound \in Seq(Nat) /\ Len(inbound) \in Nat
        /\ inbound \o w \in Seq(Nat) /\ Script \in Seq(Nat) /\ plan \in Plans
    BY ReadTypes DEF ReadPart, Coming
  <1>4. mask \in BOOLEAN
    BY DEF Masks
  <1> DEFINE e == Encode(plan[k + 1], mask)
  <1>5. /\ \A j \in 0 .. Len(plan) : OnWire(j) \in Seq(Nat)
        /\ \A j \in 1 .. Len(plan) : OnWire(j) = OnWire(j - 1) \o Encode(plan[j], mask)
        /\ \A j \in 0 .. Len(plan) : \E u \in Seq(Nat) : Script = OnWire(j) \o u
        /\ Script = OnWire(Len(plan))
    BY <1>3, PlanSteps, PlanIs
  <1> HIDE DEF w, mask
  <1>6. Len(inbound) >= 2
    <2>1. CASE Len(inbound) < 2
      <3>1. DecodeHeader(inbound) = Nothing
        BY <2>1 DEF DecodeHeader
      <3>2. Nothing.kind = "none"
        BY DEF Nothing
      <3>3. ev = Nothing
        BY <3>1, <3>2 DEF Poll
      <3> QED
        BY <3>2, <3>3
    <2> QED
      BY <2>1, <1>3
  <1>7. k # Len(plan)
    <2>1. CASE k = Len(plan)
      <3>1. OnWire(k) \in Seq(Nat) /\ OnWire(k) = Script
        BY <2>1, <1>5, <1>3
      <3>2. OnWire(k) \o << >> = OnWire(k)
        BY <3>1, Behind
      <3>3. << >> \in Seq(Nat)
        OBVIOUS
      <3>4. inbound \o w = << >>
        BY <3>1, <3>2, <3>3, <1>2, <1>3, SameRest, Zenon
      <3>5. Len(inbound \o w) = Len(inbound) + Len(w) /\ Len(w) \in Nat
        BY <1>3, Behind
      <3> QED
        BY <3>4, <3>5, <1>3, <1>6
    <2> QED
      BY <2>1
  <1>8. k + 1 \in 1 .. Len(plan) /\ k + 1 \in 0 .. Len(plan) /\ (k + 1) - 1 = k
    BY <1>3, <1>7
  <1>9. PICK u \in Seq(Nat) : Script = OnWire(k + 1) \o u
    BY <1>5, <1>8
  <1>10. OnWire(k + 1) = OnWire(k) \o e /\ OnWire(k) \in Seq(Nat)
    BY <1>5, <1>8
  <1>11. plan[k + 1] \in WsFrame
    BY <1>3, <1>8, PlanIs
  <1>12. e \in Seq(Nat)
    BY <1>4, <1>11, Encoded DEF IsEncoded
  <1>13. SentAs(inbound, w, e, u)
    <2> HIDE DEF e
    <2>1. (OnWire(k) \o e) \o u = OnWire(k) \o (e \o u)
      BY <1>10, <1>12, Together, Zenon
    <2>2. e \o u \in Seq(Nat)
      BY <1>12, Behind
    <2>3. OnWire(k) \o (inbound \o w) = OnWire(k) \o (e \o u)
      BY <2>1, <1>2, <1>9, <1>10
    <2>4. inbound \o w = e \o u
      BY <2>2, <2>3, <1>3, <1>10, SameRest, Zenon
    <2> QED
      BY <2>4, <1>3, <1>12 DEF SentAs
  <1>14. /\ ev.kind = plan[k + 1].op /\ ev.payload = plan[k + 1].payload
         /\ ev.rest \in Seq(Nat) /\ ev.rest \o w = u
    <2> DEFINE f == plan[k + 1]
    <2>1. Meets(inbound, w, f, mask, u)
      BY <1>4, <1>11, <1>13 DEF Meets
    <2> HIDE DEF f
    <2>2. Finds(ev, f, w, u)
      BY <2>1, FrontIsRead
    <2> QED
      BY <2>2 DEF f, Finds
  <1>15. Len(ev.rest) <= Len(inbound)
    <2>1. Nothing.kind = "none" /\ Bad.kind = "error"
      BY DEF Nothing, Bad
    <2> QED
      BY <2>1, <1>3, Polled
  <1>16. OnWire(k + 1) \o (ev.rest \o (down \o Drop(Script, sent))) = Script
    BY <1>9, <1>14 DEF w
  <1>17. IsNext(k, ev)
    BY <1>2, <1>8, <1>14, <1>15, <1>16 DEF IsNext
  <1> QED
    BY <1>17

(* A turn of the loop that takes a frame from the front of inbound.        *)
LEMMA FrameTaken ==
    ASSUME ReadPart, pump # "ended", payload = << >>, NEW ev, ev = Poll(inbound),
           ev.kind # "none", ev.kind # "error",
           UNCHANGED <<given, got, down, sent>>, inbound' = ev.rest,
           payload' = IF ev.kind \in Control THEN << >> ELSE ev.payload,
           ev.kind = "Close" => pump' = "ended"
    PROVE  ReadPart'
  <1>1. PICK k \in 0 .. Len(plan) : IsNext(k, ev)
    BY NextFrame
  <1>2. /\ k + 1 \in 1 .. Len(plan) /\ got \o payload = Heard(k)
        /\ \A i \in 1 .. k : plan[i].op # "Close"
        /\ ev.kind = plan[k + 1].op /\ ev.payload = plan[k + 1].payload
        /\ ev.rest \in Seq(Nat) /\ Len(ev.rest) <= Len(inbound)
        /\ OnWire(k + 1) \o (ev.rest \o (down \o Drop(Script, sent))) = Script
    BY <1>1 DEF IsNext
  <1>3. Len(plan) \in Nat /\ Len(inbound) \in Nat /\ plan \in Plans
    BY ReadTypes DEF ReadPart
  <1>4. /\ side' = side /\ plan' = plan /\ Script' = Script /\ UNCHANGED given
    BY SameGiven
  <1>5. (k + 1) - 1 = k /\ k + 1 \in 0 .. Len(plan) /\ k \in Nat
    BY <1>2, <1>3
  <1>6. payload' = DataOf(plan[k + 1])
    BY <1>2 DEF DataOf
  <1>7. got' \o payload' = Heard(k + 1)
    <2>1. Heard(k + 1) = Heard((k + 1) - 1) \o DataOf(plan[k + 1])
      BY <1>2, <1>3, PlanSteps
    <2>2. got \o << >> = got
      BY Behind DEF ReadPart
    <2>3. got = Heard(k)
      BY <2>2, <1>2
    <2> QED
      BY <2>1, <2>3, <1>5, <1>6
  <1>8. OnWire(k + 1) \o Coming' = Script
    BY <1>2, <1>4 DEF Coming, Drop
  <1>9. pump' # "ended" => \A i \in 1 .. k + 1 : plan[i].op # "Close"
    <2>1. ASSUME pump' # "ended", NEW i \in 1 .. k + 1 PROVE plan[i].op # "Close"
      <3>1. i \in 1 .. k \/ i = k + 1
        BY <1>5
      <3> QED
        BY <2>1, <3>1, <1>2
    <2> QED
      BY <2>1
  <1>10. Between(k + 1)'
    BY <1>2, <1>4, <1>5, <1>7, <1>8, <1>9, BetweenNext
  <1>11. payload' \in Seq(Nat)
    <2>1. plan[k + 1] \in WsFrame
      BY <1>2, <1>3, PlanIs
    <2>2. plan[k + 1].payload \in Seq(Nat)
      BY <2>1, FrameType
    <2>3. << >> \in Seq(Nat)
      OBVIOUS
    <2>4. CASE plan[k + 1].op \in Control
      BY <2>3, <2>4, <1>6 DEF DataOf
    <2>5. CASE plan[k + 1].op \notin Control
      BY <2>2, <2>5, <1>6 DEF DataOf
    <2> QED
      BY <2>4, <2>5
  <1>12. Len(inbound') <= 4 + MaxPayload + Room
    <2> DEFINE a == Len(ev.rest)
               b == Len(inbound)
    <2>1. a \in Nat /\ b \in Nat /\ a <= b /\ b <= 4 + MaxPayload + Room
      BY <1>2, <1>3, LenProperties DEF ReadPart
    <2> HIDE DEF a, b
    <2>2. a <= 4 + MaxPayload + Room
      BY <2>1, Given
    <2> QED
      BY <2>2 DEF a
  <1> QED
    BY <1>2, <1>4, <1>5, <1>10, <1>11, <1>12 DEF ReadPart

-----------------------------------------------------------------------------
(* The steps.                                                              *)

Parts == Written /\ ReadPart

(* The two parts are the invariant.                                        *)
LEMMA PartsOfInvariant == WsInv <=> Parts
  <1>1. ASSUME Parts PROVE WsInv
    <2>1. OneFrameEach
      BY <1>1, OneEach DEF Parts
    <2>2. TypeOK
      BY <1>1 DEF Parts, Written, ReadPart, TypeOK
    <2> QED
      BY <1>1, <2>1, <2>2 DEF Parts, Written, ReadPart, WsInv
  <1>2. ASSUME WsInv PROVE Parts
    <2>1. Len(queued) \in Nat /\ Len(Frames) \in Nat
      BY <1>2, LenProperties, Given DEF WsInv, TypeOK
    <2>2. \A k : Nth(k) = NthOf(queued, k)
      BY DEF Nth, NthOf
    <2>3. NthOf(queued, Len(queued)) \in Nat
      BY <2>1, Counts
    <2>4. InOrder(queued, framed)
      <3>1. NthOf(queued, Len(queued)) <= produced /\ produced \in 0 .. Len(Frames)
        BY <1>2, <2>2 DEF WsInv, OneFrameEach, TypeOK
      <3>2. NthOf(queued, Len(queued)) <= Len(Frames)
        BY <2>1, <2>3, <3>1
      <3> QED
        BY <1>2, <2>2, <3>2 DEF WsInv, OneFrameEach, InOrder
    <2>5. Written
      BY <1>2, <2>4 DEF WsInv, TypeOK, OneFrameEach, Written
    <2>6. ReadPart
      BY <1>2 DEF WsInv, TypeOK, ReadPart
    <2> QED
      BY <2>5, <2>6 DEF Parts
  <1> QED
    BY <1>1, <1>2

(* They hold at the beginning.                                             *)
LEMMA InitParts ==
    ASSUME Init
    PROVE  Parts
  <1>1. Len(Frames) \in Nat /\ Room \in Nat /\ MaxPayload \in Nat
    BY Given
  <1>2. EndOf[0] = 0
    BY EndsOfFrames
  <1>3. NthOf(queued, 0) = 0 /\ Len(queued) = 0
    BY Counts DEF Init
  <1>4. Written
    <2>1. InOrder(queued, framed)
      BY <1>1, <1>2, <1>3 DEF InOrder, Init
    <2>2. queued \in Seq(Queued)
      BY DEF Init
    <2>3. /\ produced = 0 /\ out = 0 /\ partial = 0 /\ outbound = 0 /\ framed = 0
          /\ up = 0 /\ taken = 0 /\ pump = "select" /\ closing = FALSE /\ gone = FALSE
      BY DEF Init
    <2>4. framed + partial + out = EndOf[produced] /\ produced \in 0 .. Len(Frames) /\ up <= Room
      BY <2>3, <1>1, <1>2
    <2> QED
      BY <2>1, <2>2, <2>3, <2>4 DEF Written
  <1>5. plan \in Plans /\ side \in Sides
    BY DEF Init
  <1>6. /\ Script \in Seq(Nat) /\ Len(plan) \in Nat /\ OnWire(0) = << >> /\ Heard(0) = << >>
    BY <1>5, PlanIs, PlanSteps
  <1>7. Len(Script) \in Nat
    BY <1>6, LenProperties
  <1>8. Drop(Script, 0) = Script
    <2>1. CutInto(Script, 0, SubSeq(Script, 1, 0), Drop(Script, 0))
      BY <1>6, <1>7, Cut
    <2>2. /\ SubSeq(Script, 1, 0) \o Drop(Script, 0) = Script
          /\ Drop(Script, 0) \in Seq(Nat)
      BY <2>1 DEF CutInto
    <2>3. SubSeq(Script, 1, 0) = << >>
      OBVIOUS
    <2>4. << >> \o Drop(Script, 0) = Drop(Script, 0)
      BY <2>2, Behind
    <2> QED
      BY <2>2, <2>3, <2>4
  <1>9. OnWire(0) \o Coming = Script
    <2>1. << >> \o Script = Script
      BY <1>6, Behind
    <2>2. Coming = << >> \o (<< >> \o Drop(Script, 0))
      BY DEF Coming, Init
    <2> QED
      BY <2>1, <2>2, <1>6, <1>8
  <1>10. Between(0)
    <2>1. got \o payload = << >>
      BY DEF Init
    <2> QED
      BY <2>1, <1>6, <1>9, BetweenIs
  <1>11. ReadPart
    BY <1>1, <1>5, <1>6, <1>7, <1>10 DEF Init, ReadPart
  <1> QED
    BY <1>4, <1>11 DEF Parts

(* Session::poll_transmit, and the steps that write.                       *)
LEMMA WritingSteps ==
    ASSUME Parts, Produce \/ Writing \/ Shutdown
    PROVE  Parts'
  <1>1. Written /\ ReadPart
    BY DEF Parts
  <1>2. /\ UNCHANGED <<given, inbound, payload, got, down, sent>>
        /\ pump' # "ended" => pump # "ended"
    <2>1. CASE Produce
      BY <2>1 DEF Produce, peer
    <2>2. CASE \E n \in 1 .. out : Write(n)
      BY <2>2 DEF Write, peer
    <2>3. CASE WriteBlocked
      BY <2>3 DEF WriteBlocked, session, peer
    <2>4. CASE WriteFails
      BY <2>4 DEF WriteFails, peer
    <2>5. CASE Flush
      BY <2>5 DEF Flush, peer
    <2>6. CASE Shutdown
      BY <2>6 DEF Shutdown, peer
    <2> QED
      BY <2>1, <2>2, <2>3, <2>4, <2>5, <2>6 DEF Writing
  <1>3. ReadPart'
    BY <1>1, <1>2, NothingRead
  <1>4. Written'
    <2>1. CASE Produce
      BY <2>1, <1>1, ProduceWrites
    <2>2. CASE \E n \in 1 .. out : Write(n)
      BY <2>2, <1>1, WriteWrites
    <2>3. CASE WriteBlocked
      BY <2>3, <1>1, WriteBlockedWrites
    <2>4. CASE WriteFails
      <3>1. /\ pump' = "ended" /\ UNCHANGED <<produced, out, sending, closing, up, peer>>
        BY <2>4 DEF WriteFails
      <3> QED
        BY <3>1, <1>1 DEF Written, sending, peer
    <2>5. CASE Flush
      BY <2>5, <1>1, FlushWrites
    <2>6. CASE Shutdown
      BY <2>6, <1>1, ShutdownWrites
    <2> QED
      BY <2>1, <2>2, <2>3, <2>4, <2>5, <2>6 DEF Writing
  <1> QED
    BY <1>3, <1>4 DEF Parts

(* Nothing that is written changes.                                        *)
LEMMA NothingWritten ==
    ASSUME Written, UNCHANGED <<produced, out, sending, closing, up, taken, gone>>,
           pump' \in {pump, "ended"}
    PROVE  Written'
  BY DEF Written, sending

(* The turns of poll_read that take a frame.                               *)
LEMMA FrameSteps ==
    ASSUME Parts, NEW ev, ev = Poll(inbound), Data(ev) \/ Ping(ev) \/ Pong(ev) \/ Close(ev)
    PROVE  Parts'
  <1>1. Written /\ ReadPart /\ payload \in Seq(Nat)
    BY DEF Parts, ReadPart
  <1>2. /\ pump = "select" /\ payload = << >>
        /\ UNCHANGED <<given, produced, out, got, peer>> /\ inbound' = ev.rest /\ down' = down
    BY DEF Data, Ping, Pong, Close, Turn
  <1>3. "none" \notin OpCodes /\ "error" \notin OpCodes /\ Control \subseteq OpCodes
    BY Codes DEF Control
  <1>4. /\ ev.kind \in OpCodes
        /\ payload' = IF ev.kind \in Control THEN << >> ELSE ev.payload
        /\ ev.kind = "Close" => pump' = "ended"
    <2>1. CASE Data(ev)
      BY <2>1 DEF Data, Turn, Control
    <2>2. CASE Ping(ev)
      BY <2>2, <1>2, <1>3 DEF Ping, Turn, Control
    <2>3. CASE Pong(ev)
      BY <2>3, <1>2, <1>3 DEF Pong, Turn, Control
    <2>4. CASE Close(ev)
      BY <2>4, <1>2, <1>3 DEF Close, Turn, Control
    <2> QED
      BY <2>1, <2>2, <2>3, <2>4
  <1>5. ev.kind # "none" /\ ev.kind # "error"
    BY <1>3, <1>4
  <1>6. ReadPart'
    BY <1>1, <1>2, <1>4, <1>5, FrameTaken DEF peer
  <1>7. ev.payload \in Seq(Nat)
    <2>1. Nothing.kind = "none" /\ Bad.kind = "error" /\ inbound \in Seq(Nat)
      BY <1>1 DEF Nothing, Bad, ReadPart
    <2> QED
      BY <2>1, <1>5, Polled
  <1>8. Written'
    <2>1. CASE Data(ev)
      BY <2>1, <1>1, <1>2, NothingWritten DEF Data, peer
    <2>2. CASE Ping(ev)
      <3>1. /\ Keep(Queue(Buffers, "Pong", ev.payload, Len(ev.payload)))
            /\ closing' = closing /\ pump' = pump
        BY <2>2 DEF Ping
      <3>2. Len(ev.payload) \in Nat
        BY <1>7, LenProperties
      <3>3. closing' \in BOOLEAN /\ pump' \in {"select", "ended"}
        BY <3>1, <1>1, <1>2 DEF Written
      <3> QED
        BY <3>1, <3>2, <3>3, <1>1, <1>2, <1>7, ControlWrites DEF peer
    <2>3. CASE Pong(ev)
      BY <2>3, <1>1, <1>2, NothingWritten DEF Pong, peer
    <2>4. CASE Close(ev)
      <3>1. /\ IF closing THEN UNCHANGED <<sending, up>>
                          ELSE Keep(Queue(Buffers, "Close", CloseCode, 2))
            /\ closing' = TRUE /\ pump' = "ended"
        BY <2>4 DEF Close
      <3>2. closing' \in BOOLEAN /\ pump' \in {"select", "ended"}
        BY <3>1
      <3>3. CASE closing
        <4>1. closing' = closing
          BY <3>1, <3>3, <1>1 DEF Written
        <4> QED
          BY <3>1, <3>3, <4>1, <1>1, <1>2, NothingWritten DEF peer
      <3>4. CASE ~closing
        <4>1. Keep(Queue(Buffers, "Close", CloseCode, 2))
          BY <3>1, <3>4
        <4>2. CloseCode \in Seq(Nat) /\ 2 \in Nat
          BY DEF CloseCode
        <4> QED
          BY <3>2, <4>1, <4>2, <1>1, <1>2, ControlWrites DEF peer
      <3> QED
        BY <3>3, <3>4
    <2> QED
      BY <2>1, <2>2, <2>3, <2>4
  <1> QED
    BY <1>6, <1>8 DEF Parts

(* poll_read, every turn of it.                                            *)
LEMMA ReadingSteps ==
    ASSUME Parts, Reading
    PROVE  Parts'
  <1>1. Written /\ ReadPart
    BY DEF Parts
  <1> DEFINE ev == Poll(inbound)
  <1>2. CASE HandUp
    <2>1. ReadPart'
      BY <1>1, <1>2, HandUpReads
    <2>2. Written'
      BY <1>1, <1>2, NothingWritten DEF HandUp, peer
    <2> QED
      BY <2>1, <2>2 DEF Parts
  <1>3. CASE Data(ev) \/ Ping(ev) \/ Pong(ev) \/ Close(ev)
    <2>1. ev = Poll(inbound)
      OBVIOUS
    <2> HIDE DEF ev
    <2> QED
      BY <1>3, <2>1, FrameSteps
  <1>4. CASE ReadFails(ev) \/ EndOfFile(ev)
    <2>1. /\ pump' = "ended"
          /\ UNCHANGED <<given, produced, out, got, peer>>
          /\ UNCHANGED <<inbound, payload, sending, closing, up, down>>
      BY <1>4 DEF ReadFails, EndOfFile, Turn
    <2>2. ReadPart'
      BY <2>1, <1>1, NothingRead DEF peer
    <2>3. Written'
      BY <2>1, <1>1, NothingWritten DEF peer
    <2> QED
      BY <2>2, <2>3 DEF Parts
  <1>5. CASE \E n \in 1 .. Len(down) : Receive(ev, n)
    <2>1. PICK n \in 1 .. Len(down) : Receive(ev, n)
      BY <1>5
    <2>2. ReadPart'
      BY <2>1, <1>1, ReceiveReads
    <2>3. /\ pump' = pump /\ UNCHANGED <<given, produced, out, got, peer>>
          /\ UNCHANGED <<payload, sending, closing, up>>
      BY <2>1 DEF Receive, Turn
    <2>4. Written'
      BY <2>3, <1>1, NothingWritten DEF peer
    <2> QED
      BY <2>2, <2>4 DEF Parts
  <1> QED
    BY <1>2, <1>3, <1>4, <1>5 DEF Reading

(* The peer.                                                               *)
LEMMA PeerSteps ==
    ASSUME Parts, PeerSends \/ PeerReads \/ PeerGoes
    PROVE  Parts'
  <1>1. Written /\ ReadPart
    BY DEF Parts
  <1>2. CASE PeerSends
    <2>1. ReadPart'
      BY <1>1, <1>2, PeerSendsReads
    <2>2. Written'
      BY <1>1, <1>2, NothingWritten DEF PeerSends, session
    <2> QED
      BY <2>1, <2>2 DEF Parts
  <1>3. CASE PeerReads \/ PeerGoes
    <2>1. /\ UNCHANGED <<given, session, sending, inbound, payload, closing, down, sent>>
      BY <1>3 DEF PeerReads, PeerGoes
    <2>2. ReadPart'
      BY <2>1, <1>1, NothingRead DEF session
    <2>3. up' \in Nat /\ taken' \in Nat /\ gone' \in BOOLEAN /\ up' <= Room
      <3>1. up \in Nat /\ taken \in Nat /\ gone \in BOOLEAN /\ up <= Room /\ Room \in Nat
        BY <1>1, Given DEF Written
      <3>2. CASE PeerReads
        <4>1. up' = 0 /\ taken' = taken + up /\ gone' = gone
          BY <3>2 DEF PeerReads
        <4>2. up' \in Nat /\ taken' \in Nat /\ up' <= Room
          BY <3>1, <4>1
        <4> QED
          BY <3>1, <4>1, <4>2, Zenon
      <3>3. CASE PeerGoes
        BY <3>1, <3>3 DEF PeerGoes
      <3> QED
        BY <1>3, <3>2, <3>3
    <2>4. Written'
      BY <2>1, <2>3, <1>1 DEF Written, session, sending
    <2> QED
      BY <2>2, <2>4 DEF Parts
  <1> QED
    BY <1>2, <1>3

(* Every step keeps both parts.                                            *)
LEMMA NextParts ==
    ASSUME Parts, [Next]_vars
    PROVE  Parts'
  <1>1. CASE Produce \/ Writing \/ Shutdown
    BY <1>1, WritingSteps
  <1>2. CASE Reading
    BY <1>2, ReadingSteps
  <1>3. CASE PeerSends \/ PeerReads \/ PeerGoes
    BY <1>3, PeerSteps
  <1>4. CASE UNCHANGED vars
    <2>1. /\ UNCHANGED <<given, session, sending, inbound, payload, closing, up, down>>
          /\ UNCHANGED peer
      BY <1>4 DEF vars
    <2>2. ReadPart'
      BY <2>1, NothingRead DEF Parts, session, peer
    <2>3. Written'
      BY <2>1, NothingWritten DEF Parts, session, peer
    <2> QED
      BY <2>2, <2>3 DEF Parts
  <1> QED
    BY <1>1, <1>2, <1>3, <1>4 DEF Next

-----------------------------------------------------------------------------
(* The theorems.                                                           *)

(* A sequence is in front of what begins with it.                          *)
LEMMA InFront ==
    ASSUME NEW s \in Seq(Nat), NEW u \in Seq(Nat)
    PROVE  IsPrefix(s, s \o u)
  <1> DEFINE t == s \o u
             n == Len(s)
  <1>1. t \in Seq(Nat) /\ n \in Nat /\ n <= Len(t) /\ \A i \in 1 .. n : t[i] = s[i]
    BY Behind
  <1> HIDE DEF t
  <1>2. CutInto(t, n, SubSeq(t, 1, n), Drop(t, n)) /\ CutInto(s, n, SubSeq(s, 1, n), Drop(s, n))
    BY <1>1, Cut
  <1>3. /\ SubSeq(t, 1, n) \in Seq(Nat) /\ Len(SubSeq(t, 1, n)) = n
        /\ \A i \in 1 .. n : SubSeq(t, 1, n)[i] = t[i]
        /\ SubSeq(s, 1, n) \in Seq(Nat) /\ Len(SubSeq(s, 1, n)) = n
        /\ \A i \in 1 .. n : SubSeq(s, 1, n)[i] = s[i]
    BY <1>2 DEF CutInto
  <1> DEFINE x == SubSeq(t, 1, n)
             y == SubSeq(s, 1, n)
  <1>4. x = y
    <2>1. /\ x \in Seq(Nat) /\ y \in Seq(Nat) /\ Len(x) = n /\ Len(y) = n
          /\ \A i \in 1 .. n : y[i] = x[i]
      BY <1>1, <1>3
    <2> HIDE DEF x, y, n
    <2> QED
      BY <2>1, SameElements
  <1> QED
    BY <1>1, <1>4 DEF IsPrefix, t

(* The invariant is inductive: whatever the driver, the decoder and the    *)
(* peer do next, the session has the data of the first frames of the peer, *)
(* and what the decoder holds begins with the next one; the frames queued  *)
(* are BEEP frames in order, and partial and out hold the rest.            *)
THEOREM Inductive == Spec => []WsInv
  <1>1. Init => WsInv
    BY InitParts, PartsOfInvariant
  <1>2. WsInv /\ [Next]_vars => WsInv'
    <2> SUFFICES ASSUME WsInv, [Next]_vars PROVE WsInv'
      OBVIOUS
    <2>1. Parts
      BY PartsOfInvariant
    <2>2. Parts'
      BY <2>1, NextParts
    <2>3. WsInv' <=> Parts'
      BY PartsOfInvariant, PTL
    <2> QED
      BY <2>2, <2>3
  <1> QED
    BY <1>1, <1>2, PTL DEF Spec

(* The parts of the stream are of their types, and inbound never outgrows  *)
(* one header, MAX_PAYLOAD and a read, whatever length a peer announces.   *)
THEOREM StreamTypes == Spec => []TypeOK
  <1>1. WsInv => TypeOK
    BY DEF WsInv
  <1> QED
    BY <1>1, Inductive, PTL

(* Every WebSocket frame of data holds exactly one BEEP frame, in order,   *)
(* and none is lost, cut or sent twice by poll_write, poll_flush or        *)
(* poll_shutdown, wherever what they are offered is cut.                   *)
THEOREM OneBeepFrameEach == Spec => []OneFrameEach
  <1>1. WsInv => OneFrameEach
    BY DEF WsInv
  <1> QED
    BY <1>1, Inductive, PTL

(* What poll_read hands up is the data of the peer's frames up to its      *)
(* Close, in order, unmasked and without the control frames, wherever the  *)
(* transport cuts them.                                                    *)
THEOREM ReadsInOrder == Spec => []ReadInOrder
  <1>1. WsInv => ReadInOrder
    <2> SUFFICES ASSUME WsInv PROVE ReadInOrder
      OBVIOUS
    <2>1. ReadPart
      BY PartsOfInvariant DEF Parts
    <2>2. PICK k \in 0 .. Len(plan) : Between(k)
      BY <2>1 DEF ReadPart
    <2>3. got \o payload = Heard(k) /\ \A i \in 1 .. k - 1 : plan[i].op # "Close"
      BY <2>2 DEF Between
    <2>4. plan \in Plans /\ Heard(k) \in Seq(Nat)
      BY <2>1, PlanSteps DEF ReadPart
    <2>5. PICK u \in Seq(Nat) : Expected = Heard(k) \o u
      BY <2>3, <2>4, ExpectedIs
    <2> QED
      BY <2>3, <2>4, <2>5, InFront DEF ReadInOrder
  <1> QED
    BY <1>1, Inductive, PTL

=============================================================================

---------------------------- MODULE OpeningProofs ----------------------------
(***************************************************************************)
(* Theorems about Opening, for every set of openings, every set of keys,   *)
(* every limit on a head and every size of a read.                         *)
(***************************************************************************)
EXTENDS Opening, SequenceTheorems, WellFoundedInduction, TLAPS

-----------------------------------------------------------------------------
(* Sequences of tokens.                                                    *)

(* There are two ends.                                                     *)
LEMMA TwoEnds ==
    /\ Ends = {"client", "server"} /\ \A e \in Ends : Other(e) \in Ends
    /\ Other("client") = "server" /\ Other("server") = "client"
  BY DEF Ends, Other

(* What it is to be among the members of a sequence.                       *)
LEMMA IsMember ==
    ASSUME NEW s
    PROVE  /\ \A i \in 1 .. Len(s) : s[i] \in Members(s)
           /\ \A x \in Members(s) : \E i \in 1 .. Len(s) : x = s[i]
  BY DEF Members

(* Nothing has no members.                                                 *)
LEMMA NoMember == Members(<< >>) = {} /\ << >> \in Seq(Tokens) /\ Len(<< >>) = 0
  <1>1. << >> \in Seq(Tokens) /\ Len(<< >>) = 0
    BY EmptySeq
  <1> QED
    BY <1>1 DEF Members

(* Two sequences, one behind the other.                                    *)
LEMMA Joined ==
    ASSUME NEW s \in Seq(Tokens), NEW t \in Seq(Tokens)
    PROVE  /\ s \o t \in Seq(Tokens) /\ Len(s \o t) = Len(s) + Len(t)
           /\ Len(s) \in Nat /\ Len(t) \in Nat
           /\ \A i \in 1 .. Len(s) : (s \o t)[i] = s[i]
           /\ \A i \in 1 .. Len(t) : (s \o t)[Len(s) + i] = t[i]
           /\ Members(s \o t) = Members(s) \cup Members(t)
           /\ s \o << >> = s /\ << >> \o s = s
           /\ s \o t = << >> => s = << >> /\ t = << >>
           /\ s # << >> => s \o t # << >> /\ (s \o t)[1] = s[1]
  <1>1. /\ s \o t \in Seq(Tokens) /\ Len(s \o t) = Len(s) + Len(t)
        /\ \A i \in 1 .. Len(s) + Len(t) : (s \o t)[i] =
               IF i <= Len(s) THEN s[i] ELSE t[i - Len(s)]
    BY ConcatProperties
  <1>2. Len(s) \in Nat /\ Len(t) \in Nat
    BY LenProperties
  <1>3. \A i \in 1 .. Len(s) : (s \o t)[i] = s[i]
    BY <1>1, <1>2
  <1>4. \A i \in 1 .. Len(t) : (s \o t)[Len(s) + i] = t[i]
    BY <1>1, <1>2
  <1>5. ASSUME NEW x \in Members(s \o t) PROVE x \in Members(s) \cup Members(t)
    <2>1. PICK i \in 1 .. Len(s) + Len(t) : x = (s \o t)[i]
      BY <1>1 DEF Members
    <2>2. CASE i <= Len(s)
      <3>1. i \in 1 .. Len(s) /\ x = s[i]
        BY <1>2, <1>3, <2>1, <2>2
      <3> QED
        BY <3>1, IsMember
    <2>3. CASE ~(i <= Len(s))
      <3>1. i - Len(s) \in 1 .. Len(t) /\ x = t[i - Len(s)]
        BY <1>1, <1>2, <2>1, <2>3
      <3> QED
        BY <3>1, IsMember
    <2> QED
      BY <2>2, <2>3
  <1>6. ASSUME NEW x \in Members(s) PROVE x \in Members(s \o t)
    <2>1. PICK i \in 1 .. Len(s) : x = s[i]
      BY DEF Members
    <2>2. i \in 1 .. Len(s \o t) /\ x = (s \o t)[i]
      BY <1>1, <1>2, <1>3, <2>1
    <2> QED
      BY <2>2, IsMember
  <1>7. ASSUME NEW x \in Members(t) PROVE x \in Members(s \o t)
    <2>1. PICK i \in 1 .. Len(t) : x = t[i]
      BY DEF Members
    <2>2. Len(s) + i \in 1 .. Len(s \o t) /\ x = (s \o t)[Len(s) + i]
      BY <1>1, <1>2, <1>4, <2>1
    <2> QED
      BY <2>2, IsMember
  <1>8. Members(s \o t) = Members(s) \cup Members(t)
    BY <1>5, <1>6, <1>7
  <1>9. s \o << >> = s /\ << >> \o s = s
    BY ConcatEmptySeq
  <1>10. s \o t = << >> => s = << >> /\ t = << >>
    BY ConcatEqualIffEmpty
  <1>11. s # << >> => s \o t # << >> /\ (s \o t)[1] = s[1]
    <2>1. s # << >> => Len(s) \in Nat \ {0}
      BY EmptySeq
    <2>2. s # << >> => 1 \in 1 .. Len(s)
      BY <2>1
    <2> QED
      BY <1>3, <1>10, <2>2
  <1> QED
    BY <1>1, <1>2, <1>3, <1>4, <1>8, <1>9, <1>10, <1>11

(* Three sequences of tokens.                                              *)
AreTokens(s, t, u) == s \in Seq(Tokens) /\ t \in Seq(Tokens) /\ u \in Seq(Tokens)

(* The order of three does not depend on which two are put together first. *)
LEMMA Three ==
    ASSUME NEW s, NEW t, NEW u, AreTokens(s, t, u)
    PROVE  (s \o t) \o u = s \o (t \o u)
  <1>1. s \in Seq(Tokens) /\ t \in Seq(Tokens) /\ u \in Seq(Tokens)
    BY DEF AreTokens
  <1>2. \A T : \A x, y, z \in Seq(T) : (x \o y) \o z = x \o (y \o z)
    BY ConcatAssociative
  <1>3. \A x, y, z \in Seq(Tokens) : (x \o y) \o z = x \o (y \o z)
    BY <1>2
  <1> QED
    BY <1>1, <1>3, Zenon

(* What is behind the same front is the same.                              *)
LEMMA SameRest ==
    \A s, t, u \in Seq(Tokens) : s \o t = s \o u => t = u
  <1>1. \A T : \A s, t, u \in Seq(T) : s \o t = s \o u => t = u
    BY ConcatSimplifications
  <1> QED
    BY <1>1

(* A sequence cut in two.                                                  *)
CutInto(s, n, p, r) ==
    /\ p \in Seq(Tokens) /\ r \in Seq(Tokens) /\ p \o r = s
    /\ Len(p) = n /\ Len(r) = Len(s) - n
    /\ \A i \in 1 .. n : p[i] = s[i]
    /\ Members(p) \subseteq Members(s) /\ Members(r) \subseteq Members(s)

(* So is any sequence, at any of its tokens.                               *)
LEMMA Cut ==
    ASSUME NEW s \in Seq(Tokens), NEW n \in Nat, n <= Len(s),
           NEW p, p = SubSeq(s, 1, n), NEW r, r = SubSeq(s, n + 1, Len(s))
    PROVE  CutInto(s, n, p, r)
  <1>1. Len(s) \in Nat
    BY LenProperties
  <1>2. \A i \in 1 .. Len(s) : s[i] \in Tokens
    BY ElementOfSeq
  <1>3. /\ p \in Seq(Tokens) /\ Len(p) = n /\ \A i \in 1 .. n : p[i] = s[i]
    <2>1. \A i \in 1 .. n : s[i] \in Tokens
      BY <1>1, <1>2
    <2>2. /\ SubSeq(s, 1, n) \in Seq(Tokens)
          /\ Len(SubSeq(s, 1, n)) = IF 1 <= n THEN n - 1 + 1 ELSE 0
          /\ \A i \in 1 .. n - 1 + 1 : SubSeq(s, 1, n)[i] = s[1 + i - 1]
      BY <2>1, SubSeqProperties
    <2> QED
      BY <2>2
  <1>4. /\ r \in Seq(Tokens) /\ Len(r) = Len(s) - n
        /\ \A i \in 1 .. Len(s) - n : r[i] = s[n + i]
    <2>1. \A i \in n + 1 .. Len(s) : s[i] \in Tokens
      BY <1>1, <1>2
    <2>2. /\ SubSeq(s, n + 1, Len(s)) \in Seq(Tokens)
          /\ Len(SubSeq(s, n + 1, Len(s))) =
               IF n + 1 <= Len(s) THEN Len(s) - (n + 1) + 1 ELSE 0
          /\ \A i \in 1 .. Len(s) - (n + 1) + 1 :
               SubSeq(s, n + 1, Len(s))[i] = s[(n + 1) + i - 1]
      BY <1>1, <2>1, SubSeqProperties
    <2>3. Len(r) = Len(s) - n
      BY <1>1, <2>2
    <2>4. ASSUME NEW i \in 1 .. Len(s) - n PROVE r[i] = s[n + i]
      <3>1. i \in 1 .. Len(s) - (n + 1) + 1 /\ (n + 1) + i - 1 = n + i
        BY <1>1
      <3> QED
        BY <2>2, <3>1
    <2> QED
      BY <2>2, <2>3, <2>4
  <1>5. p \o r = s
    <2>1. /\ p \o r \in Seq(Tokens) /\ Len(p \o r) = Len(p) + Len(r)
          /\ \A i \in 1 .. Len(p) : (p \o r)[i] = p[i]
          /\ \A i \in 1 .. Len(r) : (p \o r)[Len(p) + i] = r[i]
      <3>1. \A x, y \in Seq(Tokens) :
               /\ x \o y \in Seq(Tokens) /\ Len(x \o y) = Len(x) + Len(y)
               /\ \A i \in 1 .. Len(x) : (x \o y)[i] = x[i]
               /\ \A i \in 1 .. Len(y) : (x \o y)[Len(x) + i] = y[i]
        BY Joined
      <3> QED
        BY <1>3, <1>4, <3>1
    <2>2. ASSUME NEW i \in 1 .. Len(s) PROVE (p \o r)[i] = s[i]
      <3>1. CASE i <= n
        BY <1>1, <1>3, <2>1, <3>1
      <3>2. CASE ~(i <= n)
        <4>1. i - n \in 1 .. Len(r) /\ i - n \in 1 .. Len(s) - n /\ n + (i - n) = i
          BY <1>1, <1>4, <3>2
        <4>2. (p \o r)[i] = s[i]
          <5>1. r[i - n] = s[i] /\ Len(p) + (i - n) = i
            BY <1>3, <1>4, <4>1
          <5>2. (p \o r)[Len(p) + (i - n)] = r[i - n]
            BY <2>1, <4>1
          <5> QED
            BY <5>1, <5>2
        <4> QED
          BY <4>2
      <3> QED
        BY <3>1, <3>2
    <2>3. Len(p \o r) = Len(s)
      <3>1. Len(p \o r) = Len(p) + Len(r)
        BY <2>1
      <3>2. Len(p) = n /\ Len(r) = Len(s) - n
        BY <1>3, <1>4
      <3>3. n + (Len(s) - n) = Len(s)
        BY <1>1
      <3> QED
        BY <3>1, <3>2, <3>3
    <2>4. \A i \in 1 .. Len(p \o r) : (p \o r)[i] = s[i]
      BY <2>2, <2>3
    <2> QED
      BY <2>1, <2>3, <2>4, SeqEqual
  <1>6. Members(s) = Members(p) \cup Members(r)
    <2>1. \A x, y \in Seq(Tokens) : Members(x \o y) = Members(x) \cup Members(y)
      BY Joined
    <2> QED
      BY <1>3, <1>4, <1>5, <2>1
  <1> QED
    BY <1>3, <1>4, <1>5, <1>6 DEF CutInto

-----------------------------------------------------------------------------
(* What heads and greetings are made of.                                   *)

(* Short sequences.                                                        *)
LEMMA Tuples ==
    /\ \A a \in Tokens : <<a>> \in Seq(Tokens) /\ Len(<<a>>) = 1 /\ Members(<<a>>) = {a}
    /\ \A a, b \in Tokens :
         <<a, b>> \in Seq(Tokens) /\ Len(<<a, b>>) = 2 /\ Members(<<a, b>>) = {a, b}
    /\ \A a, b, c \in Tokens :
         <<a, b, c>> \in Seq(Tokens) /\ Members(<<a, b, c>>) = {a, b, c}
    /\ \A a, b, c, d \in Tokens :
         <<a, b, c, d>> \in Seq(Tokens) /\ Members(<<a, b, c, d>>) = {a, b, c, d}
  <1>1. \A a \in Tokens : <<a>> \in Seq(Tokens) /\ Len(<<a>>) = 1 /\ Members(<<a>>) = {a}
    BY DEF Members
  <1>2. \A a, b \in Tokens :
          <<a, b>> \in Seq(Tokens) /\ Len(<<a, b>>) = 2 /\ Members(<<a, b>>) = {a, b}
    BY DEF Members
  <1>3. \A a, b, c \in Tokens :
          <<a, b, c>> \in Seq(Tokens) /\ Members(<<a, b, c>>) = {a, b, c}
    BY DEF Members
  <1>4. \A a, b, c, d \in Tokens :
          <<a, b, c, d>> \in Seq(Tokens) /\ Members(<<a, b, c, d>>) = {a, b, c, d}
    BY DEF Members
  <1> QED
    BY <1>1, <1>2, <1>3, <1>4

(* The tokens of the model are tokens.                                     *)
LEMMA TheTokens ==
    /\ \A e \in Ends : Tok("RPY", e) \in Tokens /\ Tok("END", e) \in Tokens
    /\ Eol \in Tokens /\ RequestLine \in Tokens /\ Rest \in Tokens /\ Tok("host", "") \in Tokens
    /\ Tok("upgrade", "websocket") \in Tokens /\ Tok("upgrade", "beep") \in Tokens
    /\ Tok("connection", "upgrade") \in Tokens
    /\ Tok("version", "8") \in Tokens /\ Tok("version", "13") \in Tokens
    /\ \A c \in {"101", "200", "400"} : Status(c) \in Tokens
    /\ \A k \in Keys : Tok("key", k) \in Tokens /\ AcceptKey(k) \in Tokens
  BY DEF Tokens, Words, Tok, Eol, RequestLine, Rest, Status, AcceptKey, Ends

(* The parts of a token.                                                   *)
LEMMA Parts ==
    /\ \A t, v : Tok(t, v).t = t /\ Tok(t, v).v = v
    /\ Eol.t = "eol" /\ RequestLine.t \in {"GET", "POST"}
    /\ \A c : Status(c).t = "HTTP" /\ Status(c).v = c
    /\ \A k : AcceptKey(k).t = "accept" /\ AcceptKey(k).v = k
  BY DEF Tok, Eol, RequestLine, Status, AcceptKey

(* A blank line is two ends of line.                                       *)
LEMMA BlankLine ==
    Blank \in Seq(Tokens) /\ Len(Blank) = 2 /\ Blank[1] = Eol /\ Blank[2] = Eol
    /\ Members(Blank) = {Eol}
  <1>1. /\ <<Eol, Eol>> \in Seq(Tokens) /\ Len(<<Eol, Eol>>) = 2
        /\ Members(<<Eol, Eol>>) = {Eol, Eol}
    BY Tuples, TheTokens
  <1> QED
    BY <1>1 DEF Blank

(* A greeting.                                                             *)
LEMMA Greetings ==
    \A e \in Ends :
        /\ Greeting(e) \in Seq(Tokens) /\ Greeting(e) # << >>
        /\ Members(Greeting(e)) = {Tok("RPY", e), Eol, Tok("END", e)}
  <1> SUFFICES ASSUME NEW e \in Ends
               PROVE  /\ Greeting(e) \in Seq(Tokens) /\ Greeting(e) # << >>
                      /\ Members(Greeting(e)) = {Tok("RPY", e), Eol, Tok("END", e)}
    OBVIOUS
  <1>1. PICK a, b : a = Tok("RPY", e) /\ b = Tok("END", e)
    OBVIOUS
  <1>2. a \in Tokens /\ b \in Tokens /\ Eol \in Tokens
    BY <1>1, TheTokens
  <1>3. <<a, Eol, Eol, b>> \in Seq(Tokens) /\ Members(<<a, Eol, Eol, b>>) = {a, Eol, Eol, b}
    BY <1>2, Tuples
  <1>4. Greeting(e) = <<a, Eol, Eol, b>> /\ Greeting(e) # << >>
    BY <1>1 DEF Greeting
  <1> QED
    BY <1>1, <1>3, <1>4

-----------------------------------------------------------------------------
(* Where a head ends.                                                      *)

(* A blank line in a sequence.                                             *)
LEMMA BlankAt ==
    ASSUME NEW s \in Seq(Tokens), NEW i \in 1 .. Len(s) - 1
    PROVE  SubSeq(s, i, i + 1) = Blank <=> s[i] = Eol /\ s[i + 1] = Eol
  <1>1. Len(s) \in Nat
    BY LenProperties
  <1>2. \A j \in i .. i + 1 : s[j] \in Tokens
    BY <1>1, ElementOfSeq
  <1>3. PICK p : p = SubSeq(s, i, i + 1)
    OBVIOUS
  <1>4. /\ SubSeq(s, i, i + 1) \in Seq(Tokens)
        /\ Len(SubSeq(s, i, i + 1)) = IF i <= i + 1 THEN (i + 1) - i + 1 ELSE 0
        /\ \A j \in 1 .. (i + 1) - i + 1 : SubSeq(s, i, i + 1)[j] = s[i + j - 1]
    BY <1>2, SubSeqProperties
  <1>5. p \in Seq(Tokens) /\ Len(p) = 2 /\ p[1] = s[i] /\ p[2] = s[i + 1]
    <2>1. Len(p) = 2
      BY <1>3, <1>4
    <2>2. 1 \in 1 .. (i + 1) - i + 1 /\ 2 \in 1 .. (i + 1) - i + 1 /\ i + 1 - 1 = i
          /\ i + 2 - 1 = i + 1
      OBVIOUS
    <2> QED
      BY <1>3, <1>4, <2>1, <2>2
  <1>6. p[1] = Eol /\ p[2] = Eol => p = Blank
    <2>1. ASSUME p[1] = Eol, p[2] = Eol, NEW j \in 1 .. Len(p) PROVE p[j] = Blank[j]
      BY <1>5, <2>1, BlankLine
    <2>2. Len(p) = Len(Blank) /\ Blank \in Seq(Tokens)
      BY <1>5, BlankLine
    <2> QED
      BY <1>5, <2>1, <2>2, SeqEqual
  <1>7. p = Blank => p[1] = Eol /\ p[2] = Eol
    BY BlankLine
  <1> QED
    BY <1>3, <1>5, <1>6, <1>7

(* find_blank_line finds one of them.                                      *)
LEMMA BlankInside ==
    ASSUME NEW s \in Seq(Tokens)
    PROVE  /\ FindBlankLine(s) \in 0 .. Len(s)
           /\ FindBlankLine(s) # 0 =>
                \E i \in 1 .. Len(s) - 1 : s[i] = Eol /\ s[i + 1] = Eol
  <1> DEFINE at == {i \in 1 .. Len(s) - 1 : SubSeq(s, i, i + 1) = Blank}
  <1>1. Len(s) \in Nat
    BY LenProperties
  <1>2. at \subseteq Nat
    BY <1>1
  <1>3. ASSUME NEW i \in at PROVE \E l \in at : \A j \in at : l <= j
    <2>1. PICK l \in at : \A j \in at : ~(<<j, l>> \in OpToRel(<, Nat))
      BY <1>2, <1>3, NatLessThanWellFounded, WFMin
    <2>2. \A a, b \in Nat : a < b => <<a, b>> \in OpToRel(<, Nat)
      BY DEF OpToRel
    <2>3. ASSUME NEW j \in at PROVE l <= j
      <3>1. j \in Nat /\ l \in Nat
        BY <1>2
      <3>2. ~(j < l)
        BY <2>1, <2>2, <3>1
      <3> QED
        BY <3>1, <3>2
    <2> QED
      BY <2>3
  <1>4. CASE at = {}
    <2>1. FindBlankLine(s) = 0
      BY <1>4 DEF FindBlankLine
    <2> QED
      BY <1>1, <2>1
  <1>5. CASE at # {}
    <2>1. PICK c : c = CHOOSE i \in at : \A j \in at : i <= j
      OBVIOUS
    <2>2. c \in at
      BY <1>3, <1>5, <2>1
    <2>3. FindBlankLine(s) = 1 + c
      BY <1>5, <2>1 DEF FindBlankLine
    <2>4. c \in 1 .. Len(s) - 1 /\ s[c] = Eol /\ s[c + 1] = Eol
      BY <2>2, BlankAt
    <2> QED
      BY <1>1, <2>3, <2>4
  <1> QED
    BY <1>4, <1>5

(* It is the first of them.                                                *)
LEMMA FirstBlank ==
    ASSUME NEW s \in Seq(Tokens), NEW k \in 1 .. Len(s) - 1, s[k] = Eol, s[k + 1] = Eol,
           \A i \in 1 .. k - 1 : s[i] # Eol
    PROVE  FindBlankLine(s) = k + 1
  <1> DEFINE at == {i \in 1 .. Len(s) - 1 : SubSeq(s, i, i + 1) = Blank}
  <1>1. Len(s) \in Nat
    BY LenProperties
  <1>2. k \in at
    BY BlankAt
  <1>3. ASSUME NEW j \in at PROVE k <= j
    <2>1. j \in 1 .. Len(s) - 1 /\ s[j] = Eol
      BY BlankAt
    <2>2. ~(j \in 1 .. k - 1)
      BY <2>1
    <2> QED
      BY <1>1, <2>1, <2>2
  <1>4. PICK c : c = CHOOSE i \in at : \A j \in at : i <= j
    OBVIOUS
  <1>5. c \in at /\ \A j \in at : c <= j
    BY <1>2, <1>3, <1>4
  <1>6. c = k
    <2>1. c <= k /\ k <= c /\ c \in 1 .. Len(s) - 1
      BY <1>2, <1>3, <1>5
    <2> QED
      BY <1>1, <2>1
  <1>7. FindBlankLine(s) = 1 + c
    BY <1>2, <1>4 DEF FindBlankLine
  <1> QED
    BY <1>6, <1>7

(* A head is fields without an end of line, and then a blank line.         *)
IsHead(h) == \E f \in Seq(Tokens) : Eol \notin Members(f) /\ h = f \o Blank

(* What an end has read and what is on its way to it are a head and what   *)
(* is behind the head, and it has read to a blank line.                    *)
HasHead(h, rest, s, w) ==
    /\ rest \in Seq(Tokens) /\ s \in Seq(Tokens) /\ w \in Seq(Tokens)
    /\ IsHead(h) /\ s \o w = h \o rest /\ FindBlankLine(s) # 0

(* However much of a head and of what is behind it has been read, what     *)
(* find_blank_line finds is the end of the head, and what is kept for the  *)
(* session is all that is behind it.                                       *)
LEMMA HeadFound ==
    ASSUME NEW h, NEW rest, NEW s, NEW w, HasHead(h, rest, s, w)
    PROVE  FindBlankLine(s) = Len(h) /\ KeepRest(s, FindBlankLine(s)) \o w = rest
  <1> SUFFICES ASSUME rest \in Seq(Tokens), s \in Seq(Tokens), w \in Seq(Tokens),
                      IsHead(h), s \o w = h \o rest, FindBlankLine(s) # 0
               PROVE  /\ FindBlankLine(s) = Len(h)
                      /\ KeepRest(s, FindBlankLine(s)) \o w = rest
    BY DEF HasHead
  <1>1. PICK f \in Seq(Tokens) : Eol \notin Members(f) /\ h = f \o Blank
    BY DEF IsHead
  <1>2. /\ h \in Seq(Tokens) /\ Len(h) = Len(f) + 2 /\ Len(f) \in Nat
        /\ h[Len(f) + 1] = Eol /\ h[Len(f) + 2] = Eol
        /\ \A i \in 1 .. Len(f) : h[i] = f[i] /\ f[i] # Eol
    <2>1. /\ f \o Blank \in Seq(Tokens) /\ Len(f \o Blank) = Len(f) + Len(Blank)
          /\ Len(f) \in Nat
          /\ \A i \in 1 .. Len(f) : (f \o Blank)[i] = f[i]
          /\ \A i \in 1 .. Len(Blank) : (f \o Blank)[Len(f) + i] = Blank[i]
      <3>1. Blank \in Seq(Tokens)
        BY BlankLine
      <3> QED
        BY <3>1, Joined
    <2>2. 1 \in 1 .. Len(Blank) /\ 2 \in 1 .. Len(Blank)
      BY BlankLine
    <2>3. (f \o Blank)[Len(f) + 1] = Eol /\ (f \o Blank)[Len(f) + 2] = Eol
      BY <2>1, <2>2, BlankLine
    <2>4. \A i \in 1 .. Len(f) : f[i] # Eol
      BY <1>1, IsMember
    <2> QED
      BY <1>1, <2>1, <2>3, <2>4, BlankLine
  <1>3. PICK k : k = Len(f) + 1
    OBVIOUS
  <1>4. /\ Len(s) \in Nat /\ Len(w) \in Nat /\ Len(rest) \in Nat
        /\ \A i \in 1 .. Len(s) : s[i] = (h \o rest)[i]
        /\ \A i \in 1 .. Len(h) : h[i] = (h \o rest)[i]
    <2>1. \A x, y \in Seq(Tokens) :
            Len(x) \in Nat /\ \A i \in 1 .. Len(x) : (x \o y)[i] = x[i]
      BY Joined
    <2> QED
      BY <1>2, <2>1
  <1>5. Len(s) >= k + 1
    <2>1. PICK i \in 1 .. Len(s) - 1 : s[i] = Eol /\ s[i + 1] = Eol
      BY BlankInside
    <2>2. SUFFICES ASSUME Len(s) < k + 1 PROVE FALSE
      BY <1>2, <1>3, <1>4
    <2>3. i \in 1 .. Len(f) /\ i \in 1 .. Len(s) /\ i \in 1 .. Len(h)
      BY <1>2, <1>3, <1>4, <2>2
    <2> QED
      BY <1>2, <1>4, <2>1, <2>3
  <1>6. /\ k \in 1 .. Len(s) - 1 /\ \A i \in 1 .. k + 1 : s[i] = h[i]
    BY <1>2, <1>3, <1>4, <1>5
  <1>7. FindBlankLine(s) = k + 1
    <2>1. s[k] = Eol /\ s[k + 1] = Eol
      <3>1. k \in 1 .. k + 1 /\ k + 1 \in 1 .. k + 1 /\ k + 1 = Len(f) + 2
        BY <1>2, <1>3
      <3> QED
        BY <1>2, <1>3, <1>6, <3>1
    <2>2. \A i \in 1 .. k - 1 : s[i] # Eol
      <3>1. \A i \in 1 .. k - 1 : i \in 1 .. k + 1 /\ i \in 1 .. Len(f)
        BY <1>2, <1>3
      <3> QED
        BY <1>2, <1>6, <3>1
    <2> QED
      BY <1>6, <2>1, <2>2, FirstBlank
  <1>8. k + 1 = Len(h) /\ k + 1 \in Nat /\ k + 1 <= Len(s)
    BY <1>2, <1>3, <1>4, <1>5
  <1>9. PICK n, p, r : n = k + 1 /\ p = SubSeq(s, 1, n) /\ r = SubSeq(s, n + 1, Len(s))
    OBVIOUS
  <1>10. /\ p \in Seq(Tokens) /\ r \in Seq(Tokens) /\ p \o r = s /\ Len(p) = n
         /\ \A i \in 1 .. n : p[i] = s[i]
    <2>1. n \in Nat /\ n <= Len(s)
      BY <1>8, <1>9
    <2>2. p = SubSeq(s, 1, n) /\ r = SubSeq(s, n + 1, Len(s))
      BY <1>9
    <2> QED
      <3>1. CutInto(s, n, p, r)
        BY <2>1, <2>2, Cut, Zenon
      <3> QED
        BY <3>1 DEF CutInto
  <1>11. p = h
    <2>1. Len(p) = Len(h) /\ \A i \in 1 .. Len(p) : p[i] = h[i]
      BY <1>6, <1>8, <1>9, <1>10
    <2> QED
      BY <1>2, <1>10, <2>1, SeqEqual
  <1>12. r \o w = rest
    <2>1. h \o (r \o w) = h \o rest
      <3>0. AreTokens(h, r, w)
        BY <1>2, <1>10 DEF AreTokens
      <3>1. (h \o r) \o w = h \o (r \o w)
        BY <3>0, Three, SMTT(40)
      <3> QED
        BY <1>10, <1>11, <3>1
    <2>2. r \o w \in Seq(Tokens)
      BY <1>10, Joined
    <2> QED
      BY <1>2, <2>1, <2>2, SameRest
  <1> QED
    BY <1>7, <1>8, <1>9, <1>12 DEF KeepRest

-----------------------------------------------------------------------------
(* What the peers send.                                                    *)

(* The kinds of openings, what may go wrong with each, and the constants.  *)
LEMMA TheCase ==
    ASSUME case \in Cases, key \in Keys
    PROVE  /\ case.kind \in {"ws", "http", "beep"} /\ case.port \in {"ws", "shared", "http"}
           /\ case.fault \in Faults /\ case.early \in BOOLEAN
           /\ case.kind = "beep" => case.fault = "none"
           /\ case.fault \in {"nokey", "version", "wrongkey"} => case.kind = "ws"
           /\ case.fault = "post" => case.port # "http"
           /\ case.fault = "proxy" => case.port = "http"
           /\ case.fault = "wrongkey" => \E o \in Keys : o # key
  <1>1. case.fault = "wrongkey" => Keys # {key}
    BY OpeningAssumption
  <1> QED
    BY <1>1, OpeningAssumption

(* Limits are positive.                                                    *)
LEMMA Limits ==
    /\ MaxHead \in Nat \ {0} /\ Chunk \in Nat \ {0} /\ Want \in Nat \ {0}
    /\ Want <= MaxHead
  BY OpeningAssumption

(* A first line, fields and a blank line.                                  *)
LEMMA HeadOf ==
    ASSUME NEW a \in Tokens, NEW x \in Seq(Tokens)
    PROVE  LET h == <<a>> \o x \o Blank
           IN  /\ h \in Seq(Tokens) /\ h # << >> /\ h[1] = a
               /\ Members(h) = {a} \cup Members(x) \cup {Eol}
               /\ a # Eol /\ Eol \notin Members(x) => IsHead(h)
  <1>0. \A s, t \in Seq(Tokens) :
          /\ s \o t \in Seq(Tokens) /\ Members(s \o t) = Members(s) \cup Members(t)
          /\ s # << >> => s \o t # << >> /\ (s \o t)[1] = s[1]
    BY Joined
  <1>1. PICK l : l = <<a>>
    OBVIOUS
  <1>2. l \in Seq(Tokens) /\ l # << >> /\ l[1] = a /\ Members(l) = {a}
    BY <1>1, Tuples
  <1>3. PICK f : f = l \o x
    OBVIOUS
  <1>4. f \in Seq(Tokens) /\ f # << >> /\ f[1] = a /\ Members(f) = {a} \cup Members(x)
    BY <1>0, <1>2, <1>3
  <1>5. PICK h : h = f \o Blank
    OBVIOUS
  <1>6. /\ h \in Seq(Tokens) /\ h # << >> /\ h[1] = a
        /\ Members(h) = {a} \cup Members(x) \cup {Eol}
    BY <1>0, <1>4, <1>5, BlankLine
  <1>7. a # Eol /\ Eol \notin Members(x) => IsHead(h)
    BY <1>4, <1>5 DEF IsHead
  <1>8. h = <<a>> \o x \o Blank
    BY <1>1, <1>3, <1>5
  <1> QED
    BY <1>6, <1>7, <1>8

(* What a server that settles on an upgrade answers.                       *)
LEMMA Responses ==
    ASSUME case \in Cases, key \in Keys
    PROVE  /\ Response(key) \in Seq(Tokens) /\ IsHead(Response(key))
           /\ Status("101") \in Members(Response(key)) => case.fault # "status"
           /\ AcceptKey(key) \in Members(Response(key)) =>
                case.port # "http" /\ case.fault # "wrongkey"
           /\ Tok("upgrade", "beep") \in Members(Response(key)) =>
                case.port = "http" /\ case.fault # "proxy"
           /\ case.port = "http" => Response("") = Response(key)
  <1>1. PICK a : a = Status(IF case.fault = "status" THEN "200" ELSE "101")
    OBVIOUS
  <1>2. /\ a \in Tokens /\ a # Eol /\ a.t = "HTTP"
        /\ a = Status("101") => case.fault # "status"
    <2>1. a \in Tokens
      BY <1>1, TheTokens
    <2> QED
      BY <1>1, <2>1 DEF Status, Tok, Eol
  <1>3. CASE case.port = "http"
    <2>1. PICK b, c : /\ b = Tok("connection", "upgrade")
                      /\ c = Tok("upgrade", IF case.fault = "proxy" THEN "websocket" ELSE "beep")
      OBVIOUS
    <2>2. b \in Tokens /\ c \in Tokens
      BY <2>1, TheTokens
    <2>3. PICK x : x = <<b, c>>
      OBVIOUS
    <2>4. x \in Seq(Tokens) /\ Members(x) = {b, c}
      BY <2>2, <2>3, Tuples
    <2>5. b # Eol /\ c # Eol /\ b.t = "connection" /\ c.t = "upgrade"
          /\ (c = Tok("upgrade", "beep") => case.fault # "proxy")
      BY <2>1 DEF Tok, Eol
    <2>6. Response(key) = <<a>> \o x \o Blank /\ Response("") = <<a>> \o x \o Blank
      BY <1>1, <1>3, <2>1, <2>3 DEF Response
    <2>7. /\ Response(key) \in Seq(Tokens) /\ IsHead(Response(key))
          /\ Members(Response(key)) = {a} \cup {b, c} \cup {Eol}
      <3>1. LET h == <<a>> \o x \o Blank
            IN  /\ h \in Seq(Tokens) /\ IsHead(h)
                /\ Members(h) = {a} \cup {b, c} \cup {Eol}
        BY <1>2, <2>4, <2>5, HeadOf
      <3> QED
        BY <2>6, <3>1
    <2>8. AcceptKey(key) \notin Members(Response(key))
      BY <1>2, <2>5, <2>7, Parts
    <2>9. Status("101") \in Members(Response(key)) => case.fault # "status"
      BY <1>2, <2>5, <2>7, Parts
    <2>10. Tok("upgrade", "beep") \in Members(Response(key)) => case.fault # "proxy"
      BY <1>2, <2>5, <2>7, Parts
    <2> QED
      BY <1>3, <2>6, <2>7, <2>8, <2>9, <2>10
  <1>4. CASE case.port # "http"
    <2>1. PICK o : o = IF case.fault = "wrongkey" THEN CHOOSE q \in Keys : q # key ELSE key
      OBVIOUS
    <2>2. o \in Keys /\ (o = key => case.fault # "wrongkey")
      BY <2>1, TheCase
    <2>3. PICK b, c : b = Tok("upgrade", "websocket") /\ c = AcceptKey(o)
      OBVIOUS
    <2>4. b \in Tokens /\ c \in Tokens
      BY <2>2, <2>3, TheTokens
    <2>5. PICK x : x = <<b, c>>
      OBVIOUS
    <2>6. x \in Seq(Tokens) /\ Members(x) = {b, c}
      BY <2>4, <2>5, Tuples
    <2>7. b # Eol /\ c # Eol /\ b.t = "upgrade" /\ c.t = "accept" /\ c.v = o
          /\ b # Tok("upgrade", "beep")
      BY <2>3 DEF Tok, Eol, AcceptKey
    <2>8. Response(key) = <<a>> \o x \o Blank
      BY <1>1, <1>4, <2>1, <2>3, <2>5 DEF Response
    <2>9. /\ Response(key) \in Seq(Tokens) /\ IsHead(Response(key))
          /\ Members(Response(key)) = {a} \cup {b, c} \cup {Eol}
      BY <1>2, <2>6, <2>7, <2>8, HeadOf
    <2>10. AcceptKey(key) \in Members(Response(key)) => case.fault # "wrongkey"
      BY <1>2, <2>2, <2>7, <2>9, Parts
    <2>11. Status("101") \in Members(Response(key)) => case.fault # "status"
      BY <1>2, <2>7, <2>9, Parts
    <2>12. Tok("upgrade", "beep") \notin Members(Response(key))
      BY <1>2, <2>7, <2>9, Parts
    <2> QED
      BY <1>4, <2>9, <2>10, <2>11, <2>12
  <1> QED
    BY <1>3, <1>4

(* What a server that refuses answers.                                     *)
LEMMA Refusals ==
    /\ Refusal \in Seq(Tokens) /\ Refusal # << >> /\ Refusal[1] = Status("400")
    /\ Members(Refusal) = {Status("400"), Eol}
  <1>1. PICK a : a = Status("400")
    OBVIOUS
  <1>2. a \in Tokens /\ Eol \in Tokens
    BY <1>1, TheTokens
  <1>3. <<a, Eol, Eol>> \in Seq(Tokens) /\ Members(<<a, Eol, Eol>>) = {a, Eol, Eol}
    BY <1>2, Tuples
  <1>4. Refusal = <<a, Eol, Eol>>
    BY <1>1 DEF Refusal
  <1> QED
    BY <1>1, <1>3, <1>4

(* What the request of a client may hold.                                  *)
RequestHolds(x) ==
    /\ x = Tok("upgrade", "websocket") =>
         case.kind = "ws" /\ case.fault \notin {"endless", "quits", "half"}
    /\ x = Tok("upgrade", "beep") =>
         case.kind = "http" /\ case.fault \notin {"endless", "quits", "half"}
    /\ x.t = "key" => x = Tok("key", key) /\ case.fault # "nokey"
    /\ x = Tok("version", "13") => case.fault # "version"
    /\ x.t = "GET" => case.fault # "post"

(* What the pieces of a request hold.                                      *)
LEMMA Pieces ==
    /\ RequestHolds(RequestLine) /\ RequestHolds(Rest)
    /\ RequestHolds(Eol) /\ RequestHolds(Tok("host", ""))
    /\ RequestHolds(Tok("connection", "upgrade"))
    /\ case.kind = "ws" /\ case.fault \notin {"endless", "quits", "half"} =>
         RequestHolds(Tok("upgrade", "websocket"))
    /\ case.kind = "http" /\ case.fault \notin {"endless", "quits", "half"} =>
         RequestHolds(Tok("upgrade", "beep"))
    /\ RequestHolds(Tok("version", IF case.fault = "version" THEN "8" ELSE "13"))
    /\ case.fault # "nokey" => RequestHolds(Tok("key", key))
    /\ RequestLine # Eol /\ Rest # Eol
    /\ Tok("connection", "upgrade") # Eol /\ \A v : Tok("upgrade", v) # Eol
    /\ \A v : Tok("version", v) # Eol /\ Tok("key", v) # Eol
  BY DEF RequestHolds, RequestLine, Rest, Eol, Tok

(* The fields of a WebSocket request.                                      *)
LEMMA WsRequest ==
    ASSUME key \in Keys, case.kind = "ws", case.fault \notin {"endless", "quits", "half"}
    PROVE  /\ WsFields(key) \in Seq(Tokens) /\ Eol \notin Members(WsFields(key))
           /\ \A x \in Members(WsFields(key)) : RequestHolds(x)
  <1>1. PICK a, b, c : /\ a = Tok("upgrade", "websocket") /\ b = Tok("connection", "upgrade")
                       /\ c = Tok("version", IF case.fault = "version" THEN "8" ELSE "13")
    OBVIOUS
  <1>2. /\ a \in Tokens /\ b \in Tokens /\ c \in Tokens /\ a # Eol /\ b # Eol /\ c # Eol
        /\ RequestHolds(a) /\ RequestHolds(b) /\ RequestHolds(c)
        /\ Rest \in Tokens /\ Rest # Eol /\ RequestHolds(Rest)
    BY <1>1, TheTokens, Pieces
  <1>3. PICK s : s = <<Rest, a, b, c>>
    OBVIOUS
  <1>4. s \in Seq(Tokens) /\ Members(s) = {Rest, a, b, c}
    BY <1>2, <1>3, Tuples
  <1>5. PICK t : t = IF case.fault = "nokey" THEN << >> ELSE <<Tok("key", key)>>
    OBVIOUS
  <1>6. /\ t \in Seq(Tokens) /\ Eol \notin Members(t)
        /\ \A x \in Members(t) : RequestHolds(x)
    <2>1. CASE case.fault = "nokey"
      BY <1>5, <2>1, NoMember
    <2>2. CASE case.fault # "nokey"
      <3>1. PICK k : k = Tok("key", key)
        OBVIOUS
      <3>2. k \in Tokens /\ k # Eol /\ RequestHolds(k)
        BY <2>2, <3>1, TheTokens, Pieces
      <3>3. t = <<k>>
        BY <1>5, <2>2, <3>1
      <3>4. t \in Seq(Tokens) /\ Members(t) = {k}
        BY <3>2, <3>3, Tuples
      <3> QED
        BY <3>2, <3>4
    <2> QED
      BY <2>1, <2>2
  <1>7. s \o t \in Seq(Tokens) /\ Members(s \o t) = Members(s) \cup Members(t)
    BY <1>4, <1>6, Joined
  <1>8. WsFields(key) = s \o t
    BY <1>1, <1>3, <1>5 DEF WsFields
  <1> QED
    BY <1>2, <1>4, <1>6, <1>7, <1>8

(* The fields of a request for the tunnel.                                 *)
LEMMA HttpRequest ==
    ASSUME case.kind = "http", case.fault \notin {"endless", "quits", "half"}
    PROVE  /\ HttpFields \in Seq(Tokens) /\ Eol \notin Members(HttpFields)
           /\ \A x \in Members(HttpFields) : RequestHolds(x)
  <1>1. PICK a, b : a = Tok("connection", "upgrade") /\ b = Tok("upgrade", "beep")
    OBVIOUS
  <1>2. /\ a \in Tokens /\ b \in Tokens /\ a # Eol /\ b # Eol
        /\ RequestHolds(a) /\ RequestHolds(b)
        /\ Rest \in Tokens /\ Rest # Eol /\ RequestHolds(Rest)
    BY <1>1, TheTokens, Pieces
  <1>3. HttpFields = <<Rest, a, b>>
    BY <1>1 DEF HttpFields
  <1>4. HttpFields \in Seq(Tokens) /\ Members(HttpFields) = {Rest, a, b}
    BY <1>2, <1>3, Tuples
  <1> QED
    BY <1>2, <1>4

(* What a client sends first.                                              *)
LEMMA Requests ==
    ASSUME case \in Cases, key \in Keys
    PROVE  /\ Request(key) \in Seq(Tokens)
           /\ \A x \in Members(Request(key)) : RequestHolds(x)
           /\ case.kind = "beep" => Request(key) = << >>
           /\ case.kind # "beep" => Request(key) # << >> /\ Request(key)[1] = RequestLine
           /\ case.kind # "beep" /\ case.fault \notin {"endless", "quits", "half"} =>
                IsHead(Request(key))
  <1>0. /\ RequestLine \in Tokens /\ RequestLine # Eol /\ RequestHolds(RequestLine)
        /\ Rest \in Tokens /\ RequestHolds(Rest)
    BY TheTokens, Pieces
  <1>1. CASE case.kind = "beep"
    BY <1>1, NoMember DEF Request
  <1>2. CASE case.kind # "beep" /\ case.fault = "endless"
    <2>1. PICK t : t = [i \in 1 .. MaxHead + Chunk + 2 |-> Tok("host", "")]
      OBVIOUS
    <2>2. PICK n, h : n = MaxHead + Chunk + 2 /\ h = Tok("host", "")
      OBVIOUS
    <2>3. n \in Nat /\ h \in Tokens /\ t = [i \in 1 .. n |-> h] /\ RequestHolds(h)
      <3>1. n \in Nat
        <4>1. MaxHead \in Nat /\ Chunk \in Nat
          BY Limits
        <4>2. n = MaxHead + Chunk + 2
          BY <2>2
        <4> QED
          BY <4>1, <4>2
      <3>2. h \in Tokens /\ RequestHolds(h)
        BY <2>2, TheTokens, Pieces
      <3>3. t = [i \in 1 .. n |-> h]
        BY <2>1, <2>2
      <3> QED
        BY <3>1, <3>2, <3>3
    <2>4. t \in Seq(Tokens) /\ Len(t) = n /\ \A i \in 1 .. n : t[i] = h
      BY <2>3
    <2>5. Members(t) \subseteq {h}
      BY <2>4 DEF Members
    <2>6. PICK l : l = <<RequestLine, Rest>>
      OBVIOUS
    <2>7. /\ l \in Seq(Tokens) /\ l # << >> /\ l[1] = RequestLine
          /\ Members(l) = {RequestLine, Rest}
      BY <1>0, <2>6, Tuples
    <2>8. /\ l \o t \in Seq(Tokens) /\ Members(l \o t) = Members(l) \cup Members(t)
          /\ l \o t # << >> /\ (l \o t)[1] = l[1]
      BY <2>4, <2>7, Joined
    <2>9. Request(key) = l \o t
      BY <1>2, <2>1, <2>6 DEF Request
    <2> QED
      BY <1>0, <1>2, <2>3, <2>5, <2>7, <2>8, <2>9
  <1>3. CASE case.kind # "beep" /\ case.fault = "quits"
    <2>1. PICK a : a = RequestLine
      OBVIOUS
    <2>2. a \in Tokens /\ Rest \in Tokens /\ Eol \in Tokens
      BY <2>1, TheTokens
    <2>3. <<a, Rest, Eol>> \in Seq(Tokens) /\ Members(<<a, Rest, Eol>>) = {a, Rest, Eol}
      BY <2>2, Tuples
    <2>4. Request(key) = <<a, Rest, Eol>>
      BY <1>3, <2>1 DEF Request
    <2> QED
      <3>1. Request(key) # << >> /\ Request(key)[1] = a
        BY <2>4
      <3>2. RequestHolds(a) /\ RequestHolds(Rest) /\ RequestHolds(Eol)
        BY <2>1, Pieces
      <3> QED
        BY <1>3, <2>1, <2>3, <2>4, <3>1, <3>2
  <1>5. CASE case.kind # "beep" /\ case.fault = "half"
    <2>1. PICK a : a = RequestLine
      OBVIOUS
    <2>2. <<a>> \in Seq(Tokens) /\ Members(<<a>>) = {a}
      BY <1>0, <2>1, Tuples
    <2>3. Request(key) = <<a>>
      BY <1>5, <2>1 DEF Request
    <2>4. Request(key) # << >> /\ Request(key)[1] = a
      BY <2>3
    <2> QED
      BY <1>0, <1>5, <2>1, <2>2, <2>3, <2>4
  <1>4. CASE case.kind # "beep" /\ case.fault \notin {"endless", "quits", "half"}
    <2>1. PICK x : x = IF case.kind = "ws" THEN WsFields(key) ELSE HttpFields
      OBVIOUS
    <2>2. x \in Seq(Tokens) /\ Eol \notin Members(x) /\ \A y \in Members(x) : RequestHolds(y)
      BY <1>4, <2>1, TheCase, WsRequest, HttpRequest
    <2>3. LET h == <<RequestLine>> \o x \o Blank
          IN  /\ h \in Seq(Tokens) /\ h # << >> /\ h[1] = RequestLine
              /\ Members(h) = {RequestLine} \cup Members(x) \cup {Eol}
              /\ IsHead(h)
      BY <1>0, <2>2, HeadOf
    <2>4. Request(key) = <<RequestLine>> \o x \o Blank
      BY <1>4, <2>1 DEF Request
    <2> QED
      BY <1>0, <1>4, <2>2, <2>3, <2>4, Pieces
  <1> QED
    BY <1>1, <1>2, <1>3, <1>4, <1>5

-----------------------------------------------------------------------------
(* What the two parsers can conclude.                                      *)

(* All that reaches a server comes from the client.                        *)
LEMMA TokenFromClient ==
    ASSUME case \in Cases, key \in Keys
    PROVE  \A x \in FromClient : RequestHolds(x)
  <1>1. \A x \in Members(Request(key)) : RequestHolds(x)
    BY Requests
  <1>2. ASSUME NEW x \in Members(Greeting("client")) PROVE RequestHolds(x)
    <2>1. x \in {Tok("RPY", "client"), Eol, Tok("END", "client")}
      BY Greetings, TwoEnds
    <2>2. x.t \in {"RPY", "eol", "END"}
      BY <2>1, Parts
    <2>3. \A v : x # Tok("upgrade", v) /\ x # Tok("version", v)
      BY <2>2, Parts
    <2> QED
      BY <2>2, <2>3 DEF RequestHolds
  <1> QED
    BY <1>1, <1>2 DEF FromClient

(* A field of a head is one of its tokens.                                 *)
LEMMA HasMember ==
    ASSUME NEW head \in Seq(Tokens)
    PROVE  /\ \A t, v : Has(head, t, v) => Tok(t, v) \in Members(head)
           /\ \A i \in 2 .. Len(head) : head[i] \in Members(head)
           /\ head # << >> => head[1] \in Members(head)
  <1>1. Len(head) \in Nat /\ (head # << >> => Len(head) \in Nat \ {0})
    BY EmptySeq, LenProperties
  <1>2. \A i \in 1 .. Len(head) : head[i] \in Members(head)
    BY IsMember
  <1>3. \A i \in 2 .. Len(head) : head[i] \in Members(head)
    BY <1>1, <1>2
  <1>4. head # << >> => head[1] \in Members(head)
    <2>1. head # << >> => 1 \in 1 .. Len(head)
      BY <1>1
    <2> QED
      BY <1>2, <2>1
  <1>5. \A t, v : Has(head, t, v) => Tok(t, v) \in Members(head)
    BY <1>3 DEF Has
  <1> QED
    BY <1>3, <1>4, <1>5

(* What parse_request accepts is the request of a client that opens a      *)
(* WebSocket, with its key.                                                *)
LEMMA ParsedMeans ==
    ASSUME case \in Cases, key \in Keys, NEW head \in Seq(Tokens), head # << >>,
           Members(head) \subseteq FromClient, ParseRequest(head)
    PROVE  /\ case.kind = "ws"
           /\ case.fault \notin {"endless", "quits", "half", "nokey", "version", "post"}
           /\ KeyIn(head) = key
  <1>1. \A x \in Members(head) : RequestHolds(x)
    BY TokenFromClient
  <1>2. /\ Tok("upgrade", "websocket") \in Members(head) /\ Tok("version", "13") \in Members(head)
        /\ head[1] \in Members(head)
    BY HasMember DEF ParseRequest
  <1>3. case.kind = "ws" /\ case.fault \notin {"endless", "quits", "half"}
    BY <1>1, <1>2 DEF RequestHolds
  <1>4. case.fault # "version"
    BY <1>1, <1>2 DEF RequestHolds
  <1>5. case.fault # "post"
    BY <1>1, <1>2 DEF RequestHolds, ParseRequest
  <1>6. PICK k : k = CHOOSE i \in 2 .. Len(head) : head[i].t = "key"
    OBVIOUS
  <1>7. k \in 2 .. Len(head) /\ head[k].t = "key"
    BY <1>6 DEF ParseRequest
  <1>8. head[k] = Tok("key", key) /\ case.fault # "nokey"
    BY <1>1, <1>7, HasMember DEF RequestHolds
  <1>9. KeyIn(head) = head[k].v
    BY <1>6 DEF KeyIn
  <1> QED
    BY <1>3, <1>4, <1>5, <1>8, <1>9, Parts

(* What is_beep_upgrade accepts is the request of a client of the tunnel.  *)
LEMMA UpgradeMeans ==
    ASSUME case \in Cases, key \in Keys, NEW head \in Seq(Tokens),
           Members(head) \subseteq FromClient, IsBeepUpgrade(head)
    PROVE  case.kind = "http" /\ case.fault \notin {"endless", "quits", "half"}
  <1>1. \A x \in Members(head) : RequestHolds(x)
    BY TokenFromClient
  <1>2. Tok("upgrade", "beep") \in Members(head)
    BY HasMember DEF IsBeepUpgrade
  <1> QED
    BY <1>1, <1>2 DEF RequestHolds

(* What a client agrees with is the answer of a server that settled on the *)
(* protocol of the client, to a client with no fault.                      *)
LEMMA AgreedMeans ==
    ASSUME case \in Cases, key \in Keys, NEW head \in Seq(Tokens), head # << >>,
           Members(head) \subseteq FromServer, Meant, case.kind # "beep", Agreed(head)
    PROVE  case.fault = "none" /\ runs["server"] = case.kind
  <1> DEFINE settled == runs["server"] \in {"ws", "http"}
  <1>0. Status("101") \in Members(head) /\ head[1] \in Members(head)
    BY HasMember DEF Agreed, ParseResponse, SwitchingProtocols
  <1>1. ASSUME NEW x \in Members(head), ~settled
        PROVE  x # Status("101")
    <2>1. x \in Members(Greeting("server")) \cup Members(Refusal)
      BY <1>1 DEF FromServer
    <2>2. x \in {Tok("RPY", "server"), Eol, Tok("END", "server"), Status("400")}
      BY <2>1, Greetings, Refusals, TwoEnds
    <2> QED
      BY <2>2, Parts
  <1>2. settled
    BY <1>0, <1>1
  <1>3. ASSUME NEW x \in Members(head), x.t \in {"HTTP", "accept", "upgrade"}
        PROVE  x \in Members(Response(key))
    <2>1. x \in Members(Greeting("server")) \cup Members(Response(key))
      BY <1>2 DEF FromServer
    <2>2. x \in Members(Greeting("server")) =>
            x \in {Tok("RPY", "server"), Eol, Tok("END", "server")}
      BY Greetings, TwoEnds
    <2> QED
      BY <1>3, <2>1, <2>2, Parts
  <1>4. case.fault # "status"
    BY <1>0, <1>3, Parts, Responses
  <1>5. CASE case.kind = "ws"
    <2>1. AcceptKey(key) \in Members(head)
      BY <1>5, HasMember DEF Agreed, ParseResponse
    <2>2. case.fault # "wrongkey"
      BY <1>3, <2>1, Parts, Responses
    <2> QED
      BY <1>2, <1>4, <1>5, <2>2 DEF Meant
  <1>6. CASE case.kind = "http"
    <2>1. Tok("upgrade", "beep") \in Members(head)
      BY <1>6, HasMember DEF Agreed, SwitchingProtocols
    <2>2. Tok("upgrade", "beep") \in Members(Response(key))
      BY <1>3, <2>1, Parts
    <2>3. case.fault # "proxy"
      BY <2>2, Responses
    <2> QED
      BY <1>2, <1>4, <1>6, <2>3 DEF Meant
  <1> QED
    BY <1>5, <1>6, TheCase

-----------------------------------------------------------------------------
(* Steps.                                                                  *)

(* What the type invariant says of one end.                                *)
LEMMA Types ==
    ASSUME TypeOK
    PROVE  /\ case \in Cases /\ key \in Keys
           /\ \A e \in Ends : /\ buf[e] \in Seq(Tokens) /\ wire[e] \in Seq(Tokens)
                              /\ got[e] \in Seq(Tokens) /\ said[e] \in Seq(Tokens)
                              /\ Len(buf[e]) \in Nat /\ Len(wire[e]) \in Nat
           /\ buf \in [Ends -> Seq(Tokens)] /\ wire \in [Ends -> Seq(Tokens)]
           /\ got \in [Ends -> Seq(Tokens)] /\ said \in [Ends -> Seq(Tokens)]
           /\ phase \in [Ends -> {"start", "peek", "head", "greet", "open", "failed"}]
           /\ closed \in [Ends -> BOOLEAN]
           /\ runs \in [Ends -> {"none", "ws", "http", "beep"}]
  <1>1. /\ buf \in [Ends -> Seq(Tokens)] /\ wire \in [Ends -> Seq(Tokens)]
        /\ got \in [Ends -> Seq(Tokens)] /\ said \in [Ends -> Seq(Tokens)]
    BY DEF TypeOK
  <1>2. \A e \in Ends : /\ buf[e] \in Seq(Tokens) /\ wire[e] \in Seq(Tokens)
                        /\ got[e] \in Seq(Tokens) /\ said[e] \in Seq(Tokens)
    BY <1>1
  <1>3. \A e \in Ends : Len(buf[e]) \in Nat /\ Len(wire[e]) \in Nat
    BY <1>2, LenProperties
  <1> QED
    BY <1>1, <1>2, <1>3 DEF TypeOK

(* Messages depend on the opening alone.                                   *)
LEMMA SameMessages ==
    ASSUME case' = case, key' = key
    PROVE  /\ Request(key)' = Request(key) /\ Response(key)' = Response(key)
           /\ FromClient' = FromClient /\ (Speaks <=> Speaks')
           /\ (runs["server"] \in {"ws", "http"} <=> runs'["server"] \in {"ws", "http"}) =>
                FromServer' = FromServer
  <1>1. Request(key)' = Request(key)
    BY DEF Request, WsFields, HttpFields, RequestLine
  <1>2. Response(key)' = Response(key)
    BY DEF Response
  <1>3. FromClient' = FromClient
    BY <1>1 DEF FromClient
  <1>4. Speaks <=> Speaks'
    BY DEF Speaks
  <1>5. (runs["server"] \in {"ws", "http"} <=> runs'["server"] \in {"ws", "http"}) =>
           FromServer' = FromServer
    BY <1>2 DEF FromServer
  <1> QED
    BY <1>1, <1>2, <1>3, <1>4, <1>5

(* A read takes octets off the transport and keeps them.                   *)
LEMMA ReadInv ==
    ASSUME OpeningInv, NEW e \in Ends, NEW n \in 1 .. Chunk, n <= Len(wire[e]), Read(e, n)
    PROVE  OpeningInv'
  <1> USE DEF OpeningInv
  <1>0. e = "client" \/ e = "server"
    BY TwoEnds
  <1>1. PICK p, r : p = SubSeq(wire[e], 1, n) /\ r = SubSeq(wire[e], n + 1, Len(wire[e]))
    OBVIOUS
  <1>2. n \in Nat /\ n >= 1 /\ n <= Chunk
    BY Limits
  <1>3. /\ p \in Seq(Tokens) /\ r \in Seq(Tokens) /\ p \o r = wire[e] /\ Len(p) = n
        /\ Members(p) \subseteq Members(wire[e]) /\ Members(r) \subseteq Members(wire[e])
    <2>1. wire[e] \in Seq(Tokens)
      BY Types
    <2>2. CutInto(wire[e], n, p, r)
      BY <1>1, <1>2, <2>1, Cut, Zenon
    <2> QED
      BY <2>2 DEF CutInto
  <1>4. /\ buf' = [buf EXCEPT ![e] = buf[e] \o p] /\ wire' = [wire EXCEPT ![e] = r]
        /\ case' = case /\ key' = key /\ phase' = phase /\ closed' = closed
        /\ runs' = runs /\ got' = got /\ said' = said
    BY <1>1 DEF Read
  <1>5. /\ buf'[e] = buf[e] \o p /\ wire'[e] = r
        /\ \A x \in Ends \ {e} : buf'[x] = buf[x] /\ wire'[x] = wire[x]
    BY <1>4, Types
  <1>6. /\ buf[e] \o p \in Seq(Tokens) /\ Len(buf[e] \o p) = Len(buf[e]) + n
        /\ Members(buf[e] \o p) = Members(buf[e]) \cup Members(p)
    BY <1>3, Types, Joined
  <1>7. wire[e] # << >>
    <2>1. wire[e] = << >> => Len(wire[e]) = 0
      OBVIOUS
    <2> QED
      BY <1>2, <2>1
  <1>8. Before(e) /\ phase[e] \in {"peek", "head"}
    BY <1>4 DEF Read, ReadMore, Before
  <1>9. phase["client"] # "start" /\ (e = "client" => ~Before("server"))
    BY <1>0, <1>7, <1>8 DEF Placed
  <1>10. e = "client" => case.kind # "beep" /\ ~Quits
    BY <1>7, <1>8, <1>9 DEF Placed
  <1>11. TypeOK'
    <2>1. Len(buf[e]) + n <= MaxHead + Chunk
      <3>1. Len(buf[e]) <= MaxHead
        BY Types, Limits, <1>4 DEF Read, ReadMore
      <3> QED
        BY <1>2, <3>1, Types, Limits
    <2>2. \A x \in Ends : Len(buf'[x]) <= MaxHead + Chunk
      BY <1>5, <1>6, <2>1 DEF TypeOK
    <2>3. buf' \in [Ends -> Seq(Tokens)] /\ wire' \in [Ends -> Seq(Tokens)]
      BY <1>3, <1>4, <1>6, Types
    <2> QED
      BY <1>4, <2>2, <2>3, Types DEF TypeOK
  <1>12. Placed'
    BY <1>0, <1>4, <1>5, <1>8, <1>9, <1>10, TwoEnds DEF Quits, Placed, Before, Greeting
  <1>13. Sound'
    <2>1. \A x \in Ends : Coming(x)' \subseteq Coming(x)
      BY <1>3, <1>5, <1>6 DEF Coming
    <2>2. FromClient' = FromClient /\ FromServer' = FromServer
      BY <1>4, SameMessages
    <2> QED
      BY <2>1, <2>2, TwoEnds DEF Sound
  <1>14. Meant'
    BY <1>0, <1>4, <1>5, <1>8, <1>10, TwoEnds, ZenonT(60) DEF Quits, RequestLine, Meant, Placed, Before
  <1>15. OpensOnlyIfMeant'
    BY <1>4 DEF OpensOnlyIfMeant, Speaks
  <1>16. ASSUME NEW x \in Ends PROVE Carried(x)'
    <2>1. got'[x] \o buf'[x] \o wire'[x] = got[x] \o buf[x] \o wire[x]
      <3>1. CASE x # e
        BY <1>4, <1>5, <3>1
      <3>2. CASE x = e
        <4>1. PICK g, b : g = got[e] /\ b = buf[e]
          OBVIOUS
        <4>2. g \in Seq(Tokens) /\ b \in Seq(Tokens) /\ g \o b \in Seq(Tokens)
          BY <4>1, Types, Joined
        <4>3. (g \o b) \o p = g \o (b \o p)
          <5>1. AreTokens(g, b, p)
            BY <1>3, <4>2 DEF AreTokens
          <5> QED
            BY <5>1, Three, SMTT(40)
        <4>4. ((g \o b) \o p) \o r = (g \o b) \o (p \o r)
          <5>1. AreTokens(g \o b, p, r)
            BY <1>3, <4>2 DEF AreTokens
          <5> QED
            BY <5>1, Three, SMTT(40)
        <4> QED
          BY <1>3, <1>4, <1>5, <3>2, <4>1, <4>3, <4>4
      <3> QED
        BY <3>1, <3>2
    <2>2. HeadTo(x)' = HeadTo(x) /\ (Follows(x)' <=> Follows(x)) /\ (Before(x)' <=> Before(x))
      BY <1>4, SameMessages DEF Quits, HeadTo, Follows, Before
    <2> QED
      BY <1>4, <2>1, <2>2 DEF Carried
  <1> QED
    BY <1>11, <1>12, <1>13, <1>14, <1>15, <1>16

(* An end gives up.                                                        *)
LEMMA FailInv ==
    ASSUME OpeningInv, NEW e \in Ends, Fail(e), phase[e] \in {"head", "open"},
           phase["client"] # "start"
    PROVE  OpeningInv'
  <1> USE DEF OpeningInv
  <1>0. e = "client" \/ e = "server"
    BY TwoEnds
  <1>1. /\ case' = case /\ key' = key /\ wire' = wire /\ buf' = buf
        /\ runs' = runs /\ got' = got /\ said' = said
        /\ phase' = [phase EXCEPT ![e] = "failed"] /\ closed' = [closed EXCEPT ![e] = TRUE]
    BY DEF Fail
  <1>2. /\ phase'[e] = "failed" /\ closed'[e] = TRUE
        /\ \A x \in Ends \ {e} : phase'[x] = phase[x] /\ closed'[x] = closed[x]
    BY <1>1, Types
  <1>3. TypeOK'
    BY <1>1, Types DEF TypeOK
  <1>4. Placed'
    BY <1>0, <1>1, <1>2, TwoEnds DEF Quits, Placed, Before, Greeting
  <1>5. Sound'
    <2>1. FromClient' = FromClient /\ FromServer' = FromServer
      BY <1>1, SameMessages
    <2> QED
      BY <1>1, <2>1 DEF Sound, Coming
  <1>6. Meant'
    BY <1>0, <1>1, <1>2, TwoEnds DEF Quits, RequestLine, Meant
  <1>7. OpensOnlyIfMeant'
    BY <1>1 DEF OpensOnlyIfMeant, Speaks
  <1>8. ASSUME NEW x \in Ends PROVE Carried(x)'
    <2>1. CASE x = e
      BY <1>2, <2>1 DEF Carried, Follows
    <2>2. CASE x # e
      <3>1. HeadTo(x)' = HeadTo(x) /\ (Before(x)' <=> Before(x))
        <4>1. Before(x)' <=> Before(x)
          BY <1>2, <2>2 DEF Before
        <4>2. (phase'["client"] = "start") <=> (phase["client"] = "start")
          BY <1>0, <1>2, TwoEnds
        <4>3. HeadTo(x)' = HeadTo(x)
          BY <1>1, <4>2, SameMessages DEF HeadTo
        <4> QED
          BY <4>1, <4>3
      <3>2. Follows(x)' => Follows(x)
        <4>1. ~closed'["server"] => ~closed["server"]
          BY <1>0, <1>2, TwoEnds
        <4> QED
          BY <1>1, <1>2, <2>2, <3>1, <4>1 DEF Quits, Follows
      <3> QED
        BY <1>1, <3>1, <3>2 DEF Carried
    <2> QED
      BY <2>1, <2>2
  <1> QED
    BY <1>3, <1>4, <1>5, <1>6, <1>7, <1>8

(* Until the client has started there is nothing to give up.               *)
LEMMA NotStarted ==
    ASSUME OpeningInv, phase["client"] = "start"
    PROVE  /\ Before("server") /\ buf["server"] = << >> /\ wire["server"] = << >>
           /\ Len(buf["server"]) = 0 /\ ~closed["client"] /\ ~Ended("server")
  <1>1. /\ Before("server") /\ buf["server"] = << >> /\ wire["server"] = << >>
        /\ ~closed["client"]
    BY TwoEnds DEF OpeningInv, Placed
  <1>2. Len(buf["server"]) = 0
    BY <1>1
  <1> QED
    BY <1>1, <1>2, TwoEnds DEF Ended

(* Every end that gives up does so with its head or in its session.        *)
LEMMA FailsInv ==
    ASSUME OpeningInv,
           \/ \E e \in Ends : HeadFails(e) \/ SessionEnds(e)
           \/ AcceptFails \/ ConnectFails
    PROVE  OpeningInv'
  <1>1. ASSUME NEW e \in Ends, HeadFails(e) PROVE OpeningInv'
    <2>1. phase[e] = "head" /\ Fail(e) /\ (Len(buf[e]) > MaxHead \/ Ended(e))
      BY <1>1 DEF HeadFails
    <2>2. phase["client"] # "start"
      <3>1. e = "client" \/ e = "server"
        BY TwoEnds
      <3> QED
        BY <2>1, <3>1, NotStarted, Limits
    <2> QED
      BY <2>1, <2>2, FailInv
  <1>2. ASSUME NEW e \in Ends, SessionEnds(e) PROVE OpeningInv'
    <2>1. phase[e] = "open" /\ Fail(e)
      BY <1>2 DEF SessionEnds
    <2>2. phase["client"] # "start"
      <3>1. e = "client" \/ e = "server"
        BY TwoEnds
      <3> QED
        BY <2>1, <3>1, NotStarted DEF Before
    <2> QED
      BY <2>1, <2>2, FailInv
  <1>3. CASE AcceptFails
    <2>1. PICK at \in 1 .. Len(buf["server"]) : phase["server"] = "head" /\ Fail("server")
      BY <1>3 DEF AcceptFails
    <2>2. phase["client"] # "start"
      BY <2>1, NotStarted
    <2> QED
      BY <2>1, <2>2, FailInv, TwoEnds
  <1>4. CASE ConnectFails
    <2>1. phase["client"] = "head" /\ Fail("client")
      BY <1>4 DEF ConnectFails
    <2> QED
      BY <2>1, FailInv, TwoEnds
  <1> QED
    BY <1>1, <1>2, <1>3, <1>4

(* What it is to send: the other end gets it, unless it has closed.        *)
LEMMA Sends ==
    ASSUME TypeOK, NEW e \in Ends, NEW s \in Seq(Tokens), Put(e, s)
    PROVE  /\ wire' \in [Ends -> Seq(Tokens)]
           /\ wire'[e] = wire[e]
           /\ closed[Other(e)] => wire'[Other(e)] = wire[Other(e)]
           /\ ~closed[Other(e)] => wire'[Other(e)] = wire[Other(e)] \o s
           /\ Members(wire'[Other(e)]) \subseteq Members(wire[Other(e)]) \cup Members(s)
  <1>1. PICK o : o = Other(e)
    OBVIOUS
  <1>2. o \in Ends /\ o # e
    BY <1>1, TwoEnds
  <1>3. PICK v : v = IF closed[o] THEN wire[o] ELSE wire[o] \o s
    OBVIOUS
  <1>4. v \in Seq(Tokens) /\ Members(v) \subseteq Members(wire[o]) \cup Members(s)
    <2>1. wire[o] \in Seq(Tokens)
      BY <1>2, Types
    <2> QED
      BY <1>3, <2>1, Joined
  <1>5. wire' = [wire EXCEPT ![o] = v]
    BY <1>1, <1>3 DEF Put
  <1> QED
    BY <1>1, <1>2, <1>3, <1>4, <1>5, Types

(* What is sent last is behind all the rest.                               *)
LEMMA Grown ==
    ASSUME NEW g, NEW b, NEW w, NEW t, AreTokens(g, b, w), t \in Seq(Tokens)
    PROVE  g \o b \o (w \o t) = (g \o b \o w) \o t
  <1>1. AreTokens(g \o b, w, t)
    BY Joined DEF AreTokens
  <1> QED
    BY <1>1, Three

(* Heads are sequences of tokens.                                          *)
LEMMA HeadIsSeq ==
    ASSUME case \in Cases, key \in Keys, NEW e \in Ends
    PROVE  HeadTo(e) \in Seq(Tokens)
  BY Requests, Responses, NoMember DEF HeadTo

(* An end sends its greeting, if it has not yet.                           *)
LEMMA GreetInv ==
    ASSUME OpeningInv, NEW e \in Ends, Greet(e)
    PROVE  OpeningInv'
  <1> USE DEF OpeningInv
  <1>0. (e = "client" \/ e = "server") /\ Other(e) \in Ends
    BY TwoEnds
  <1>1. /\ case' = case /\ key' = key /\ closed' = closed /\ buf' = buf
        /\ runs' = runs /\ got' = got
        /\ phase' = [phase EXCEPT ![e] = "open"] /\ phase[e] = "greet"
    BY DEF Greet
  <1>2. /\ phase'[e] = "open" /\ \A x \in Ends \ {e} : phase'[x] = phase[x]
    BY <1>1, Types
  <1>3. /\ runs[e] # "none" /\ said[e] \in {<< >>, Greeting(e)}
        /\ e = "server" => said[e] = << >>
        /\ phase["client"] # "start" /\ ~Before(e)
    <2>1. phase["client"] # "start"
      BY <1>0, <1>1, NotStarted DEF Before
    <2> QED
      BY <1>0, <1>1, <2>1, TwoEnds DEF Placed, Before
  <1>4. Greeting(e) \in Seq(Tokens)
    BY Greetings
  <1>5. /\ wire' \in [Ends -> Seq(Tokens)] /\ wire'[e] = wire[e]
        /\ Members(wire'[Other(e)]) \subseteq Members(wire[Other(e)]) \cup Members(Greeting(e))
        /\ closed[Other(e)] => wire'[Other(e)] = wire[Other(e)]
    <2>1. CASE said[e] # << >>
      BY <1>0, <2>1, Types DEF Greet
    <2>2. CASE said[e] = << >>
      <3>1. Put(e, Greeting(e))
        BY <2>2 DEF Greet
      <3> QED
        BY <1>4, <3>1, Sends
    <2> QED
      BY <2>1, <2>2
  <1>6. /\ said' \in [Ends -> Seq(Tokens)] /\ said'[e] = Greeting(e)
        /\ \A x \in Ends \ {e} : said'[x] = said[x]
    <2>1. CASE said[e] # << >>
      BY <1>3, <2>1, Types DEF Greet
    <2>2. CASE said[e] = << >>
      <3>1. said' = [said EXCEPT ![e] = Greeting(e)]
        BY <2>2 DEF Greet
      <3> QED
        BY <1>4, <3>1, Types
    <2> QED
      BY <2>1, <2>2
  <1>7. ~closed[Other(e)] =>
          \/ said[e] # << >> /\ wire'[Other(e)] = wire[Other(e)] /\ said'[e] = said[e]
          \/ said[e] = << >> /\ wire'[Other(e)] = wire[Other(e)] \o Greeting(e)
    <2>1. CASE said[e] # << >>
      BY <2>1, <1>3, <1>6 DEF Greet
    <2>2. CASE said[e] = << >>
      <3>1. Put(e, Greeting(e))
        BY <2>2 DEF Greet
      <3> QED
        BY <1>4, <2>2, <3>1, Sends
    <2> QED
      BY <2>1, <2>2
  <1>8. TypeOK'
    BY <1>1, <1>5, <1>6, Types DEF TypeOK
  <1>9. Placed'
    <2>1. ~closed[e]
      BY <1>0, <1>1 DEF Placed
    <2>2. Quits => e = "server" /\ closed["client"]
      BY <1>0, <1>1, <1>3 DEF Placed
    <2>3. Quits => wire'["client"] = wire["client"]
      BY <1>5, <2>2, TwoEnds
    <2>4. \A x \in Ends : Greeting(x)' = Greeting(x)
      BY DEF Greeting
    <2> QED
      BY <1>0, <1>1, <1>2, <1>3, <1>5, <1>6, <2>1, <2>2, <2>3, <2>4, TwoEnds DEF Quits, Placed, Before
  <1>10. Sound'
    <2>1. FromClient' = FromClient /\ FromServer' = FromServer
      BY <1>1, SameMessages
    <2>2. Members(Greeting("client")) \subseteq FromClient
          /\ Members(Greeting("server")) \subseteq FromServer
      BY DEF FromClient, FromServer
    <2> QED
      BY <1>0, <1>1, <1>5, <2>1, <2>2, TwoEnds DEF Sound, Coming
  <1>11. Meant'
    <2>1. case.kind = "beep" /\ runs["server"] # "beep" => e = "client"
      BY <1>0, <1>3, TwoEnds, Types DEF Meant
    <2> QED
      BY <1>0, <1>1, <1>2, <1>5, <2>1, TwoEnds DEF Quits, RequestLine, Meant
  <1>12. OpensOnlyIfMeant'
    BY <1>1 DEF OpensOnlyIfMeant, Speaks
  <1>13. ASSUME NEW x \in Ends PROVE Carried(x)'
    <2>1. (Follows(x)' <=> Follows(x)) /\ (Before(x)' <=> Before(x))
      BY <1>1, <1>2 DEF Quits, Follows, Before
    <2>2. HeadTo(x)' = HeadTo(x)
      <3>1. phase'["client"] # "start"
        BY <1>0, <1>2, <1>3, TwoEnds
      <3> QED
        BY <1>1, <1>3, <3>1, SameMessages DEF HeadTo
    <2>3. CASE x = e
      <3>1. said'[Other(x)] = said[Other(x)]
        BY <1>0, <1>6, <2>3, TwoEnds
      <3> QED
        BY <1>1, <1>3, <1>5, <2>1, <2>3, <3>1 DEF Carried
    <2>4. CASE x = Other(e) /\ Follows(x)
      <3>1. Other(x) = e /\ ~closed[x]
        BY <1>0, <2>4, TwoEnds DEF Placed, Follows
      <3>2. PICK h, g, b, w, t : /\ h = IF Before(x) THEN HeadTo(x) ELSE << >>
                                 /\ g = got[x] /\ b = buf[x] /\ w = wire[x] /\ t = Greeting(e)
        OBVIOUS
      <3>3. /\ h \in Seq(Tokens) /\ g \in Seq(Tokens) /\ b \in Seq(Tokens) /\ w \in Seq(Tokens)
            /\ t \in Seq(Tokens)
        BY <1>4, <3>2, Types, HeadIsSeq, NoMember
      <3>4. g \o b \o w = h \o said[e]
        BY <2>4, <3>1, <3>2 DEF Carried
      <3>5. g \o b \o wire'[x] = h \o said'[e]
        <4>1. CASE said[e] # << >>
          BY <1>7, <2>4, <3>1, <3>2, <3>4, <4>1
        <4>2. CASE said[e] = << >>
          <5>0. AreTokens(g, b, w) /\ t \in Seq(Tokens)
            BY <3>3 DEF AreTokens
          <5>1. g \o b \o (w \o t) = (g \o b \o w) \o t
            BY <5>0, Grown, SMTT(40)
          <5>2. g \o b \o w = h
            BY <3>3, <3>4, <4>2, Joined
          <5> QED
            BY <1>6, <1>7, <2>4, <3>1, <3>2, <4>2, <5>1, <5>2
        <4> QED
          BY <4>1, <4>2
      <3> QED
        BY <1>1, <2>1, <2>2, <3>1, <3>2, <3>5 DEF Carried
    <2>5. CASE ~Follows(x)
      BY <2>1, <2>5 DEF Carried
    <2> QED
      BY <1>0, <2>3, <2>4, <2>5, TwoEnds
  <1> QED
    BY <1>8, <1>9, <1>10, <1>11, <1>12, <1>13

(* The client starts.                                                      *)
LEMMA ClientStartsInv ==
    ASSUME OpeningInv, ClientStarts
    PROVE  OpeningInv'
  <1> USE DEF OpeningInv
  <1>1. PICK first : first = IF case.kind # "beep" /\ case.early THEN Greeting("client") ELSE << >>
    OBVIOUS
  <1>2. /\ phase["client"] = "start" /\ Put("client", Request(key) \o first)
        /\ said' = [said EXCEPT !["client"] = first]
        /\ phase' = [phase EXCEPT !["client"] = IF case.kind = "beep" THEN "greet" ELSE "head"]
        /\ closed' = [closed EXCEPT !["client"] = Quits]
        /\ runs' = [runs EXCEPT !["client"] = IF case.kind = "beep" THEN "beep" ELSE @]
        /\ case' = case /\ key' = key /\ buf' = buf /\ got' = got
    BY <1>1 DEF ClientStarts
  <1>3. /\ Before("server") /\ buf["server"] = << >> /\ wire["server"] = << >>
        /\ buf["client"] = << >> /\ wire["client"] = << >> /\ got["client"] = << >>
        /\ got["server"] = << >> /\ said["client"] = << >> /\ said["server"] = << >>
        /\ runs["server"] = "none" /\ runs["client"] = "none" /\ ~closed["server"]
    BY <1>2, TwoEnds DEF Placed, Before
  <1>4. PICK s : s = Request(key) \o first
    OBVIOUS
  <1>5. /\ Request(key) \in Seq(Tokens) /\ first \in Seq(Tokens) /\ s \in Seq(Tokens)
        /\ Members(s) = Members(Request(key)) \cup Members(first)
        /\ Members(s) \subseteq FromClient /\ first \in {<< >>, Greeting("client")}
    <2>1. Request(key) \in Seq(Tokens)
      BY Types, Requests
    <2>2. first \in Seq(Tokens) /\ Members(first) \subseteq Members(Greeting("client"))
      BY <1>1, Greetings, NoMember, TwoEnds
    <2>3. s \in Seq(Tokens) /\ Members(s) = Members(Request(key)) \cup Members(first)
      BY <1>4, <2>1, <2>2, Joined
    <2> QED
      BY <1>1, <2>1, <2>2, <2>3 DEF FromClient
  <1>6. /\ wire' \in [Ends -> Seq(Tokens)] /\ wire'["client"] = << >> /\ wire'["server"] = s
    <2>1. Put("client", s)
      BY <1>2, <1>4
    <2>2. /\ wire' \in [Ends -> Seq(Tokens)] /\ wire'["client"] = wire["client"]
          /\ wire'["server"] = wire["server"] \o s
      BY <1>3, <1>5, <2>1, Sends, TwoEnds
    <2> QED
      BY <1>3, <1>5, <2>2, Joined
  <1>7. /\ said'["client"] = first /\ said'["server"] = << >>
        /\ phase'["client"] = (IF case.kind = "beep" THEN "greet" ELSE "head")
        /\ phase'["server"] = phase["server"]
        /\ closed'["client"] = Quits /\ closed'["server"] = closed["server"]
        /\ runs'["client"] = (IF case.kind = "beep" THEN "beep" ELSE "none")
        /\ runs'["server"] = "none"
    BY <1>2, <1>3, TwoEnds, Types
  <1>8. TypeOK'
    <2>1. said' \in [Ends -> Seq(Tokens)]
      BY <1>2, <1>5, Types
    <2>2. /\ phase' \in [Ends -> {"start", "peek", "head", "greet", "open", "failed"}]
          /\ runs' \in [Ends -> {"none", "ws", "http", "beep"}]
      BY <1>2, Types
    <2>3. Quits \in BOOLEAN
      BY DEF Quits
    <2>4. closed' \in [Ends -> BOOLEAN]
      BY <1>2, <2>3, Types
    <2> QED
      BY <1>2, <1>6, <2>1, <2>2, <2>4, Types DEF TypeOK
  <1>9. Placed'
    <2>1. Quits => case.kind # "beep"
      BY Types, TheCase DEF Quits
    <2>2. Greeting("client")' = Greeting("client") /\ Greeting("server")' = Greeting("server")
      BY DEF Greeting
    <2> QED
      <3>1. /\ Before("server")' /\ phase'["client"] \in {"greet", "head"}
            /\ phase'["client"] = "greet" <=> case.kind = "beep"
            /\ phase'["server"] \in {"peek", "head"}
            /\ phase'["server"] = "peek" => case.port = "shared"
        BY <1>3, <1>7 DEF Placed, Before
      <3>2. runs'["client"] \in {"none", case.kind}
        BY <1>7
      <3>3. /\ Before("client")' => runs'["client"] = "none"
            /\ phase'["client"] \in {"greet", "open"} => runs'["client"] # "none"
            /\ said'["client"] \in {<< >>, Greeting("client")}
            /\ closed'["client"] => Quits /\ phase'["client"] = "head"
        BY <1>5, <1>7, <2>1 DEF Before
      <3>4. /\ runs'["server"] = "none" /\ said'["server"] = << >> /\ ~closed'["server"]
            /\ phase'["server"] \notin {"greet", "open"}
        BY <1>3, <1>7, <3>1
      <3>5. Quits => closed'["client"] /\ phase'["client"] = "head"
        BY <1>7, <2>1
      <3> QED
        BY <1>2, <1>3, <1>6, <2>2, <3>1, <3>2, <3>3, <3>4, <3>5, TwoEnds DEF Quits, Placed
  <1>10. Sound'
    <2>1. FromClient' = FromClient /\ FromServer' = FromServer
      BY <1>2, <1>3, <1>7, SameMessages
    <2> QED
      BY <1>2, <1>3, <1>5, <1>6, <2>1, NoMember DEF Sound, Coming
  <1>11. Meant'
    BY <1>2, <1>3, <1>6, <1>7 DEF Meant
  <1>12. OpensOnlyIfMeant'
    BY <1>2, <1>3, <1>7 DEF OpensOnlyIfMeant
  <1>13. Carried("server")'
    <2>1. HeadTo("server")' = Request(key)
      BY <1>2, <1>7, SameMessages DEF HeadTo
    <2>2. Before("server")'
      BY <1>3, <1>7 DEF Before
    <2>3. << >> \o << >> \o s = s
      BY <1>5, NoMember, Joined
    <2> QED
      <3>1. got'["server"] \o buf'["server"] \o wire'["server"] = s
        BY <1>2, <1>3, <1>6, <2>3
      <3>2. said'[Other("server")] = first
        BY <1>7, TwoEnds
      <3> QED
        BY <1>4, <2>1, <2>2, <3>1, <3>2 DEF Carried
  <1>14. Carried("client")'
    <2>1. HeadTo("client")' = << >>
      BY <1>7 DEF HeadTo
    <2> QED
      <3>1. << >> \o << >> = << >>
        BY NoMember, Joined
      <3>2. /\ got'["client"] = << >> /\ buf'["client"] = << >> /\ wire'["client"] = << >>
            /\ said'[Other("client")] = << >>
        BY <1>2, <1>3, <1>6, <1>7, TwoEnds
      <3> QED
        BY <2>1, <3>1, <3>2 DEF Carried
  <1> QED
    BY <1>8, <1>9, <1>10, <1>11, <1>12, <1>13, <1>14, TwoEnds

(* The server of the shared port decides.                                  *)
LEMMA DecideInv ==
    ASSUME OpeningInv, NEW e \in Ends, Decide(e)
    PROVE  OpeningInv'
  <1> USE DEF OpeningInv
  <1>0. e = "server"
    BY TwoEnds DEF Decide, Placed
  <1>1. PICK to : to = Sniff(buf["server"])
    OBVIOUS
  <1>2. /\ phase["server"] = "peek" /\ (Len(buf["server"]) >= Want \/ Ended("server"))
        /\ phase' = [phase EXCEPT !["server"] = to]
        /\ runs' = [runs EXCEPT !["server"] = IF to = "greet" THEN "beep" ELSE @]
        /\ case' = case /\ key' = key /\ wire' = wire /\ closed' = closed
        /\ buf' = buf /\ got' = got /\ said' = said
    BY <1>0, <1>1 DEF Decide
  <1>3. /\ phase["client"] # "start" /\ Before("server") /\ runs["server"] = "none"
        /\ got["server"] = << >> /\ said["server"] = << >> /\ buf["client"] = << >>
        /\ wire["client"] = << >> /\ got["client"] = << >> /\ ~closed["server"]
    <2>1. phase["client"] # "start"
      BY <1>2, NotStarted, Limits
    <2> QED
      BY <1>2, <2>1, TwoEnds DEF Placed, Before
  <1>4. /\ to \in {"head", "greet"} /\ phase'["server"] = to /\ phase'["client"] = phase["client"]
        /\ runs'["client"] = runs["client"]
        /\ runs'["server"] = IF to = "greet" THEN "beep" ELSE "none"
    <2>1. to \in {"head", "greet"}
      BY <1>1 DEF Sniff
    <2> QED
      BY <1>2, <1>3, <2>1, TwoEnds, Types
  <1>5. buf["server"] \o wire["server"] = Request(key) \o said["client"]
    <2>1. Follows("server") /\ HeadTo("server") = Request(key)
      BY <1>2, <1>3 DEF Follows, HeadTo
    <2>2. got["server"] \o buf["server"] \o wire["server"] = Request(key) \o said["client"]
      BY <1>3, <2>1, TwoEnds DEF Carried
    <2>3. << >> \o buf["server"] = buf["server"]
      BY TwoEnds, Types, Joined
    <2> QED
      BY <1>3, <2>2, <2>3
  <1>6. case.kind # "beep" => buf["server"] # << >> /\ buf["server"][1] = RequestLine
    <2> SUFFICES ASSUME case.kind # "beep"
                 PROVE  buf["server"] # << >> /\ buf["server"][1] = RequestLine
      OBVIOUS
    <2>1. PICK q, b, w, t : /\ q = Request(key) /\ b = buf["server"] /\ w = wire["server"]
                            /\ t = said["client"]
      OBVIOUS
    <2>2. /\ q \in Seq(Tokens) /\ b \in Seq(Tokens) /\ w \in Seq(Tokens) /\ t \in Seq(Tokens)
          /\ q # << >> /\ q[1] = RequestLine
      BY <2>1, Types, Requests, TwoEnds
    <2>3. b \o w = q \o t
      BY <1>5, <2>1
    <2>4. q \o t # << >> /\ (q \o t)[1] = RequestLine
      BY <2>2, Joined
    <2>5. b # << >>
      <3>1. CASE Len(b) >= Want
        <4>1. b = << >> => Len(b) = 0
          OBVIOUS
        <4> QED
          BY <3>1, <4>1, Limits
      <3>2. CASE Ended("server")
        <4>1. w = << >>
          BY <2>1, <3>2 DEF Ended
        <4>2. b \o w = b
          BY <2>2, <4>1, Joined
        <4> QED
          BY <2>3, <2>4, <4>2
      <3> QED
        BY <1>2, <2>1, <3>1, <3>2
    <2>6. (b \o w)[1] = b[1]
      BY <2>2, <2>5, Joined
    <2> QED
      BY <2>1, <2>3, <2>4, <2>5, <2>6
  <1>7. RequestLine' = RequestLine
    BY <1>2 DEF RequestLine
  <1>8. TypeOK'
    BY <1>2, <1>4, Types DEF TypeOK
  <1>9. Placed'
    BY <1>2, <1>3, <1>4, TwoEnds DEF Quits, Placed, Before, Greeting
  <1>10. Sound'
    <2>1. FromClient' = FromClient /\ FromServer' = FromServer
      BY <1>2, <1>3, <1>4, SameMessages
    <2> QED
      BY <1>2, <2>1 DEF Sound, Coming
  <1>11. Meant'
    BY <1>2, <1>3, <1>4, <1>6, <1>7 DEF Meant
  <1>12. OpensOnlyIfMeant'
    <2>1. case.kind # "none"
      BY Types, TheCase
    <2> QED
      BY <1>2, <1>3, <1>4, <2>1 DEF OpensOnlyIfMeant, Speaks
  <1>13. Carried("server")'
    <2>1. CASE to = "head"
      <3>1. Before("server")' /\ HeadTo("server")' = HeadTo("server") /\ Follows("server")
        BY <1>2, <1>3, <1>4, <2>1, SameMessages DEF Before, HeadTo, Follows
      <3> QED
        BY <1>2, <1>3, <3>1, TwoEnds DEF Carried
    <2>2. CASE to = "greet" /\ case.kind = "beep"
      <3>1. ~Before("server")' /\ Request(key) = << >>
        BY <1>4, <2>2, Types, Requests DEF Before
      <3>2. << >> \o said["client"] = said["client"] /\ << >> \o buf["server"] = buf["server"]
        BY TwoEnds, Types, Joined
      <3> QED
        BY <1>2, <1>3, <1>5, <3>1, <3>2, TwoEnds DEF Carried
    <2>3. CASE to = "greet" /\ case.kind # "beep"
      BY <1>2, <1>4, <2>3 DEF Carried, Follows, Before
    <2> QED
      BY <1>4, <2>1, <2>2, <2>3
  <1>14. Carried("client")'
    <2>1. HeadTo("client")' = << >>
      BY <1>4 DEF HeadTo
    <2> QED
      <3>1. << >> \o << >> = << >>
        BY NoMember, Joined
      <3>2. /\ got'["client"] = << >> /\ buf'["client"] = << >> /\ wire'["client"] = << >>
            /\ said'[Other("client")] = << >>
        BY <1>2, <1>3, TwoEnds
      <3> QED
        BY <2>1, <3>1, <3>2 DEF Carried
  <1> QED
    BY <1>8, <1>9, <1>10, <1>11, <1>12, <1>13, <1>14, TwoEnds

(* A session reads, first what was kept and then its transport.            *)
LEMMA SessionReadsInv ==
    ASSUME OpeningInv, NEW e \in Ends, NEW n \in 1 .. Chunk, SessionReads(e, n)
    PROVE  OpeningInv'
  <1> USE DEF OpeningInv
  <1>0. e = "client" \/ e = "server"
    BY TwoEnds
  <1>1. PICK from, data, rest : /\ from = IF buf[e] # << >> THEN buf[e] ELSE wire[e]
                                /\ data = SubSeq(from, 1, n)
                                /\ rest = SubSeq(from, n + 1, Len(from))
    OBVIOUS
  <1>2. /\ phase[e] = "open" /\ n <= Len(from) /\ Beep(data)
        /\ got' = [got EXCEPT ![e] = @ \o data]
        /\ buf' = IF buf[e] # << >> THEN [buf EXCEPT ![e] = rest] ELSE buf
        /\ wire' = IF buf[e] # << >> THEN wire ELSE [wire EXCEPT ![e] = rest]
        /\ case' = case /\ key' = key /\ phase' = phase /\ closed' = closed
        /\ runs' = runs /\ said' = said
    BY <1>1 DEF SessionReads
  <1>3. n \in Nat /\ n >= 1 /\ from \in Seq(Tokens)
    BY <1>1, Types
  <1>4. /\ data \in Seq(Tokens) /\ rest \in Seq(Tokens) /\ data \o rest = from /\ Len(data) = n
        /\ Len(rest) = Len(from) - n
        /\ \A i \in 1 .. n : data[i] = from[i]
        /\ Members(data) \subseteq Members(from) /\ Members(rest) \subseteq Members(from)
    <2>1. CutInto(from, n, data, rest)
      BY <1>1, <1>2, <1>3, Cut, Zenon
    <2> QED
      BY <2>1 DEF CutInto
  <1>5. from # << >> /\ from[1].t \in {"RPY", "END", "eol"}
    <2>1. 1 \in 1 .. n /\ 1 \in 1 .. Len(data)
      BY <1>3, <1>4
    <2>2. from = << >> => Len(from) = 0
      OBVIOUS
    <2> QED
      BY <1>2, <1>3, <1>4, <2>1, <2>2 DEF Beep
  <1>6. /\ got'[e] = got[e] \o data
        /\ \A x \in Ends \ {e} : got'[x] = got[x] /\ buf'[x] = buf[x] /\ wire'[x] = wire[x]
        /\ buf[e] # << >> => buf'[e] = rest /\ wire'[e] = wire[e]
        /\ buf[e] = << >> => buf'[e] = buf[e] /\ wire'[e] = rest
    BY <1>2, Types
  <1>7. got[e] \o data \in Seq(Tokens)
    BY <1>4, Types, Joined
  <1>8. phase["client"] # "start" /\ (e = "client" => ~Before("server")) /\ ~Before(e)
        /\ (e = "client" => ~Quits) /\ runs[e] # "none"
    BY <1>0, <1>1, <1>2, <1>5, TwoEnds DEF Placed, Before
  <1>9. e = "server" /\ runs["server"] = "beep" => case.kind = "beep"
    BY <1>1, <1>5, Parts DEF Meant
  <1>10. e = "client" /\ case.kind = "beep" => runs["server"] = "beep" /\ buf[e] = << >>
    <2>1. Refusal[1].t = "HTTP"
      BY Refusals, Parts
    <2> QED
      BY <1>1, <1>5, <2>1 DEF Meant, Placed
  <1>11. TypeOK'
    <2>1. \A x \in Ends : Len(buf'[x]) <= MaxHead + Chunk
      <3>1. \A x \in Ends \ {e} : Len(buf'[x]) <= MaxHead + Chunk
        BY <1>6 DEF TypeOK
      <3>2. buf[e] = << >> => Len(buf'[e]) <= MaxHead + Chunk
        BY <1>6 DEF TypeOK
      <3>3. buf[e] # << >> => Len(buf'[e]) <= MaxHead + Chunk
        <4>1. buf[e] # << >> => Len(buf'[e]) = Len(buf[e]) - n
          BY <1>1, <1>4, <1>6
        <4>2. Len(buf[e]) \in Nat /\ Len(buf[e]) <= MaxHead + Chunk
          BY Types DEF TypeOK
        <4> QED
          BY <1>3, <4>1, <4>2, Limits
      <3> QED
        BY <3>1, <3>2, <3>3
    <2>2. /\ buf' \in [Ends -> Seq(Tokens)] /\ wire' \in [Ends -> Seq(Tokens)]
          /\ got' \in [Ends -> Seq(Tokens)]
      BY <1>2, <1>4, <1>7, Types
    <2> QED
      BY <1>2, <2>1, <2>2, Types DEF TypeOK
  <1>12. Placed'
    BY <1>0, <1>2, <1>6, <1>8, <1>10, TwoEnds DEF Quits, Placed, Before, Greeting
  <1>13. Sound'
    <2>1. \A x \in Ends : Coming(x)' \subseteq Coming(x)
      BY <1>1, <1>4, <1>6 DEF Coming
    <2>2. FromClient' = FromClient /\ FromServer' = FromServer
      BY <1>2, SameMessages
    <2> QED
      BY <2>1, <2>2, TwoEnds DEF Sound
  <1>14. Meant'
    BY <1>0, <1>2, <1>6, <1>9, <1>10, TwoEnds, ZenonT(60) DEF Quits, RequestLine, Meant
  <1>15. OpensOnlyIfMeant'
    <2>1. e = "server" => runs["server"] = case.kind
      BY <1>8, <1>9, Types, TwoEnds DEF Meant
    <2>2. e = "client" => runs["client"] = runs["server"]
      <3>1. e = "client" => runs["client"] = case.kind
        BY <1>8 DEF Placed
      <3> QED
        BY <1>10, <3>1, Types, TheCase DEF OpensOnlyIfMeant
    <2>3. Speaks' <=> Speaks
      BY <1>2 DEF Speaks
    <2> QED
      BY <1>0, <1>2, <1>6, <2>1, <2>2, <2>3, TwoEnds DEF OpensOnlyIfMeant
  <1>16. ASSUME NEW x \in Ends PROVE Carried(x)'
    <2>1. got'[x] \o buf'[x] \o wire'[x] = got[x] \o buf[x] \o wire[x]
      <3>1. CASE x # e
        BY <1>6, <3>1
      <3>2. CASE x = e
        <4>1. PICK g, b, w : g = got[e] /\ b = buf[e] /\ w = wire[e]
          OBVIOUS
        <4>2. g \in Seq(Tokens) /\ b \in Seq(Tokens) /\ w \in Seq(Tokens)
          BY <4>1, Types
        <4>3. (g \o data) \o rest = g \o (data \o rest)
          <5>1. AreTokens(g, data, rest)
            BY <1>4, <4>2 DEF AreTokens
          <5> QED
            BY <5>1, Three, SMTT(40)
        <4>4. g \o data \o << >> = g \o data /\ g \o << >> = g
          BY <1>4, <4>2, Joined
        <4> QED
          BY <1>1, <1>4, <1>6, <3>2, <4>1, <4>3, <4>4
      <3> QED
        BY <3>1, <3>2
    <2>2. HeadTo(x)' = HeadTo(x) /\ (Follows(x)' <=> Follows(x)) /\ (Before(x)' <=> Before(x))
      BY <1>2, SameMessages DEF Quits, HeadTo, Follows, Before
    <2> QED
      BY <1>2, <2>1, <2>2 DEF Carried
  <1> QED
    BY <1>11, <1>12, <1>13, <1>14, <1>15, <1>16

(* The head is cut off what has been read.                                 *)
HeadTaken(e, head, rest) ==
    /\ phase[e] = "head" /\ FindBlankLine(buf[e]) # 0 /\ buf[e] # << >>
    /\ head \in Seq(Tokens) /\ head # << >> /\ Members(head) \subseteq Members(buf[e])
    /\ rest \in Seq(Tokens) /\ Members(rest) \subseteq Members(buf[e])
    /\ Len(rest) \in Nat /\ Len(rest) <= MaxHead + Chunk
    /\ buf' = [buf EXCEPT ![e] = rest] /\ buf' \in [Ends -> Seq(Tokens)]
    /\ buf'[e] = rest /\ \A x \in Ends \ {e} : buf'[x] = buf[x]

(* It is, when read_head has its head.                                     *)
LEMMA TakesHead ==
    ASSUME TypeOK, NEW e \in Ends, NEW head, HeadDone(e, head),
           NEW rest, rest = KeepRest(buf[e], FindBlankLine(buf[e]))
    PROVE  HeadTaken(e, head, rest)
  <1>1. PICK s, at : s = buf[e] /\ at = FindBlankLine(s)
    OBVIOUS
  <1>2. /\ phase[e] = "head" /\ at # 0 /\ head = SubSeq(s, 1, at)
        /\ buf' = [buf EXCEPT ![e] = rest]
    BY <1>1 DEF HeadDone
  <1>3. s \in Seq(Tokens) /\ Len(s) \in Nat
    BY <1>1, Types
  <1>4. at \in Nat /\ at >= 1 /\ at <= Len(s)
    <2>1. at \in 0 .. Len(s)
      BY <1>1, <1>3, BlankInside
    <2> QED
      BY <1>2, <1>3, <2>1
  <1>5. CutInto(s, at, head, rest)
    <2>1. rest = SubSeq(s, at + 1, Len(s))
      BY <1>1 DEF KeepRest
    <2>2. head = SubSeq(s, 1, at)
      BY <1>2
    <2> QED
      BY <1>3, <1>4, <2>1, <2>2, Cut, Zenon
  <1>6. /\ head \in Seq(Tokens) /\ rest \in Seq(Tokens) /\ Len(head) = at
        /\ Len(rest) = Len(s) - at
        /\ Members(head) \subseteq Members(s) /\ Members(rest) \subseteq Members(s)
    BY <1>5 DEF CutInto
  <1>7. head # << >> /\ s # << >>
    <2>1. head = << >> => Len(head) = 0
      OBVIOUS
    <2>2. s = << >> => Len(s) = 0
      OBVIOUS
    <2> QED
      BY <1>3, <1>4, <1>6, <2>1, <2>2
  <1>8. Len(rest) \in Nat /\ Len(rest) <= MaxHead + Chunk
    <2>1. Len(s) <= MaxHead + Chunk
      BY <1>1 DEF TypeOK
    <2> QED
      BY <1>3, <1>4, <1>6, <2>1, Limits
  <1>9. buf' \in [Ends -> Seq(Tokens)] /\ buf'[e] = rest /\ \A x \in Ends \ {e} : buf'[x] = buf[x]
    BY <1>2, <1>6, Types
  <1> QED
    BY <1>1, <1>2, <1>6, <1>7, <1>8, <1>9 DEF HeadTaken

(* A client has the answer it wants.                                       *)
LEMMA ConnectedInv ==
    ASSUME OpeningInv, Connected
    PROVE  OpeningInv'
  <1> USE DEF OpeningInv
  <1>1. PICK at \in 1 .. Len(buf["client"]) :
          /\ HeadDone("client", SubSeq(buf["client"], 1, at))
          /\ Agreed(SubSeq(buf["client"], 1, at))
          /\ phase' = [phase EXCEPT !["client"] = "greet"]
          /\ runs' = [runs EXCEPT !["client"] = case.kind]
          /\ UNCHANGED <<case, key, wire, closed, got, said>>
    BY DEF Connected
  <1>2. PICK head, rest : /\ head = SubSeq(buf["client"], 1, at)
                          /\ rest = KeepRest(buf["client"], FindBlankLine(buf["client"]))
    OBVIOUS
  <1>3. HeadDone("client", head) /\ Agreed(head)
    BY <1>1, <1>2
  <1>4. /\ phase["client"] = "head" /\ FindBlankLine(buf["client"]) # 0 /\ buf["client"] # << >>
        /\ head \in Seq(Tokens) /\ head # << >> /\ Members(head) \subseteq Members(buf["client"])
        /\ rest \in Seq(Tokens) /\ Members(rest) \subseteq Members(buf["client"])
        /\ Len(rest) <= MaxHead + Chunk /\ buf' \in [Ends -> Seq(Tokens)]
        /\ buf'["client"] = rest /\ buf'["server"] = buf["server"]
    <2>1. TypeOK /\ "client" \in Ends /\ rest = KeepRest(buf["client"], FindBlankLine(buf["client"]))
      BY <1>2, TwoEnds
    <2>2. HeadTaken("client", head, rest)
      BY <1>3, <2>1, TakesHead, Zenon
    <2> QED
      BY <2>2, TwoEnds DEF HeadTaken
  <1>5. /\ case' = case /\ key' = key /\ wire' = wire /\ closed' = closed /\ got' = got
        /\ said' = said
        /\ phase'["client"] = "greet" /\ phase'["server"] = phase["server"]
        /\ runs'["client"] = case.kind /\ runs'["server"] = runs["server"]
    BY <1>1, Types, TwoEnds
  <1>6. /\ case.kind # "beep" /\ ~Before("server") /\ ~Quits /\ ~closed["client"]
        /\ got["client"] = << >>
    BY <1>4, TwoEnds DEF Placed, Before
  <1>7. case.fault = "none" /\ runs["server"] = case.kind /\ case.kind \in {"ws", "http"}
    <2>1. Members(head) \subseteq FromServer
      BY <1>4 DEF Sound, Coming
    <2> QED
      BY <1>3, <1>4, <1>6, <2>1, AgreedMeans, Types, TheCase
  <1>8. TypeOK'
    <2>1. \A x \in Ends : Len(buf'[x]) <= MaxHead + Chunk
      BY <1>4, TwoEnds DEF TypeOK
    <2>2. /\ phase' \in [Ends -> {"start", "peek", "head", "greet", "open", "failed"}]
          /\ runs' \in [Ends -> {"none", "ws", "http", "beep"}]
      BY <1>1, <1>7, Types
    <2> QED
      BY <1>4, <1>5, <2>1, <2>2, Types DEF TypeOK
  <1>9. Placed'
    BY <1>4, <1>5, <1>6, <1>7, TwoEnds DEF Quits, Placed, Before, Greeting
  <1>10. Sound'
    <2>1. FromClient' = FromClient /\ FromServer' = FromServer
      BY <1>5, SameMessages
    <2> QED
      BY <1>4, <1>5, <2>1 DEF Sound, Coming
  <1>11. Meant'
    BY <1>4, <1>5 DEF Quits, RequestLine, Meant
  <1>12. OpensOnlyIfMeant'
    BY <1>5, <1>6, <1>7 DEF OpensOnlyIfMeant, Speaks
  <1>13. Carried("server")'
    <2>1. HeadTo("server")' = HeadTo("server")
      BY <1>4, <1>5, SameMessages DEF HeadTo
    <2>2. (Follows("server")' <=> Follows("server")) /\ (Before("server")' <=> Before("server"))
      BY <1>5 DEF Follows, Before
    <2> QED
      BY <1>4, <1>5, <2>1, <2>2, TwoEnds DEF Carried
  <1>14. Carried("client")'
    <2> SUFFICES ASSUME Follows("client")'
                 PROVE  got'["client"] \o buf'["client"] \o wire'["client"] = said'["server"]
      <3>1. ~Before("client")'
        BY <1>5 DEF Before
      <3>2. << >> \o said["server"] = said["server"]
        BY Types, TwoEnds, Joined
      <3> QED
        BY <1>5, <3>1, <3>2, TwoEnds DEF Carried
    <2>1. Follows("client") /\ Before("client")
      BY <1>4, <1>5, <1>6 DEF Follows, Before
    <2>2. HeadTo("client") = Response(key)
      BY <1>7 DEF HeadTo
    <2>3. PICK s, w, h, t : /\ s = buf["client"] /\ w = wire["client"] /\ h = Response(key)
                            /\ t = said["server"]
      OBVIOUS
    <2>4. /\ s \in Seq(Tokens) /\ w \in Seq(Tokens) /\ t \in Seq(Tokens) /\ IsHead(h)
          /\ FindBlankLine(s) # 0 /\ rest = KeepRest(s, FindBlankLine(s))
      BY <1>2, <1>4, <2>3, Types, TwoEnds, Responses
    <2>5. << >> \o s = s /\ << >> \o rest = rest
      BY <1>4, <2>4, Joined
    <2>6. s \o w = h \o t
      BY <1>6, <2>1, <2>2, <2>3, <2>5, TwoEnds DEF Carried
    <2>7. KeepRest(s, FindBlankLine(s)) \o w = t
      <3>1. HasHead(h, t, s, w)
        BY <2>4, <2>6 DEF HasHead
      <3> QED
        BY <3>1, HeadFound
    <2> QED
      BY <1>4, <1>5, <1>6, <2>3, <2>4, <2>5, <2>7
  <1> QED
    BY <1>8, <1>9, <1>10, <1>11, <1>12, <1>13, <1>14, TwoEnds

(* A server that has a head is still before everything, and its client has *)
(* started.                                                                *)
LEMMA Serving ==
    ASSUME OpeningInv, phase["server"] = "head", buf["server"] # << >>
    PROVE  /\ phase["client"] # "start" /\ Before("server") /\ runs["server"] = "none"
           /\ got["server"] = << >> /\ said["server"] = << >> /\ ~closed["server"]
           /\ buf["client"] = << >> /\ wire["client"] = << >> /\ got["client"] = << >>
           /\ buf["server"] \o wire["server"] = Request(key) \o said["client"]
           /\ runs["client"] \notin {"ws", "http"}
  <1> USE DEF OpeningInv
  <1>1. phase["client"] # "start"
    BY NotStarted
  <1>2. /\ Before("server") /\ runs["server"] = "none" /\ got["server"] = << >>
        /\ said["server"] = << >> /\ ~closed["server"]
        /\ buf["client"] = << >> /\ wire["client"] = << >> /\ got["client"] = << >>
    BY TwoEnds DEF Placed, Before
  <1>3. buf["server"] \o wire["server"] = Request(key) \o said["client"]
    <2>1. Follows("server") /\ HeadTo("server") = Request(key)
      BY <1>1, <1>2 DEF Follows, HeadTo
    <2>2. got["server"] \o buf["server"] \o wire["server"] = Request(key) \o said["client"]
      BY <1>2, <2>1, TwoEnds DEF Carried
    <2>3. << >> \o buf["server"] = buf["server"]
      BY TwoEnds, Types, Joined
    <2> QED
      BY <1>2, <2>2, <2>3
  <1>4. runs["client"] \notin {"ws", "http"}
    <2>1. case.kind # "none"
      BY Types, TheCase
    <2> QED
      BY <1>2, <2>1 DEF OpensOnlyIfMeant
  <1> QED
    BY <1>1, <1>2, <1>3, <1>4

(* A server settles on the protocol that the head asked for.               *)
LEMMA SettledInv ==
    ASSUME OpeningInv, NEW to \in {"ws", "http"}, NEW head, HeadDone("server", head),
           case.kind = to, case.fault \notin {"endless", "quits", "half"},
           to = "ws" => case.port # "http" /\ case.fault \in {"none", "wrongkey", "status"},
           to = "http" => case.port = "http" /\ case.fault \in {"none", "status", "proxy"},
           Put("server", Response(key)),
           phase' = [phase EXCEPT !["server"] = "greet"],
           runs' = [runs EXCEPT !["server"] = to],
           UNCHANGED <<case, key, closed, got, said>>
    PROVE  OpeningInv'
  <1> USE DEF OpeningInv
  <1>1. PICK rest : rest = KeepRest(buf["server"], FindBlankLine(buf["server"]))
    OBVIOUS
  <1>2. HeadTaken("server", head, rest)
    BY <1>1, TakesHead, TwoEnds, Zenon
  <1>3. /\ phase["server"] = "head" /\ FindBlankLine(buf["server"]) # 0
        /\ buf["server"] # << >>
        /\ rest \in Seq(Tokens) /\ Members(rest) \subseteq Members(buf["server"])
        /\ Len(rest) <= MaxHead + Chunk /\ buf' \in [Ends -> Seq(Tokens)]
        /\ buf'["server"] = rest /\ buf'["client"] = buf["client"]
    BY <1>2, TwoEnds DEF HeadTaken
  <1>4. /\ phase["client"] # "start" /\ Before("server") /\ runs["server"] = "none"
        /\ got["server"] = << >> /\ said["server"] = << >> /\ ~closed["server"]
        /\ buf["client"] = << >> /\ wire["client"] = << >> /\ got["client"] = << >>
        /\ buf["server"] \o wire["server"] = Request(key) \o said["client"]
        /\ runs["client"] \notin {"ws", "http"}
    BY <1>3, Serving
  <1>5. Response(key) \in Seq(Tokens) /\ << >> \o Response(key) = Response(key)
    BY Types, Responses, Joined
  <1>6. /\ wire' \in [Ends -> Seq(Tokens)] /\ wire'["server"] = wire["server"]
        /\ closed["client"] => wire'["client"] = << >>
        /\ ~closed["client"] => wire'["client"] = Response(key)
        /\ Members(wire'["client"]) \subseteq Members(Response(key))
    <2>1. /\ wire' \in [Ends -> Seq(Tokens)]
          /\ wire'["server"] = wire["server"]
          /\ closed["client"] => wire'["client"] = wire["client"]
          /\ ~closed["client"] => wire'["client"] = wire["client"] \o Response(key)
          /\ Members(wire'["client"]) \subseteq Members(wire["client"]) \cup Members(Response(key))
      BY <1>5, Sends, TwoEnds
    <2> QED
      BY <1>4, <1>5, <2>1, NoMember
  <1>7. /\ case' = case /\ key' = key /\ closed' = closed /\ got' = got /\ said' = said
        /\ phase'["server"] = "greet" /\ phase'["client"] = phase["client"]
        /\ runs'["server"] = to /\ runs'["client"] = runs["client"]
    BY Types, TwoEnds
  <1>8. TypeOK'
    <2>1. \A x \in Ends : Len(buf'[x]) <= MaxHead + Chunk
      BY <1>3, TwoEnds DEF TypeOK
    <2>2. /\ phase' \in [Ends -> {"start", "peek", "head", "greet", "open", "failed"}]
          /\ runs' \in [Ends -> {"none", "ws", "http", "beep"}]
      BY Types
    <2> QED
      <3>1. /\ wire' \in [Ends -> Seq(Tokens)] /\ buf' \in [Ends -> Seq(Tokens)]
            /\ got' \in [Ends -> Seq(Tokens)] /\ said' \in [Ends -> Seq(Tokens)]
        BY <1>3, <1>6, <1>7, Types
      <3>2. case' \in Cases /\ key' \in Keys /\ closed' \in [Ends -> BOOLEAN]
        BY <1>7, Types
      <3> QED
        BY <2>1, <2>2, <3>1, <3>2 DEF TypeOK
  <1>9. Placed'
    BY <1>3, <1>4, <1>6, <1>7, TwoEnds DEF Quits, Placed, Before, Greeting
  <1>10. Sound'
    <2>1. FromClient' = FromClient
      BY <1>7, SameMessages
    <2>2. Members(Response(key)) \subseteq FromServer'
      <3>1. Response(key)' = Response(key)
        BY <1>7, SameMessages
      <3> QED
        BY <1>7, <3>1 DEF FromServer
    <2> QED
      BY <1>3, <1>4, <1>6, <1>7, <2>1, <2>2, NoMember DEF Sound, Coming
  <1>11. Meant'
    BY <1>7 DEF Meant
  <1>12. OpensOnlyIfMeant'
    BY <1>4, <1>7 DEF OpensOnlyIfMeant
  <1>13. Carried("server")'
    <2>1. PICK s, w, h, t : /\ s = buf["server"] /\ w = wire["server"] /\ h = Request(key)
                            /\ t = said["client"]
      OBVIOUS
    <2>2. HasHead(h, t, s, w)
      BY <1>3, <1>4, <2>1, Types, TwoEnds, Requests DEF HasHead
    <2>3. rest \o w = t
      <3>1. KeepRest(s, FindBlankLine(s)) \o w = t
        BY <2>2, HeadFound
      <3> QED
        BY <1>1, <2>1, <3>1
    <2>4. << >> \o rest = rest /\ << >> \o t = t
      BY <1>3, <2>1, Types, TwoEnds, Joined
    <2>5. got'["server"] \o buf'["server"] \o wire'["server"] = t
      BY <1>3, <1>4, <1>6, <1>7, <2>1, <2>3, <2>4
    <2>6. ~Before("server")' /\ said'[Other("server")] = t
      BY <1>7, <2>1, TwoEnds DEF Before
    <2> QED
      BY <2>4, <2>5, <2>6 DEF Carried
  <1>14. Carried("client")'
    <2> SUFFICES ASSUME Follows("client")' PROVE Carried("client")'
      BY DEF Carried
    <2>1. runs'["client"] # case.kind
      BY <1>4, <1>7
    <2>2. Before("client")' /\ phase["client"] # "failed"
      BY <1>7, <2>1 DEF Follows
    <2>3. ~closed["client"]
      BY <2>2, TwoEnds DEF Quits, Placed
    <2>4. HeadTo("client")' = Response(key)
      BY <1>7, SameMessages DEF HeadTo
    <2>5. << >> \o << >> = << >> /\ Response(key) \o << >> = Response(key)
      BY <1>5, NoMember, Joined
    <2>6. got'["client"] \o buf'["client"] \o wire'["client"] = Response(key)
      BY <1>3, <1>4, <1>5, <1>6, <1>7, <2>3, <2>5
    <2>7. said'[Other("client")] = << >>
      BY <1>4, <1>7, TwoEnds
    <2> QED
      BY <2>2, <2>4, <2>5, <2>6, <2>7 DEF Carried
  <1> QED
    BY <1>8, <1>9, <1>10, <1>11, <1>12, <1>13, <1>14, TwoEnds

(* A WebSocket server accepts.                                             *)
LEMMA AcceptInv ==
    ASSUME OpeningInv, Accept
    PROVE  OpeningInv'
  <1> USE DEF OpeningInv
  <1>1. PICK at \in 1 .. Len(buf["server"]) :
          LET head == SubSeq(buf["server"], 1, at)
          IN  /\ case.port # "http" /\ HeadDone("server", head) /\ ParseRequest(head)
              /\ Put("server", Response(KeyIn(head)))
              /\ phase' = [phase EXCEPT !["server"] = "greet"]
              /\ runs' = [runs EXCEPT !["server"] = "ws"]
              /\ UNCHANGED <<case, key, closed, got, said>>
    BY DEF Accept
  <1>2. PICK head, rest : /\ head = SubSeq(buf["server"], 1, at)
                          /\ rest = KeepRest(buf["server"], FindBlankLine(buf["server"]))
    OBVIOUS
  <1>3. /\ case.port # "http" /\ HeadDone("server", head) /\ ParseRequest(head)
        /\ Put("server", Response(KeyIn(head)))
    BY <1>1, <1>2
  <1>4. HeadTaken("server", head, rest)
    BY <1>2, <1>3, TakesHead, TwoEnds, Zenon
  <1>5. /\ head \in Seq(Tokens) /\ head # << >> /\ Members(head) \subseteq FromClient
    BY <1>4 DEF HeadTaken, Sound, Coming
  <1>6. /\ case.kind = "ws" /\ KeyIn(head) = key
        /\ case.fault \notin {"endless", "quits", "half", "nokey", "version", "post"}
    BY <1>3, <1>5, ParsedMeans, Types
  <1>7. case.fault \in {"none", "wrongkey", "status"}
    BY <1>3, <1>6, Types, TheCase DEF Faults
  <1>8. Put("server", Response(key))
    BY <1>3, <1>6
  <1> QED
    BY <1>1, <1>3, <1>6, <1>7, <1>8, SettledInv

(* An HTTP server answers, or refuses.                                     *)
LEMMA UpgradedInv ==
    ASSUME OpeningInv, Upgraded
    PROVE  OpeningInv'
  <1> USE DEF OpeningInv
  <1>1. PICK at \in 1 .. Len(buf["server"]) :
          LET head == SubSeq(buf["server"], 1, at)
          IN  /\ case.port = "http" /\ HeadDone("server", head)
              /\ IF IsBeepUpgrade(head)
                   THEN /\ Put("server", Response("")) /\ closed' = closed
                        /\ phase' = [phase EXCEPT !["server"] = "greet"]
                        /\ runs' = [runs EXCEPT !["server"] = "http"]
                 ELSE /\ Put("server", Refusal) /\ closed' = [closed EXCEPT !["server"] = TRUE]
                      /\ phase' = [phase EXCEPT !["server"] = "failed"] /\ runs' = runs
              /\ UNCHANGED <<case, key, got, said>>
    BY DEF Upgraded
  <1>2. PICK head, rest : /\ head = SubSeq(buf["server"], 1, at)
                          /\ rest = KeepRest(buf["server"], FindBlankLine(buf["server"]))
    OBVIOUS
  <1>3. case.port = "http" /\ HeadDone("server", head)
    BY <1>1, <1>2
  <1>4. HeadTaken("server", head, rest)
    BY <1>2, <1>3, TakesHead, TwoEnds, Zenon
  <1>5. /\ head \in Seq(Tokens) /\ head # << >> /\ Members(head) \subseteq FromClient
    BY <1>4 DEF HeadTaken, Sound, Coming
  <1>6. CASE IsBeepUpgrade(head)
    <2>1. /\ Put("server", Response("")) /\ closed' = closed
          /\ phase' = [phase EXCEPT !["server"] = "greet"]
          /\ runs' = [runs EXCEPT !["server"] = "http"]
          /\ UNCHANGED <<case, key, got, said>>
      BY <1>1, <1>2, <1>6
    <2>2. case.kind = "http" /\ case.fault \notin {"endless", "quits", "half"}
      BY <1>5, <1>6, UpgradeMeans, Types
    <2>3. case.fault \in {"none", "status", "proxy"}
      BY <1>3, <2>2, Types, TheCase DEF Faults
    <2>4. Put("server", Response(key))
      BY <1>3, <2>1, Types, Responses
    <2> QED
      BY <1>3, <2>1, <2>2, <2>3, <2>4, SettledInv
  <1>7. CASE ~IsBeepUpgrade(head)
    <2>1. /\ Put("server", Refusal)
          /\ closed' = [closed EXCEPT !["server"] = TRUE]
          /\ phase' = [phase EXCEPT !["server"] = "failed"]
          /\ case' = case /\ key' = key /\ got' = got /\ said' = said /\ runs' = runs
      BY <1>1, <1>2, <1>7
    <2>2. /\ phase["server"] = "head" /\ buf["server"] # << >>
          /\ rest \in Seq(Tokens) /\ Members(rest) \subseteq Members(buf["server"])
          /\ Len(rest) <= MaxHead + Chunk /\ buf' \in [Ends -> Seq(Tokens)]
          /\ buf'["server"] = rest /\ buf'["client"] = buf["client"]
      BY <1>4, TwoEnds DEF HeadTaken
    <2>3. /\ phase["client"] # "start" /\ Before("server") /\ runs["server"] = "none"
          /\ got["server"] = << >> /\ said["server"] = << >>
          /\ buf["client"] = << >> /\ wire["client"] = << >> /\ got["client"] = << >>
      BY <2>2, Serving
    <2>4. Refusal \in Seq(Tokens) /\ << >> \o Refusal = Refusal
      BY Refusals, Joined
    <2>5. /\ wire' \in [Ends -> Seq(Tokens)] /\ wire'["server"] = wire["server"]
          /\ closed["client"] => wire'["client"] = << >>
          /\ wire'["client"] \in {<< >>, Refusal}
          /\ Members(wire'["client"]) \subseteq Members(Refusal)
      <3>1. /\ wire' \in [Ends -> Seq(Tokens)]
            /\ wire'["server"] = wire["server"]
            /\ closed["client"] => wire'["client"] = wire["client"]
            /\ ~closed["client"] => wire'["client"] = wire["client"] \o Refusal
            /\ Members(wire'["client"]) \subseteq Members(wire["client"]) \cup Members(Refusal)
        BY <2>1, <2>4, Sends, TwoEnds
      <3> QED
        BY <2>3, <2>4, <3>1, NoMember
    <2>6. /\ phase'["server"] = "failed" /\ phase'["client"] = phase["client"]
          /\ closed'["server"] = TRUE /\ closed'["client"] = closed["client"]
      BY <2>1, Types, TwoEnds
    <2>7. TypeOK'
      <3>1. \A x \in Ends : Len(buf'[x]) <= MaxHead + Chunk
        BY <2>2, TwoEnds DEF TypeOK
      <3>2. /\ phase' \in [Ends -> {"start", "peek", "head", "greet", "open", "failed"}]
            /\ closed' \in [Ends -> BOOLEAN]
        BY <2>1, Types
      <3> QED
        BY <2>1, <2>2, <2>5, <3>1, <3>2, Types DEF TypeOK
    <2>8. Placed'
      BY <2>1, <2>2, <2>3, <2>5, <2>6, TwoEnds DEF Quits, Placed, Before, Greeting
    <2>9. Sound'
      <3>1. FromClient' = FromClient /\ FromServer' = FromServer
        BY <2>1, SameMessages
      <3>2. Members(Refusal) \subseteq FromServer
        BY <2>3 DEF FromServer
      <3> QED
        BY <2>2, <2>3, <2>5, <3>1, <3>2, NoMember DEF Sound, Coming
    <2>10. Meant'
      BY <2>1, <2>3, <2>5, <2>6 DEF Meant
    <2>11. OpensOnlyIfMeant'
      BY <2>1 DEF OpensOnlyIfMeant, Speaks
    <2>12. Carried("server")' /\ Carried("client")'
      BY <2>6 DEF Carried, Follows
    <2> QED
      BY <2>7, <2>8, <2>9, <2>10, <2>11, <2>12, TwoEnds
  <1> QED
    BY <1>6, <1>7

-----------------------------------------------------------------------------
(* The theorems.                                                           *)

(* The invariant holds when an opening begins.                             *)
LEMMA InitInv ==
    ASSUME Init
    PROVE  OpeningInv
  <1>1. \A e \in Ends : /\ wire[e] = << >> /\ buf[e] = << >> /\ got[e] = << >> /\ said[e] = << >>
                        /\ closed[e] = FALSE /\ runs[e] = "none"
    BY DEF Init
  <1>2. /\ phase["client"] = "start" /\ phase["server"] \in {"peek", "head"}
        /\ phase["server"] = "peek" => case.port = "shared"
    BY TwoEnds DEF Init
  <1>3. << >> \in Seq(Tokens) /\ Members(<< >>) = {} /\ Len(<< >>) = 0
    BY NoMember
  <1>4. TypeOK
    <2>1. /\ wire \in [Ends -> Seq(Tokens)] /\ buf \in [Ends -> Seq(Tokens)]
          /\ got \in [Ends -> Seq(Tokens)] /\ said \in [Ends -> Seq(Tokens)]
      BY <1>3 DEF Init
    <2>2. /\ phase \in [Ends -> {"start", "peek", "head", "greet", "open", "failed"}]
          /\ closed \in [Ends -> BOOLEAN] /\ runs \in [Ends -> {"none", "ws", "http", "beep"}]
      BY DEF Init
    <2>3. \A e \in Ends : Len(buf[e]) <= MaxHead + Chunk
      BY <1>1, <1>3, Limits
    <2> QED
      BY <2>1, <2>2, <2>3 DEF TypeOK, Init
  <1>5. Placed
    BY <1>1, <1>2, TwoEnds DEF Placed, Before
  <1>6. Sound
    BY <1>1, <1>3, TwoEnds DEF Sound, Coming
  <1>7. Meant
    BY <1>1, TwoEnds DEF Meant
  <1>8. OpensOnlyIfMeant
    BY <1>1, TwoEnds DEF OpensOnlyIfMeant
  <1>9. ASSUME NEW e \in Ends PROVE Carried(e)
    <2>1. HeadTo(e) = << >> /\ Other(e) \in Ends
      BY <1>1, <1>2, TwoEnds DEF HeadTo
    <2>2. << >> \o << >> = << >>
      BY <1>3, Joined
    <2> QED
      BY <1>1, <2>1, <2>2 DEF Carried
  <1> QED
    BY <1>4, <1>5, <1>6, <1>7, <1>8, <1>9 DEF OpeningInv

(* No step breaks it.                                                      *)
LEMMA StepInv ==
    ASSUME OpeningInv, [Next]_vars
    PROVE  OpeningInv'
  <1>1. ASSUME NEW e \in Ends, Step(e) PROVE OpeningInv'
    <2>1. ASSUME NEW n \in 1 .. Chunk, n <= Len(wire[e]), Read(e, n) PROVE OpeningInv'
      BY <2>1, ReadInv
    <2>2. CASE Decide(e)
      BY <2>2, DecideInv
    <2>3. CASE HeadFails(e) \/ SessionEnds(e)
      BY <2>3, FailsInv
    <2>4. CASE Greet(e)
      BY <2>4, GreetInv
    <2>5. ASSUME NEW n \in 1 .. Chunk, SessionReads(e, n) PROVE OpeningInv'
      BY <2>5, SessionReadsInv
    <2> QED
      BY <1>1, <2>1, <2>2, <2>3, <2>4, <2>5 DEF Step
  <1>2. CASE ClientStarts
    BY <1>2, ClientStartsInv
  <1>3. CASE Connected
    BY <1>3, ConnectedInv
  <1>4. CASE ConnectFails \/ AcceptFails
    BY <1>4, FailsInv
  <1>5. CASE Accept
    BY <1>5, AcceptInv
  <1>6. CASE Upgraded
    BY <1>6, UpgradedInv
  <1>7. CASE UNCHANGED vars
    <2>1. /\ case' = case /\ key' = key /\ phase' = phase /\ wire' = wire /\ closed' = closed
          /\ buf' = buf /\ runs' = runs /\ got' = got /\ said' = said
      BY <1>7 DEF vars
    <2>2. TypeOK' /\ Placed'
      BY <2>1 DEF Quits, OpeningInv, TypeOK, Placed, Before, Greeting
    <2>3. Sound' /\ Meant' /\ OpensOnlyIfMeant'
      <3>1. FromClient' = FromClient /\ FromServer' = FromServer /\ (Speaks' <=> Speaks)
        BY <2>1, SameMessages
      <3> QED
        BY <2>1, <3>1 DEF Quits, RequestLine, OpeningInv, Sound, Coming, Meant, OpensOnlyIfMeant
    <2>4. ASSUME NEW e \in Ends PROVE Carried(e)'
      <3>1. HeadTo(e)' = HeadTo(e) /\ (Follows(e)' <=> Follows(e)) /\ (Before(e)' <=> Before(e))
        BY <2>1, SameMessages DEF Quits, HeadTo, Follows, Before
      <3> QED
        BY <2>1, <3>1 DEF OpeningInv, Carried
    <2> QED
      BY <2>2, <2>3, <2>4 DEF OpeningInv
  <1> QED
    BY <1>1, <1>2, <1>3, <1>4, <1>5, <1>6, <1>7, TwoEnds DEF Next, ClientStep, ServerStep

(* OpeningInv holds in every reachable state: where each end is in its     *)
(* handshake, what may be on its way to it, which protocol the server has  *)
(* settled on, and that every token sent is read, kept or on its way.      *)
THEOREM Inductive == Spec => []OpeningInv
  <1>1. Init => OpeningInv
    BY InitInv
  <1>2. OpeningInv /\ [Next]_vars => OpeningInv'
    BY StepInv
  <1> QED
    BY <1>1, <1>2, PTL DEF Spec

(* Everything has its type, and no end buffers more than the limit on a    *)
(* head and one read, whatever its peer sends (read_head, peek).           *)
THEOREM TypeCorrect == Spec => []TypeOK
  <1>1. OpeningInv => TypeOK
    BY DEF OpeningInv
  <1> QED
    BY <1>1, Inductive, PTL

(* A session reads its peer only over the protocol that the peer means,    *)
(* and a client opens only on an answer to its own key and its protocol    *)
(* (serve_shared, parse_response, read_switching_protocols).               *)
THEOREM OpensAsMeant == Spec => []OpensOnlyIfMeant
  <1>1. OpeningInv => OpensOnlyIfMeant
    BY DEF OpeningInv
  <1> QED
    BY <1>1, Inductive, PTL

(* Nothing that was read with the head, or to tell the protocols apart, is *)
(* lost to the session or read twice (KeepRest, Rewind).                   *)
THEOREM NothingLost == Spec => []NothingSwallowed
  <1>1. ASSUME OpeningInv PROVE NothingSwallowed
    <2> SUFFICES ASSUME NEW e \in Ends, runs[e] = case.kind, phase[e] # "failed",
                        ~closed[Other(e)]
                 PROVE  got[e] \o buf[e] \o wire[e] = said[Other(e)]
      BY DEF NothingSwallowed
    <2>0. (e = "client" \/ e = "server") /\ Other(e) \in Ends
      BY TwoEnds
    <2>1. ~Before(e)
      <3>1. case.kind # "none"
        BY <1>1, Types, TheCase DEF OpeningInv
      <3> QED
        BY <1>1, <3>1 DEF OpeningInv, Placed
    <2>2. e = "client" => ~closed["server"] /\ ~Quits
      BY <1>1, <2>0, <2>1, TwoEnds DEF OpeningInv, Placed, Before
    <2>3. Follows(e)
      BY <2>2 DEF Follows
    <2>4. << >> \o said[Other(e)] = said[Other(e)]
      BY <1>1, <2>0, Types, Joined DEF OpeningInv
    <2> QED
      BY <1>1, <2>1, <2>3, <2>4 DEF OpeningInv, Carried
  <1> QED
    BY <1>1, Inductive, PTL
=============================================================================

------------------------------- MODULE Base64 -------------------------------
(***************************************************************************)
(* base64.rs of vortice-proto, and the <blob> of vortice-sasl that carries *)
(* it.  Three octets of 4W bits make four characters of 3W bits; the code  *)
(* has W = 2, and W = 1 keeps the arithmetic (chunks, shifts, padding, the *)
(* bits padding must leave clear) over an alphabet of eight characters.    *)
(***************************************************************************)
EXTENDS Integers, Sequences, SequencesExt

CONSTANTS
    W,          \* a quarter of an octet's bits, and a third of a character's
    Alphabet    \* the characters, in the order of their values

ASSUME Base64Assumption == W \in Nat \ {0} /\ Len(Alphabet) = 2 ^ (3 * W)

Octet == 0 .. 2 ^ (4 * W) - 1
Six == 2 ^ (3 * W)

\* symbols no alphabet holds: padding, white space, and anything else
Pad == "="
Blank == "_"
White == {Blank, "nl"}
Bad == "*"
Quotes == {"'", "\""}

Char(v) == Alphabet[v + 1]
Chars == Range(Alphabet)
Value(c) == CHOOSE v \in 0 .. Six - 1 : Char(v) = c

None == <<>>        \* Option::None
Some(v) == <<v>>
Failed == [ok |-> FALSE]
Got(v) == [ok |-> TRUE, value |-> v]
\* the `?` of the code: go on with what was read, unless that failed
Then(result, Rest(_)) == IF result.ok THEN Rest(result.value) ELSE Failed

-----------------------------------------------------------------------------
EncodeChunk(chunk) ==
    LET at(i) == IF i <= Len(chunk) THEN chunk[i] ELSE 0
        bits == at(1) * 2 ^ (8 * W) + at(2) * 2 ^ (4 * W) + at(3)
    IN <<Char(bits \div 2 ^ (9 * W)), Char((bits \div 2 ^ (6 * W)) % Six),
         IF Len(chunk) > 1 THEN Char((bits \div Six) % Six) ELSE Pad,
         IF Len(chunk) > 2 THEN Char(bits % Six) ELSE Pad>>

\* the chunks of n a sequence splits into, the last one perhaps shorter
Chunks(s, n) ==
    [k \in 1 .. (Len(s) + n - 1) \div n |->
        SubSeq(s, n * (k - 1) + 1, IF n * k < Len(s) THEN n * k ELSE Len(s))]

Encode(data) == FlattenSeq([k \in DOMAIN Chunks(data, 3) |-> EncodeChunk(Chunks(data, 3)[k])])

Packed(text) == SelectSeq(text, LAMBDA c : c \notin White)

\* how many of a quad's characters are padding; only the last quad may have any
Padding(quad, last) ==
    IF ~last THEN 0
    ELSE (IF quad[4] = Pad THEN 1 ELSE 0) + (IF quad[3] = Pad THEN 1 ELSE 0)

\* mutant: the bits the padding leaves over are not looked at
WrongQuadOk(quad, last) == \A i \in 1 .. 4 - Padding(quad, last) : quad[i] \in Chars

QuadBits(quad, last) ==
    LET six(i) == IF i > 4 - Padding(quad, last) THEN 0 ELSE Value(quad[i])
    IN six(1) * 2 ^ (9 * W) + six(2) * 2 ^ (6 * W) + six(3) * Six + six(4)

\* a quad stands for octets: characters of the alphabet before the padding, and no bit
\* set that the padding says is not there
QuadOk(quad, last) ==
    /\ \A i \in 1 .. 4 - Padding(quad, last) : quad[i] \in Chars
    /\ QuadBits(quad, last) % 2 ^ (4 * W * Padding(quad, last)) = 0

QuadOctets(quad, last) ==
    LET bits == QuadBits(quad, last)
    IN SubSeq(<<bits \div 2 ^ (8 * W), (bits \div 2 ^ (4 * W)) % 2 ^ (4 * W), bits % 2 ^ (4 * W)>>,
              1, 3 - Padding(quad, last))

Decode(text) ==
    LET quads == Chunks(Packed(text), 4)
    IN IF Len(Packed(text)) % 4 # 0 THEN Failed
       ELSE IF \A k \in DOMAIN quads : QuadOk(quads[k], k = Len(quads))
       THEN Got(FlattenSeq([k \in DOMAIN quads |-> QuadOctets(quads[k], k = Len(quads))]))
       ELSE Failed

-----------------------------------------------------------------------------
(***************************************************************************)
(* blob.rs: <blob status='...'>Base64</blob>, as a sequence of symbols.    *)
(***************************************************************************)
Statuses == {"continue", "complete", "abort"}

\* the first place in s, from i on, that holds a symbol of T; past the end if none does
From(s, i, T) ==
    LET at == SelectInSubSeq(s, i, Len(s), LAMBDA c : c \in T)
    IN IF at = 0 THEN Len(s) + 1 ELSE at

SkipWs(s, i) ==
    LET at == SelectInSubSeq(s, i, Len(s), LAMBDA c : c \notin White)
    IN IF at = 0 THEN Len(s) + 1 ELSE at

\* white space taken off the end, and off both ends
TrimEnd(s) == SubSeq(s, 1, SelectLastInSeq(s, LAMBDA c : c \notin White))
Trim(s) == TrimEnd(SubSeq(s, SkipWs(s, 1), Len(s)))

Drop(s, n) == SubSeq(s, n + 1, Len(s))

BlobToXml(blob) ==
    <<"<", "blob">>
    \o (IF blob.status = None THEN <<>>
        ELSE <<Blank, "status", "=", "'">> \o blob.status \o <<"'">>)
    \o (IF blob.data = <<>> THEN <<Blank, "/", ">">>
        ELSE <<">">> \o Encode(blob.data) \o <<"<", "/", "blob", ">">>)

\* attribute: the value of `name` in an open tag, whichever quote it is in
Quotation(head, open) ==
    LET close == From(head, open + 1, {head[open]})
    IN IF open <= Len(head) /\ head[open] \in Quotes /\ close <= Len(head)
       THEN Some(SubSeq(head, open + 1, close - 1))
       ELSE None
AfterName(head, equals) ==
    IF equals <= Len(head) /\ head[equals] = "="
    THEN Quotation(head, SkipWs(head, equals + 1))
    ELSE None
Attribute(head, name) ==
    LET at == From(head, 1, {name})
    IN IF at <= Len(head) THEN AfterName(head, SkipWs(head, at + 1)) ELSE None

BlobWith(status, content) ==
    IF status # None /\ status[1] \notin {Some(word) : word \in Statuses} THEN Failed
    ELSE Then(content, LAMBDA data :
                Got([status |-> IF status = None THEN None ELSE status[1], data |-> data]))

\* what is between the tags, and what may follow a tag that closes itself
BlobContent(body) ==
    IF IsSuffix(<<"<", "/", "blob", ">">>, body)
    THEN Decode(Trim(SubSeq(body, 1, Len(body) - 4)))
    ELSE Failed
NoContent(body) == IF Trim(body) = <<>> THEN Got(<<>>) ELSE Failed

BlobOf(head, body) ==
    IF head # <<>> /\ Last(head) = "/"
    THEN BlobWith(Attribute(Front(head), "status"), NoContent(body))
    ELSE BlobWith(Attribute(head, "status"), BlobContent(body))

BlobAfterName(rest) ==
    LET end == From(rest, 1, {">"})
    IN IF end > Len(rest) THEN Failed
       ELSE BlobOf(TrimEnd(SubSeq(rest, 1, end - 1)), Drop(rest, end))

BlobFromXml(text) ==
    IF IsPrefix(<<"<", "blob">>, Trim(text)) THEN BlobAfterName(Drop(Trim(text), 2)) ELSE Failed
=============================================================================

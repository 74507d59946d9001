----------------------------- MODULE FrameCodec -----------------------------
(***************************************************************************)
(* Frames on the wire (vortice-proto/src/frame.rs and codec.rs): how a     *)
(* frame is encoded, and how the Decoder finds frames in octets that       *)
(* arrive in pieces of any size (Session::handle_input).                   *)
(*                                                                         *)
(* An octet is a string. The three octets of a frame type, and the END of  *)
(* the trailer, are one octet here; "x" stands for any octet that means    *)
(* nothing in a header. Numbers are written in base Base.                  *)
(***************************************************************************)
EXTENDS Naturals, Sequences, SequencesExt

CONSTANTS
    Digits,        \* the digits, a sequence of octets; ten of them in the code
    MaxNo,         \* MAX_CHANNEL_NO, MAX_MSG_NO, MAX_ANS_NO and MAX_FRAME_SIZE
    MaxSeqNo,      \* MAX_SEQ_NO
    MaxHeaderLen,  \* MAX_HEADER_LEN
    Limits,        \* values of Decoder.max_frame_size
    Streams        \* what a peer may send: frames, and the octets that arrive

Base == Len(Digits)

ASSUME CodecAssumption ==
    /\ Base > 1 /\ \A i, j \in 1 .. Base : Digits[i] = Digits[j] => i = j
    /\ MaxNo \in Nat /\ MaxSeqNo \in Nat /\ MaxHeaderLen \in Nat
    /\ Limits \subseteq 0 .. MaxNo

VARIABLES
    sent,      \* the frames the peer encoded, if it did so faithfully
    stream,    \* all octets that will arrive
    arrived,   \* how many have
    limit,     \* Decoder.max_frame_size
    inbound,   \* Session.inbound
    pending,   \* Decoder.pending
    frames,    \* the frames decoded
    status     \* "idle", "decoding", or the error that ended the session

vars == <<sent, stream, arrived, limit, inbound, pending, frames, status>>

-----------------------------------------------------------------------------
(* Encoding.                                                               *)

Trailer == <<"END", "CR", "LF">>
Kinds == {"MSG", "RPY", "ERR", "ANS", "NUL"}
HasAnsNo(kind) == kind = "ANS"

(* put_u32, and digits: how many octets it appends.                        *)
PutU32[v \in Nat] ==
    IF v < Base THEN <<Digits[v + 1]>>
    ELSE Append(PutU32[v \div Base], Digits[(v % Base) + 1])
DigitCount[v \in Nat] == IF v < Base THEN 1 ELSE 1 + DigitCount[v \div Base]

Spaced(number) == <<" ">> \o PutU32[number]

EncodeSeq(f) ==
    <<"SEQ">> \o Spaced(f.channel) \o Spaced(f.ackno) \o Spaced(f.window) \o <<"CR", "LF">>

WrongEncodeData(f) ==
    <<f.kind>> \o Spaced(f.channel) \o Spaced(f.msgno)
      \o <<" ", IF f.more THEN "*" ELSE ".">>
      \o Spaced(f.seqno) \o Spaced(Len(f.payload)) \o Spaced(f.ansno)
      \o <<"CR", "LF">> \o f.payload \o Trailer
EncodeData(f) ==
    <<f.kind>> \o Spaced(f.channel) \o Spaced(f.msgno)
      \o <<" ", IF f.more THEN "*" ELSE ".">>
      \o Spaced(f.seqno) \o Spaced(Len(f.payload))
      \o (IF HasAnsNo(f.kind) THEN Spaced(f.ansno) ELSE << >>)
      \o <<"CR", "LF">> \o f.payload \o Trailer

Encode(f) == IF f.kind = "SEQ" THEN EncodeSeq(f) ELSE EncodeData(f)

(* What encode reserves room for.                                          *)
SeqLen(f) ==
    1 + 1 + DigitCount[f.channel] + 1 + DigitCount[f.ackno] + 1 + DigitCount[f.window] + 2
DataLen(f) ==
    1 + 1 + DigitCount[f.channel] + 1 + DigitCount[f.msgno] + 2
      + 1 + DigitCount[f.seqno] + 1 + DigitCount[Len(f.payload)]
      + (IF HasAnsNo(f.kind) THEN 1 + DigitCount[f.ansno] ELSE 0)
      + 2 + Len(f.payload) + Len(Trailer)
EncodedLen(f) == IF f.kind = "SEQ" THEN SeqLen(f) ELSE DataLen(f)

(* What the constructors of frames accept: check_range on every number.    *)
SeqFrameNew(f) ==
    /\ f.kind = "SEQ"
    /\ {f.channel, f.window} \subseteq 0 .. MaxNo
    /\ f.ackno \in 0 .. MaxSeqNo
DataFrameBuild(f) ==
    /\ f.kind \in Kinds
    /\ {f.channel, f.msgno, f.ansno, Len(f.payload)} \subseteq 0 .. MaxNo
    /\ f.seqno \in 0 .. MaxSeqNo
    /\ f.more \in BOOLEAN

-----------------------------------------------------------------------------
(* Parsing a header line.                                                  *)

(* The position of the first octet o in s; 0 if there is none.             *)
Find(s, o) == SelectInSeq(s, LAMBDA x : x = o)
Error(what) == [error |-> what]
IsError(result) == DOMAIN result = {"error"}
Value(v) == [value |-> v]

(* Fields::next taken as often as it can be: the fields of a line. Two     *)
(* spaces in a row give an empty field, and so does one at the end.        *)
Fields(line) ==
    FoldLeft(LAMBDA fs, o : IF o = " " THEN Append(fs, << >>)
                            ELSE [fs EXCEPT ![Len(fs)] = Append(@, o)],
             << << >> >>, line)

DigitValue(o) == SelectInSeq(Digits, LAMBDA d : d = o) - 1
ParseU32(field, max) ==
    FoldLeft(LAMBDA r, o :
               IF IsError(r) THEN r
               ELSE IF o \notin ToSet(Digits) THEN Error("InvalidDigit")
               ELSE LET v == r.value * Base + DigitValue(o)
                    IN  IF v > max THEN Error("ValueOutOfRange") ELSE Value(v),
             Value(0), field)

ParseContinuation(field) ==
    CASE field = <<".">> -> Value(FALSE)
      [] field = <<"*">> -> Value(TRUE)
      [] OTHER -> Error(IF Len(field) = 1 THEN "InvalidContinuation" ELSE "MalformedHeader")

(* The fields in the order they are read, each with its limit; "more" is   *)
(* the continuation indicator.                                             *)
FieldsOf(kind) ==
    IF kind = "SEQ" THEN <<MaxNo, MaxSeqNo, MaxNo>>
    ELSE IF HasAnsNo(kind) THEN <<MaxNo, MaxNo, "more", MaxSeqNo, MaxNo, MaxNo>>
    ELSE <<MaxNo, MaxNo, "more", MaxSeqNo, MaxNo>>

ParseField(fs, i, kind) ==
    IF i > Len(fs) THEN Error("MissingField")
    ELSE IF fs[i] = << >> THEN Error("MissingField")
    ELSE IF kind # "SEQ" /\ i = 3 THEN ParseContinuation(fs[i])
    ELSE ParseU32(fs[i], FieldsOf(kind)[i])

(* What the parsed fields say.                                             *)
HeaderOf(kind, parsed, max) ==
    IF kind = "SEQ"
      THEN Value([kind |-> kind, channel |-> parsed[1].value, ackno |-> parsed[2].value,
                  window |-> parsed[3].value])
    ELSE IF parsed[5].value > max THEN Error("FrameTooLarge")
    ELSE Value([kind |-> kind, channel |-> parsed[1].value, msgno |-> parsed[2].value,
                more |-> parsed[3].value, seqno |-> parsed[4].value,
                size |-> parsed[5].value,
                ansno |-> IF HasAnsNo(kind) THEN parsed[6].value ELSE 0])

(* The first field that is wrong, a field too many, or the header.         *)
ParseFields(kind, fs, parsed, max) ==
    IF \E i \in 1 .. Len(parsed) : IsError(parsed[i])
      THEN parsed[SelectInSeq(parsed, IsError)]
    ELSE IF Len(fs) > Len(parsed) THEN Error("MalformedHeader")
    ELSE HeaderOf(kind, parsed, max)

(* parse_header: the first thing wrong with the line, or what it says.     *)
ParseHeader(line, max) ==
    LET fs == Fields(SubSeq(line, 3, Len(line)))
    IN  IF Len(line) < 2 \/ line[2] # " " THEN Error("MalformedHeader")
        ELSE IF line[1] \notin Kinds \cup {"SEQ"} THEN Error("UnknownFrameType")
        ELSE ParseFields(line[1], fs,
                         [i \in 1 .. Len(FieldsOf(line[1])) |-> ParseField(fs, i, line[1])],
                         max)

-----------------------------------------------------------------------------
(* Decoder::decode, from the state of the decoder and the octets it has:   *)
(* what it returns ("out": a frame, an error, or NoFrame), and both after  *)
(* it.                                                                     *)

NoHeader == [kind |-> "none"]
NoFrame == [none |-> TRUE]
Drop(s, n) == SubSeq(s, n + 1, Len(s))
Least(a, b) == IF a < b THEN a ELSE b

(* The line that ends the first MAX_HEADER_LEN octets, if it is there.     *)
LineEnd(src) == Find(SubSeq(src, 1, Least(Len(src), MaxHeaderLen)), "LF")

DataFrame(h, payload) ==
    [kind |-> h.kind, channel |-> h.channel, msgno |-> h.msgno, more |-> h.more,
     seqno |-> h.seqno, ansno |-> h.ansno, payload |-> payload]

(* The payload and the trailer of a frame whose header is known.           *)
WrongTakeFrame(h, src) ==
    IF Len(src) < h.size + Len(Trailer)
      THEN [out |-> NoFrame, pending |-> NoHeader, src |-> src]
    ELSE IF SubSeq(src, h.size + 1, h.size + Len(Trailer)) # Trailer
      THEN [out |-> Error("MissingTrailer"), pending |-> h, src |-> src]
    ELSE [out |-> DataFrame(h, SubSeq(src, 1, h.size)),
          pending |-> NoHeader, src |-> Drop(src, h.size + Len(Trailer))]
TakeFrame(h, src) ==
    IF Len(src) < h.size + Len(Trailer)
      THEN [out |-> NoFrame, pending |-> h, src |-> src]
    ELSE IF SubSeq(src, h.size + 1, h.size + Len(Trailer)) # Trailer
      THEN [out |-> Error("MissingTrailer"), pending |-> h, src |-> src]
    ELSE [out |-> DataFrame(h, SubSeq(src, 1, h.size)),
          pending |-> NoHeader, src |-> Drop(src, h.size + Len(Trailer))]

HeaderAbsent(src) == IF Len(src) >= MaxHeaderLen THEN Error("HeaderTooLong") ELSE NoFrame

Decoded(out, src) == [out |-> out, pending |-> NoHeader, src |-> src]

(* With the line parsed; rest is what follows it.                          *)
AfterHeader(parsed, src, rest) ==
    IF IsError(parsed) THEN Decoded(parsed, src)
    ELSE IF parsed.value.kind = "SEQ" THEN Decoded(parsed.value, rest)
    ELSE TakeFrame(parsed.value, rest)

AfterLine(lf, src, max) ==
    IF lf = 0 THEN Decoded(HeaderAbsent(src), src)
    ELSE IF lf = 1 \/ src[lf - 1] # "CR" THEN Decoded(Error("BareNewlineInHeader"), src)
    ELSE AfterHeader(ParseHeader(SubSeq(src, 1, lf - 2), max), src, Drop(src, lf))

Decode(h, src, max) ==
    IF h # NoHeader THEN TakeFrame(h, src) ELSE AfterLine(LineEnd(src), src, max)

(* frame_boundary: the length of the frame at the front of src; 0 if there *)
(* is no whole one.                                                        *)
WrongBoundary(lf, parsed, have) ==
    IF IsError(parsed) THEN 0
    ELSE IF parsed.value.kind = "SEQ" THEN lf
    ELSE IF have >= lf + parsed.value.size THEN lf + parsed.value.size ELSE 0
Boundary(lf, parsed, have) ==
    IF IsError(parsed) THEN 0
    ELSE IF parsed.value.kind = "SEQ" THEN lf
    ELSE IF have >= lf + parsed.value.size + Len(Trailer)
      THEN lf + parsed.value.size + Len(Trailer) ELSE 0
BoundaryAfter(lf, src) ==
    IF lf < 2 \/ src[lf - 1] # "CR" THEN 0
    ELSE Boundary(lf, ParseHeader(SubSeq(src, 1, lf - 2), MaxNo), Len(src))
FrameBoundary(src) == BoundaryAfter(LineEnd(src), src)

-----------------------------------------------------------------------------
(* Session::handle_input, with the transport handing over any piece.       *)

Init ==
    /\ \E s \in Streams : sent = s.frames /\ stream = s.octets
    /\ arrived = 0
    /\ limit \in Limits
    /\ inbound = << >>
    /\ pending = NoHeader
    /\ frames = << >>
    /\ status = "idle"

Read(n) ==
    /\ status = "idle"
    /\ arrived' = arrived + n
    /\ inbound' = inbound \o SubSeq(stream, arrived + 1, arrived + n)
    /\ status' = "decoding"
    /\ UNCHANGED <<sent, stream, limit, pending, frames>>

(* One turn of the loop.                                                   *)
Handle(r) ==
    /\ inbound' = r.src
    /\ pending' = r.pending
    /\ status' = IF IsError(r.out) THEN r.out.error
                 ELSE IF r.out = NoFrame THEN "idle" ELSE "decoding"
    /\ frames' = IF IsError(r.out) \/ r.out = NoFrame THEN frames
                 ELSE Append(frames, r.out)
DecodeNext ==
    /\ status = "decoding"
    /\ Handle(Decode(pending, inbound, limit))
    /\ UNCHANGED <<sent, stream, arrived, limit>>

Next == DecodeNext \/ \E n \in 1 .. Len(stream) - arrived : Read(n)

Spec == Init /\ [][Next]_vars

-----------------------------------------------------------------------------
(* Properties.                                                             *)

(* The decoder hands out only frames that DataFrame::new and SeqFrame::new *)
(* accept: every number is within its limit, however it was written.       *)
TypeOK ==
    /\ arrived \in 0 .. Len(stream)
    /\ limit \in Limits
    /\ \A i \in 1 .. Len(frames) :
         LET f == frames[i]
         IN  SeqFrameNew(f) \/ (DataFrameBuild(f) /\ Len(f.payload) <= limit)

(* Everything decode makes of octets that are there all at once.           *)
Turn(r, d) ==
    IF r.status # "decoding" THEN r
    ELSE IF IsError(d.out) THEN [r EXCEPT !.status = d.out.error]
    ELSE [pending |-> d.pending, src |-> d.src,
          status |-> IF d.out = NoFrame THEN "idle" ELSE "decoding",
          frames |-> IF d.out = NoFrame THEN r.frames ELSE Append(r.frames, d.out)]
AtOnce(octets) ==
    FoldLeft(LAMBDA r, o : Turn(r, Decode(r.pending, r.src, limit)),
             [pending |-> NoHeader, src |-> octets, frames |-> << >>,
              status |-> "decoding"],
             octets \o <<"once more">>)

(* How the octets were cut makes no difference: what has been decoded, and *)
(* the error, are those of the octets so far handed over in one piece. An  *)
(* error is not found later because a line came in two reads, and no octet *)
(* of a frame that straddles two reads is lost.                            *)
SameAs(whole) ==
    /\ frames = whole.frames
    /\ status = whole.status
    /\ status = "idle" => pending = whole.pending /\ inbound = whole.src
CutsDoNotMatter ==
    status # "decoding" => SameAs(AtOnce(SubSeq(stream, 1, arrived)))

(* What was encoded is decoded, all of it once it has arrived, whatever    *)
(* the payload holds: a payload that contains a trailer, a line end or a   *)
(* frame type changes nothing. encode writes as much as it makes room for. *)
Fits(f) == f.kind = "SEQ" \/ Len(f.payload) <= limit
Faithful == stream = FlattenSeq([i \in 1 .. Len(sent) |-> Encode(sent[i])])
RoundTrip ==
    Faithful /\ (\A i \in 1 .. Len(sent) : Fits(sent[i])) =>
        /\ \A i \in 1 .. Len(sent) : Len(Encode(sent[i])) = EncodedLen(sent[i])
        /\ status \in {"idle", "decoding"}
        /\ IsPrefix(frames, sent)
        /\ arrived = Len(stream) /\ status = "idle" => frames = sent /\ inbound = << >>

(* The decoder and frame_boundary agree on where a frame ends, which is    *)
(* what lets WsStream put one BEEP frame into each WebSocket frame. A      *)
(* wrong trailer is the decoder's to find.                                 *)
EndsAt(end, d) ==
    IF IsError(d.out) THEN end # 0 => d.out = Error("MissingTrailer")
    ELSE end = IF d.out = NoFrame THEN 0 ELSE Len(inbound) - Len(d.src)
BoundaryAgrees ==
    pending = NoHeader /\ status = "decoding" =>
        EndsAt(FrameBoundary(inbound), Decode(NoHeader, inbound, MaxNo))
=============================================================================

------------------------------ MODULE Documents ------------------------------
(***************************************************************************)
(* The documents of channel zero and the payloads of the other channels:   *)
(* management.rs, greeting.rs, xml.rs and mime.rs of vortice-proto, the    *)
(* <blob> of vortice-sasl, and the blank line the connection puts before   *)
(* a payload.  One document goes its way: it is rendered, perhaps spelt    *)
(* differently by another implementation, perhaps damaged, and read.       *)
(*                                                                         *)
(* A text is a sequence of symbols: the markup of XML, the words of BEEP,  *)
(* the digits, and a few data symbols, among them the ones XML escapes.    *)
(***************************************************************************)
EXTENDS Base64, FiniteSets

CONSTANTS
    MaxU32,         \* the largest number a u32 attribute holds
    MaxDepth,       \* MAX_DEPTH: the deepest nesting read
    Messages,       \* the documents to explore
    MaxRespellings, \* bound: how many of its liberties a spelling takes
    Damage          \* the ways a document may be damaged

ASSUME DocumentsAssumption ==
    /\ MaxU32 \in Nat /\ MaxDepth \in Nat /\ MaxRespellings \in Nat
    /\ Damage \subseteq {"cut", "replace", "drop"}

-----------------------------------------------------------------------------
(***************************************************************************)
(* Rendering.                                                              *)
(***************************************************************************)
Digits == <<"0", "1", "2", "3", "4", "5", "6", "7", "8", "9">>
Digit(n) == Digits[n + 1]
DigitValue(d) == CHOOSE n \in 0 .. 9 : Digit(n) = d

RECURSIVE PushU32(_)
PushU32(n) == (IF n < 10 THEN <<>> ELSE PushU32(n \div 10)) \o <<Digit(n % 10)>>

\* what decode_entities makes of the name after an ampersand
Entity == [e \in {"amp;", "lt;", "gt;", "apos;", "quot;", "#39;"} |->
            CASE e = "amp;" -> "&" [] e = "lt;" -> "<" [] e = "gt;" -> ">"
              [] e \in {"apos;", "#39;"} -> "'" [] e = "quot;" -> "\""]

\* the characters that cannot appear literally, each with its entity
Escapes == [c \in {"&", "<", ">", "'", "\""} |->
            CHOOSE e \in {"amp;", "lt;", "gt;", "apos;", "quot;"} : Entity[e] = c]

\* mutant: the ampersand is left as it is
WrongEscape(value) ==
    FlattenSeq([i \in DOMAIN value |->
        IF value[i] \in DOMAIN Escapes \ {"&"} THEN <<"&", Escapes[value[i]]>> ELSE <<value[i]>>])

Escape(value) ==
    FlattenSeq([i \in DOMAIN value |->
        IF value[i] \in DOMAIN Escapes THEN <<"&", Escapes[value[i]]>> ELSE <<value[i]>>])

Attr(name, value) == <<Blank, name, "=", "'">> \o Escape(value) \o <<"'">>
AttrIf(name, option) == IF option = None THEN <<>> ELSE Attr(name, option[1])

EndTag(name) == <<"<", "/", name, ">">>

RenderProfile(p) ==
    <<"<", "profile">> \o Attr("uri", p.uri)
    \o (IF p.encoding = "base64" THEN Attr("encoding", <<"base64">>) ELSE <<>>)
    \o (IF p.content = None THEN <<Blank, "/", ">">>
        ELSE <<">", "<", "!", "[CDATA[">> \o p.content[1] \o <<"]]", ">">> \o EndTag("profile"))

Lines(items, Render(_)) ==
    FlattenSeq([i \in DOMAIN items |-> <<Blank>> \o Render(items[i]) \o <<"nl">>])

RenderText(m, tag) ==
    AttrIf("xml:lang", m.lang)
    \o (IF m.text = None THEN <<Blank, "/", ">", "nl">>
        ELSE <<">">> \o Escape(m.text[1]) \o EndTag(tag) \o <<"nl">>)

RenderGreetingProfile(uri) == <<"<", "profile">> \o Attr("uri", uri) \o <<Blank, "/", ">">>

RenderGreeting(m) ==
    <<"<", "greeting">> \o AttrIf("features", m.features) \o AttrIf("localize", m.localize)
    \o (IF m.profiles = <<>> THEN <<Blank, "/", ">", "nl">>
        ELSE <<">", "nl">> \o Lines(m.profiles, RenderGreetingProfile)
             \o EndTag("greeting") \o <<"nl">>)

Render(m) ==
    CASE m.kind = "start" ->
           <<"<", "start">> \o Attr("number", PushU32(m.number))
           \o AttrIf("serverName", m.server_name) \o <<">", "nl">>
           \o Lines(m.profiles, RenderProfile) \o EndTag("start") \o <<"nl">>
      [] m.kind = "close" ->
           <<"<", "close">> \o Attr("number", PushU32(m.number))
           \o Attr("code", PushU32(m.code)) \o RenderText(m, "close")
      [] m.kind = "profile" -> RenderProfile(m.profile) \o <<"nl">>
      [] m.kind = "ok" -> <<"<", "ok", Blank, "/", ">">>
      [] m.kind = "error" ->
           <<"<", "error">> \o Attr("code", PushU32(m.code)) \o RenderText(m, "error")
      [] m.kind = "greeting" -> RenderGreeting(m)

BeepXml == <<"Content-Type", ":", Blank, "application/beep+xml">>
ToPayload(m) == BeepXml \o <<"nl", "nl">> \o Render(m)

\* with_mime: the blank line that ends an empty header section
WithMime(payload) == <<"nl">> \o payload

-----------------------------------------------------------------------------
(***************************************************************************)
(* mime::split and mime::header.                                           *)
(***************************************************************************)
\* where `pat` first occurs in s at or after i; past the end if it does not
Find(s, i, pat) ==
    LET at == {j \in i .. Len(s) - Len(pat) + 1 : SubSeq(s, j, j + Len(pat) - 1) = pat}
    IN IF at = {} THEN Len(s) + 1 ELSE Min(at)

Split(payload) ==
    LET at == Find(payload, 1, <<"nl", "nl">>)
    IN IF IsPrefix(<<"nl">>, payload) THEN [headers |-> <<>>, body |-> Tail(payload)]
       ELSE IF at <= Len(payload)
       THEN [headers |-> SubSeq(payload, 1, at - 1), body |-> Drop(payload, at + 1)]
       ELSE [headers |-> <<>>, body |-> payload]

\* the value of the first line named `name`, upper or lower case
Header(headers, names) ==
    LET starts == {1} \cup {i + 1 : i \in {j \in DOMAIN headers : headers[j] = "nl"}}
        found == {i \in starts : /\ i < Len(headers) /\ headers[i] \in names
                                 /\ headers[i + 1] = ":"}
    IN IF found = {} THEN None
       ELSE LET i == Min(found)
            IN Some(Trim(SubSeq(headers, i + 2, From(headers, i, {"nl"}) - 1)))

BodyOf(payload) == Split(payload).body

-----------------------------------------------------------------------------
(***************************************************************************)
(* The XML reader.  Every operator takes the text and a position and gives *)
(* what it read with the position after it, or Failed.                     *)
(***************************************************************************)
Past(s, i, pat) == IF Find(s, i, pat) > Len(s) THEN Failed ELSE Got(Find(s, i, pat) + Len(pat))
At(s, i, pat) == i + Len(pat) - 1 <= Len(s) /\ SubSeq(s, i, i + Len(pat) - 1) = pat
Is(s, i, c) == i <= Len(s) /\ s[i] = c

\* from a position where white space has been skipped
RECURSIVE SkipProlog(_, _)
SkipProlog(s, i) ==
    IF Is(s, i, "<") /\ i < Len(s) /\ s[i + 1] \in {"?", "!"}
    THEN Then(Past(s, i, IF s[i + 1] = "?" THEN <<"?", ">">>
                         ELSE IF At(s, i, <<"<", "!", "--">>) THEN <<"--", ">">>
                         ELSE <<">">>),
              LAMBDA past : SkipProlog(s, SkipWs(s, past)))
    ELSE Got(i)

NameEnd(s, i) == From(s, i, White \cup {"/", ">", "=", "<"})

RECURSIVE EntityAt(_, _)
EntityAt(raw, at) ==
    IF at > Len(raw) THEN Got(raw)
    ELSE IF at < Len(raw) /\ raw[at + 1] \in DOMAIN Entity
    THEN LET rest == Drop(raw, at + 1)
         IN Then(EntityAt(rest, From(rest, 1, {"&"})),
                 LAMBDA decoded : Got(SubSeq(raw, 1, at - 1) \o <<Entity[raw[at + 1]]>> \o decoded))
    ELSE Failed
DecodeEntities(raw) == EntityAt(raw, From(raw, 1, {"&"}))

Quoted(s, i, close) ==
    IF close > Len(s) THEN Failed
    ELSE Then(DecodeEntities(SubSeq(s, i + 1, close - 1)),
              LAMBDA value : Got([value |-> value, at |-> close + 1]))
ReadAttrValue(s, i) ==
    IF i <= Len(s) /\ s[i] \in Quotes THEN Quoted(s, i, From(s, i + 1, {s[i]})) ELSE Failed

\* the attributes of a start tag from position i on, white space skipped, and where they
\* end: at the bracket, or at the slash before it
RECURSIVE ReadAttrs(_, _, _), ReadAttr(_, _, _, _)
ReadAttrs(s, i, attrs) ==
    IF i > Len(s) THEN Failed
    ELSE IF s[i] \in {"/", ">"} THEN Got([attrs |-> attrs, at |-> i])
    ELSE ReadAttr(s, i, NameEnd(s, i), attrs)
ReadAttr(s, i, end, attrs) ==
    LET equals == SkipWs(s, end)
    IN IF end > i /\ Is(s, equals, "=")
       THEN Then(ReadAttrValue(s, SkipWs(s, equals + 1)),
                 LAMBDA read : ReadAttrs(s, SkipWs(s, read.at),
                                         Append(attrs, <<SubSeq(s, i, end - 1), read.value>>)))
       ELSE Failed

RECURSIVE ParseElement(_, _, _), ParseTag(_, _, _, _), ParseContent(_, _, _, _)
ParseElement(s, i, depth) ==
    IF depth > MaxDepth \/ ~Is(s, i, "<") THEN Failed
    ELSE ParseTag(s, i + 1, NameEnd(s, i + 1), depth)

AfterTag(s, at, element, depth) ==
    IF s[at] = ">" THEN ParseContent(s, at + 1, element, depth)
    ELSE IF Is(s, at + 1, ">") THEN Got([element |-> element, at |-> at + 2])
    ELSE Failed
ParseTag(s, i, end, depth) ==
    IF end = i THEN Failed
    ELSE Then(ReadAttrs(s, SkipWs(s, end), <<>>),
              LAMBDA tag : AfterTag(s, tag.at,
                                    [name |-> SubSeq(s, i, end - 1), attrs |-> tag.attrs,
                                     children |-> <<>>, text |-> <<>>], depth))

\* the end tag of an element, at position i
Closed(s, i, element) ==
    LET end == NameEnd(s, i + 2)
        at == SkipWs(s, end)
    IN IF SubSeq(s, i + 2, end - 1) = element.name /\ Is(s, at, ">")
       THEN Got([element |-> element, at |-> at + 1])
       ELSE Failed

\* mutant: an element that is still open when the text ends is closed there
WrongContentEnds(element, i) == Got([element |-> element, at |-> i])

\* the text ends with the element still open
ContentEnds(element, i) == Failed

WithText(element, text) == [element EXCEPT !.text = @ \o text]

ParseContent(s, i, element, depth) ==
    IF At(s, i, <<"<", "/">>) THEN Closed(s, i, element)
    ELSE IF At(s, i, <<"<", "!", "--">>)
    THEN Then(Past(s, i, <<"--", ">">>),
              LAMBDA past : ParseContent(s, past, element, depth))
    ELSE IF At(s, i, <<"<", "!", "[CDATA[">>)
    THEN Then(Past(s, i + 3, <<"]]", ">">>),
              LAMBDA past : ParseContent(s, past,
                              WithText(element, SubSeq(s, i + 3, past - 3)), depth))
    ELSE IF i > Len(s) THEN ContentEnds(element, i)
    ELSE IF s[i] = "<"
    THEN Then(ParseElement(s, i, depth + 1),
              LAMBDA child : ParseContent(s, child.at,
                               [element EXCEPT !.children = Append(@, child.element)], depth))
    ELSE LET end == From(s, i, {"<"})
         IN Then(DecodeEntities(SubSeq(s, i, end - 1)),
                 LAMBDA text : ParseContent(s, end, WithText(element, text), depth))

Parse(s) ==
    Then(SkipProlog(s, SkipWs(s, 1)), LAMBDA start :
        Then(ParseElement(s, start, 0), LAMBDA root :
            Then(SkipProlog(s, SkipWs(s, root.at)), LAMBDA end :
                IF end > Len(s) THEN Got(root.element) ELSE Failed)))

-----------------------------------------------------------------------------
(***************************************************************************)
(* Reading a management message or a greeting out of an element.           *)
(***************************************************************************)
Lookup(element, name) ==
    LET at == SelectInSeq(element.attrs, LAMBDA attr : attr[1] = <<name>>)
    IN IF at = 0 THEN None ELSE Some(element.attrs[at][2])

ChildrenNamed(element, name) == SelectSeq(element.children, LAMBDA child : child.name = <<name>>)

U32(digits) == FoldLeft(LAMBDA acc, d : 10 * acc + DigitValue(d), 0, digits)
ParseU32(raw) ==
    IF raw # None /\ raw[1] # <<>> /\ Range(raw[1]) \subseteq Range(Digits) /\ U32(raw[1]) <= MaxU32
    THEN Got(U32(raw[1])) ELSE Failed
AttrU32(element, name) == ParseU32(Lookup(element, name))

NonEmpty(text) == IF text = <<>> THEN None ELSE Some(text)

ProfileOf(element) ==
    LET uri == Lookup(element, "uri")
        encoding == Lookup(element, "encoding")
    IN IF uri # None /\ encoding \in {None, Some(<<"none">>), Some(<<"base64">>)}
       THEN Got([uri |-> uri[1],
                 encoding |-> IF encoding = Some(<<"base64">>) THEN "base64" ELSE "none",
                 content |-> NonEmpty(element.text)])
       ELSE Failed

All(results) == \A k \in DOMAIN results : results[k].ok
Values(results) == [k \in DOMAIN results |-> results[k].value]

GreetingOf(root) ==
    LET children == ChildrenNamed(root, "profile")
        uris == [k \in DOMAIN children |-> Lookup(children[k], "uri")]
    IN [kind |-> "greeting", profiles |-> FlattenSeq(uris),
        features |-> Lookup(root, "features"), localize |-> Lookup(root, "localize")]

StartOf(root, number, offered) ==
    IF All(offered)
    THEN Got([kind |-> "start", number |-> number,
              server_name |-> Lookup(root, "serverName"), profiles |-> Values(offered)])
    ELSE Failed
Offered(children) == [k \in DOMAIN children |-> ProfileOf(children[k])]

Lang(root) == Lookup(root, "xml:lang")
TextOf(root) == NonEmpty(Trim(root.text))

\* Message::from_xml and Greeting::from_payload, on the root of the document
MessageOf(root) ==
    CASE root.name = <<"start">> ->
           Then(AttrU32(root, "number"), LAMBDA number :
                StartOf(root, number, Offered(ChildrenNamed(root, "profile"))))
      [] root.name = <<"close">> ->
           Then(AttrU32(root, "number"), LAMBDA number :
                Then(AttrU32(root, "code"), LAMBDA code :
                     Got([kind |-> "close", number |-> number, code |-> code,
                          lang |-> Lang(root), text |-> TextOf(root)])))
      [] root.name = <<"profile">> ->
           Then(ProfileOf(root), LAMBDA profile : Got([kind |-> "profile", profile |-> profile]))
      [] root.name = <<"ok">> -> Got([kind |-> "ok"])
      [] root.name = <<"error">> ->
           Then(AttrU32(root, "code"), LAMBDA code :
                Got([kind |-> "error", code |-> code, lang |-> Lang(root), text |-> TextOf(root)]))
      [] OTHER -> Failed

FromElement(reader, root) ==
    IF reader = "message" THEN MessageOf(root)
    ELSE IF root.name = <<"greeting">> THEN Got(GreetingOf(root))
    ELSE Failed

\* from_payload of Message and of Greeting: `reader` says which
FromPayload(reader, payload) ==
    IF Header(Split(payload).headers, {"Content-Type", "content-type"})
         # Some(<<"application/beep+xml">>)
    THEN Failed
    ELSE Then(Parse(Split(payload).body), LAMBDA root : FromElement(reader, root))

-----------------------------------------------------------------------------
(***************************************************************************)
(* The way of one document.                                                *)
(***************************************************************************)
VARIABLES
    message,    \* what the sender means
    wire,       \* the symbols under way
    spelt,      \* the liberties another implementation's spelling has taken
    damaged,    \* how the symbols were damaged, if they were
    reader,     \* what the receiver takes them for: "message" or "greeting"
    read        \* what the receiver makes of them

vars == <<message, wire, spelt, damaged, reader, read>>

Unread == [unread |-> TRUE]

Init ==
    /\ message \in Messages
    /\ wire = <<>> /\ spelt = {} /\ damaged = "no" /\ reader = "message" /\ read = Unread

\* the sender renders the document
Send ==
    /\ wire = <<>> /\ read = Unread
    /\ wire' = CASE message.kind = "blob" -> BlobToXml(message)
                 [] message.kind = "payload" -> WithMime(message.data)
                 [] OTHER -> ToPayload(message)
    /\ UNCHANGED <<message, spelt, damaged, reader, read>>

Insert(s, i, t) == SubSeq(s, 1, i) \o t \o Drop(s, i)

\* piggybacked content is carried as it is; everything around it may be spelt anew
Carried(s, i) ==
    LET open == SelectLastInSubSeq(s, 1, i, LAMBDA c : c = "[CDATA[")
    IN open # 0 /\ i < Find(s, open, <<"]]", ">">>)
Each(s, Spell(_)) ==
    FlattenSeq([i \in DOMAIN s |-> IF Carried(s, i) THEN <<s[i]>> ELSE Spell(i)])

\* the liberties a spelling may take: the quotes, the space inside tags, what surrounds
\* the element, comments in it, further headers, lines folded in Base64
Managed == message.kind \notin {"blob", "payload"}
Body == Len(BeepXml) + 2

Respelt(how) ==
    CASE how = "quotes" -> Each(wire, LAMBDA i : IF wire[i] = "'" THEN <<"\"">> ELSE <<wire[i]>>)
      [] how = "spaces" ->
           Each(wire, LAMBDA i : IF wire[i] \in Quotes /\ Is(wire, i + 1, ">")
                                 THEN <<wire[i], Blank>> ELSE <<wire[i]>>)
      [] how = "prolog" -> Insert(wire, Find(wire, 1, <<"nl", "nl">>) + 1,
                                  <<"<", "?", "a", "?", ">", "nl", "<", "!", "a", ">">>)
      [] how = "comment" ->
           Each(wire, LAMBDA i : IF At(wire, i, <<"<", "/">>)
                                 THEN <<"<", "!", "--", "a", ">", "--", ">", "<">> ELSE <<wire[i]>>)
      [] how = "trailer" -> wire \o <<"nl", "<", "!", "--", "a", "--", ">", Blank>>
      [] how = "header" -> <<"X-Header", ":", "a", "nl">> \o wire
      [] how = "folded" ->
           Each(wire, LAMBDA i : IF wire[i] \in Chars /\ Is(wire, i + 1, Pad)
                                 THEN <<wire[i], "nl">> ELSE <<wire[i]>>)

Liberties ==
    IF message.kind = "blob" THEN {"quotes", "spaces", "folded"}
    ELSE IF Managed THEN {"quotes", "spaces", "prolog", "comment", "trailer", "header"}
    ELSE {}

\* another implementation spells the same document its own way
Respell(how) ==
    /\ wire # <<>> /\ read = Unread /\ damaged = "no"
    /\ how \notin spelt /\ Cardinality(spelt) < MaxRespellings
    /\ wire' = Respelt(how)
    /\ spelt' = spelt \cup {how}
    /\ UNCHANGED <<message, damaged, reader, read>>

\* the symbols are damaged: cut short, or one of a blob's content changed or lost
Break(how) ==
    /\ wire # <<>> /\ read = Unread /\ damaged = "no" /\ spelt = {}
    /\ CASE how = "cut" -> Managed /\ \E n \in 1 .. Len(TrimEnd(wire)) - 1 : wire' = SubSeq(wire, 1, n)
         [] how = "replace" ->
              /\ message.kind = "blob"
              /\ \E i \in DOMAIN wire, c \in Chars \cup {Pad, Bad} :
                   wire[i] \in Chars \cup {Pad} /\ wire[i] # c /\ wire' = [wire EXCEPT ![i] = c]
         [] how = "drop" ->
              /\ message.kind = "blob"
              /\ \E i \in DOMAIN wire : wire[i] \in Chars \cup {Pad} /\ wire' = RemoveAt(wire, i)
    /\ damaged' = how
    /\ UNCHANGED <<message, spelt, reader, read>>

\* the receiver reads it, on channel zero as the greeting it waits for or as a message
Receive(as) ==
    /\ wire # <<>> /\ read = Unread
    /\ Managed \/ as = reader
    /\ reader' = as
    /\ read' = CASE message.kind = "blob" -> BlobFromXml(wire)
                 [] message.kind = "payload" -> Got(BodyOf(wire))
                 [] OTHER -> FromPayload(as, wire)
    /\ UNCHANGED <<message, wire, spelt, damaged>>

Next ==
    \/ Send
    \/ \E how \in Liberties : Respell(how)
    \/ \E how \in Damage : Break(how)
    \/ \E as \in {"message", "greeting"} : Receive(as)

Spec == Init /\ [][Next]_vars

-----------------------------------------------------------------------------
(***************************************************************************)
(* What the reader is owed of a document: text is taken without the space  *)
(* around it, and an empty text or content is no text or content.          *)
(***************************************************************************)
MeantProfile(p) == [p EXCEPT !.content = IF @ = None THEN None ELSE NonEmpty(@[1])]

Meant ==
    CASE message.kind \in {"close", "error"} ->
           [message EXCEPT !.text = IF @ = None THEN None ELSE NonEmpty(Trim(@[1]))]
      [] message.kind = "profile" -> [message EXCEPT !.profile = MeantProfile(@)]
      [] message.kind = "start" ->
           [message EXCEPT !.profiles = [k \in DOMAIN @ |-> MeantProfile(@[k])]]
      [] message.kind = "payload" -> message.data
      [] message.kind = "blob" -> [status |-> message.status, data |-> message.data]
      [] OTHER -> message

\* a number another implementation writes may be too large for this one
Fits == message.kind \in {"start", "close"} => message.number <= MaxU32
\* a greeting is no message, and a message no greeting
Suited == Managed => (reader = "greeting") = (message.kind = "greeting")
Expected == IF Fits /\ Suited THEN Got(Meant) ELSE Failed

Arrived == read # Unread

\* What was read is a document of a known kind, and its numbers are 32-bit ones.
TypeOK ==
    /\ damaged \in Damage \cup {"no"}
    /\ Arrived /\ read.ok /\ Managed /\ read.value.kind \in {"start", "close"} =>
         read.value.number \in 0 .. MaxU32

(***************************************************************************)
(* Every document the library renders, it reads back as it was meant: no   *)
(* name, uri or text is mistaken for markup, whatever characters it holds, *)
(* and no payload for headers, whatever blank lines it holds.  The         *)
(* liberties other implementations take with quotes, space, comments and   *)
(* headers change nothing. A number that does not fit is refused, and so   *)
(* are a greeting where a message is due and a message where a greeting is.*)
(***************************************************************************)
ReadAsMeant ==
    Arrived /\ damaged = "no" => read = Expected

\* A document cut short anywhere before its last symbol is refused, and never read as a
\* shorter one.
CutIsRefused ==
    Arrived /\ damaged = "cut" => ~read.ok

\* Base64 is canonical: a blob with one character changed or lost is refused or carries
\* other octets, so two ends never take different texts for the same octets.
Base64Canonical ==
    Arrived /\ damaged \in {"replace", "drop"} => read # Got(Meant)

\* What the comment on `escape` says: no value put into a document reaches into its
\* markup, piggybacked content included.
ContentCarried ==
    Arrived /\ message.kind = "profile" /\ damaged = "no" /\ spelt = {} => read = Expected
=============================================================================

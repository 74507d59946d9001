------------------------------ MODULE Opening ------------------------------
(***************************************************************************)
(* How a transport becomes the stream of a session: the opening handshake  *)
(* of a WebSocket (vortice-ws handshake.rs, client.rs, server.rs), of a    *)
(* tunnel through HTTP (vortice-http client.rs, server.rs), and the port   *)
(* that WebSocket and plain BEEP share, with the octets read too early put *)
(* back in front (vortice rewind.rs).                                      *)
(*                                                                         *)
(* A transport carries tokens: a header field, an end of line, a piece of  *)
(* a greeting. The first line of a request is two, so that a read may be   *)
(* cut inside the octets that tell the protocols apart. A head ends at two *)
(* ends of line, and so does the MIME header inside a greeting.            *)
(***************************************************************************)
EXTENDS Naturals, Sequences

CONSTANTS
    Cases,      \* the openings to look at: records [kind, port, fault, early]
    Keys,       \* values of Sec-WebSocket-Key
    MaxHead,    \* MAX_HEAD
    Chunk,      \* the most one read returns
    Want        \* how much peek reads: 4 octets, two tokens or more

Faults == {"none", "post", "nokey", "version", "endless", "quits", "half",
           "wrongkey", "status", "proxy"}

ASSUME OpeningAssumption ==
    /\ \A c \in Cases : /\ c.kind \in {"ws", "http", "beep"}
                        /\ c.port \in {"ws", "shared", "http"}
                        /\ c.fault \in Faults /\ c.early \in BOOLEAN
    /\ \A c \in Cases : /\ c.kind = "beep" => c.fault = "none"
                        /\ c.fault \in {"nokey", "version", "wrongkey"} => c.kind = "ws"
                        /\ c.fault = "post" => c.port # "http"
                        /\ c.fault = "proxy" => c.port = "http"
                        /\ c.fault = "wrongkey" => \A k \in Keys : Keys # {k}
    /\ {MaxHead, Chunk, Want} \subseteq Nat \ {0} /\ Want \in 2 .. MaxHead

Ends == {"client", "server"}
Other(e) == CHOOSE o \in Ends : o # e

VARIABLES
    case,     \* which opening this is
    key,      \* the key the client chose
    phase,    \* of each end: "start", "peek", "head", "greet", "open", "failed"
    wire,     \* wire[e]: what is on its way to e
    closed,   \* closed[e]: e has dropped its end
    buf,      \* what e has read and nobody has consumed
    runs,     \* the protocol e has settled on, or "none"
    got,      \* what the session of e has read
    said      \* ghost: what e has sent past its head

vars == <<case, key, phase, wire, closed, buf, runs, got, said>>

-----------------------------------------------------------------------------
(* Heads and greetings.                                                    *)

Tok(t, v) == [t |-> t, v |-> v]
Eol == Tok("eol", "")
Greeting(e) == <<Tok("RPY", e), Eol, Eol, Tok("END", e)>>
Blank == <<Eol, Eol>>

(* handshake::request; vortice_http::connect; and clients that are not     *)
(* this library's.                                                         *)
Rest == Tok("line", "/")    \* of the octets that tell, and of the request line
WsFields(k) ==
    <<Rest, Tok("upgrade", "websocket"), Tok("connection", "upgrade"),
      Tok("version", IF case.fault = "version" THEN "8" ELSE "13")>>
      \o (IF case.fault = "nokey" THEN << >> ELSE <<Tok("key", k)>>)
HttpFields == <<Rest, Tok("connection", "upgrade"), Tok("upgrade", "beep")>>
RequestLine == Tok(IF case.fault = "post" THEN "POST" ELSE "GET", "")
Quits == case.fault \in {"quits", "half"}
Request(k) ==
    IF case.kind = "beep" THEN << >>
    ELSE IF case.fault = "endless"
      THEN <<RequestLine, Rest>> \o [i \in 1 .. MaxHead + Chunk + 2 |-> Tok("host", "")]
    ELSE IF case.fault = "quits" THEN <<RequestLine, Rest, Eol>>
    ELSE IF case.fault = "half" THEN <<RequestLine>>
    ELSE <<RequestLine>> \o (IF case.kind = "ws" THEN WsFields(k) ELSE HttpFields) \o Blank

(* handshake::response; the 101 of BeepUpgrade::on_upgrade; and the        *)
(* answers of a server that does not speak the protocol.                   *)
AcceptKey(k) == Tok("accept", k)   \* the digest of k, which no other key has
Status(code) == Tok("HTTP", code)
Response(k) ==
    <<Status(IF case.fault = "status" THEN "200" ELSE "101")>>
      \o (IF case.port = "http"
            THEN <<Tok("connection", "upgrade"),
                   Tok("upgrade", IF case.fault = "proxy" THEN "websocket" ELSE "beep")>>
            ELSE <<Tok("upgrade", "websocket"),
                   AcceptKey(IF case.fault = "wrongkey"
                               THEN CHOOSE o \in Keys : o # k ELSE k)>>)
      \o Blank
Refusal == <<Status("400"), Eol, Eol>>

(* find_blank_line: the offset just past the first one, or 0.              *)
WrongFindBlankLine(s) ==
    LET at == {i \in 1 .. Len(s) - 1 : SubSeq(s, i, i + 1) = Blank}
    IN  IF at = {} THEN 0 ELSE 1 + (CHOOSE i \in at : \A j \in at : i >= j)
FindBlankLine(s) ==
    LET at == {i \in 1 .. Len(s) - 1 : SubSeq(s, i, i + 1) = Blank}
    IN  IF at = {} THEN 0 ELSE 1 + (CHOOSE i \in at : \A j \in at : i <= j)

Has(head, t, v) == \E i \in 2 .. Len(head) : head[i] = Tok(t, v)

(* parse_request, whose answer is the key to accept; is_beep_upgrade.      *)
ParseRequest(head) ==
    /\ head[1].t = "GET"
    /\ Has(head, "upgrade", "websocket")
    /\ Has(head, "connection", "upgrade")
    /\ Has(head, "version", "13")
    /\ \E i \in 2 .. Len(head) : head[i].t = "key"
KeyIn(head) == head[CHOOSE i \in 2 .. Len(head) : head[i].t = "key"].v
IsBeepUpgrade(head) ==
    Has(head, "connection", "upgrade") /\ Has(head, "upgrade", "beep")

(* parse_response; the checks of read_switching_protocols; and which of    *)
(* them a client makes.                                                    *)
WrongParseResponse(head) ==
    head[1] = Status("101") /\ \E i \in 2 .. Len(head) : head[i].t = "accept"
ParseResponse(head) ==
    head[1] = Status("101") /\ \E i \in 2 .. Len(head) : head[i] = AcceptKey(key)
SwitchingProtocols(head) == head[1] = Status("101") /\ Has(head, "upgrade", "beep")
Agreed(head) == IF case.kind = "ws" THEN ParseResponse(head) ELSE SwitchingProtocols(head)

-----------------------------------------------------------------------------

Init ==
    /\ case \in Cases
    /\ key \in Keys
    /\ phase = [e \in Ends |-> IF e = "client" THEN "start"
                               ELSE IF case.port = "shared" THEN "peek" ELSE "head"]
    /\ wire = [e \in Ends |-> << >>]
    /\ closed = [e \in Ends |-> FALSE]
    /\ buf = [e \in Ends |-> << >>]
    /\ runs = [e \in Ends |-> "none"]
    /\ got = [e \in Ends |-> << >>]
    /\ said = [e \in Ends |-> << >>]

Put(e, tokens) == wire' = [wire EXCEPT ![Other(e)] = IF closed[Other(e)] THEN @ ELSE @ \o tokens]
Fail(e) ==
    /\ phase' = [phase EXCEPT ![e] = "failed"]
    /\ closed' = [closed EXCEPT ![e] = TRUE]
    /\ UNCHANGED <<case, key, wire, buf, runs, got, said>>
Ended(e) == closed[Other(e)] /\ wire[e] = << >>

(* connect: the request, with the greeting behind it if the client does    *)
(* not wait for the answer; a plain BEEP client has only a greeting.       *)
ClientStarts ==
    LET e == "client"
        first == IF case.kind # "beep" /\ case.early THEN Greeting(e) ELSE << >>
    IN  /\ phase[e] = "start"
        /\ Put(e, Request(key) \o first)
        /\ said' = [said EXCEPT ![e] = first]
        /\ phase' = [phase EXCEPT ![e] = IF case.kind = "beep" THEN "greet" ELSE "head"]
        /\ closed' = [closed EXCEPT ![e] = Quits]
        /\ runs' = [runs EXCEPT ![e] = IF case.kind = "beep" THEN "beep" ELSE @]
        /\ UNCHANGED <<case, key, buf, got>>

(* A read of peek or of read_head, whose loop stops before the next one    *)
(* as soon as it has what it wants or too much.                            *)
ReadMore(e) ==
    \/ phase[e] = "peek" /\ Len(buf[e]) < Want
    \/ phase[e] = "head" /\ FindBlankLine(buf[e]) = 0 /\ Len(buf[e]) <= MaxHead
Read(e, n) ==
    /\ ReadMore(e)
    /\ buf' = [buf EXCEPT ![e] = @ \o SubSeq(wire[e], 1, n)]
    /\ wire' = [wire EXCEPT ![e] = SubSeq(@, n + 1, Len(@))]
    /\ UNCHANGED <<case, key, phase, closed, runs, got, said>>

(* serve_shared: by the first octets, or by fewer if the peer stops.       *)
Sniff(seed) ==
    IF Len(seed) >= 2 /\ seed[1].t = "GET" /\ seed[2] = Rest THEN "head" ELSE "greet"
Decide(e) ==
    /\ phase[e] = "peek"
    /\ Len(buf[e]) >= Want \/ Ended(e)
    /\ phase' = [phase EXCEPT ![e] = Sniff(buf[e])]
    /\ runs' = [runs EXCEPT ![e] = IF Sniff(buf[e]) = "greet" THEN "beep" ELSE @]
    /\ UNCHANGED <<case, key, wire, closed, buf, got, said>>

(* read_head gives up: too long, or cut.                                   *)
WrongHeadFails(e) ==
    /\ phase[e] = "head"
    /\ FindBlankLine(buf[e]) = 0
    /\ Len(buf[e]) > MaxHead
    /\ Fail(e)
HeadFails(e) ==
    /\ phase[e] = "head"
    /\ FindBlankLine(buf[e]) = 0
    /\ Len(buf[e]) > MaxHead \/ Ended(e)
    /\ Fail(e)

(* read_head has its head: what is behind it stays for the session.        *)
KeepRest(s, at) == SubSeq(s, at + 1, Len(s))
HeadDone(e, head) ==
    /\ phase[e] = "head"
    /\ FindBlankLine(buf[e]) # 0
    /\ head = SubSeq(buf[e], 1, FindBlankLine(buf[e]))
    /\ buf' = [buf EXCEPT ![e] = KeepRest(@, FindBlankLine(@))]

(* accept_with_seed                                                        *)
Accept ==
    \E at \in 1 .. Len(buf["server"]) :
        LET e == "server"
            head == SubSeq(buf[e], 1, at)
        IN  /\ case.port # "http"
            /\ HeadDone(e, head)
            /\ ParseRequest(head)
            /\ Put(e, Response(KeyIn(head)))
            /\ phase' = [phase EXCEPT ![e] = "greet"]
            /\ runs' = [runs EXCEPT ![e] = "ws"]
            /\ UNCHANGED <<case, key, closed, got, said>>
AcceptFails ==
    \E at \in 1 .. Len(buf["server"]) :
        LET head == SubSeq(buf["server"], 1, at)
        IN  /\ case.port # "http"
            /\ phase["server"] = "head"
            /\ FindBlankLine(buf["server"]) = at
            /\ ~ParseRequest(head)
            /\ Fail("server")

(* The HTTP server in front of serve_upgraded reads the request, keeps     *)
(* what is behind it, and answers 101 for BeepUpgrade or refuses.          *)
Upgraded ==
    \E at \in 1 .. Len(buf["server"]) :
        LET e == "server"
            head == SubSeq(buf[e], 1, at)
        IN  /\ case.port = "http"
            /\ HeadDone(e, head)
            /\ IF IsBeepUpgrade(head)
                 THEN /\ Put(e, Response("")) /\ closed' = closed
                      /\ phase' = [phase EXCEPT ![e] = "greet"]
                      /\ runs' = [runs EXCEPT ![e] = "http"]
               ELSE /\ Put(e, Refusal) /\ closed' = [closed EXCEPT ![e] = TRUE]
                    /\ phase' = [phase EXCEPT ![e] = "failed"] /\ runs' = runs
            /\ UNCHANGED <<case, key, got, said>>

(* connect_over and connect of the tunnel, after the head.                 *)
Connected ==
    \E at \in 1 .. Len(buf["client"]) :
        LET head == SubSeq(buf["client"], 1, at)
        IN  /\ HeadDone("client", head)
            /\ Agreed(head)
            /\ phase' = [phase EXCEPT !["client"] = "greet"]
            /\ runs' = [runs EXCEPT !["client"] = case.kind]
            /\ UNCHANGED <<case, key, wire, closed, got, said>>
ConnectFails ==
    \E at \in 1 .. Len(buf["client"]) :
        /\ phase["client"] = "head"
        /\ FindBlankLine(buf["client"]) = at
        /\ ~Agreed(SubSeq(buf["client"], 1, at))
        /\ Fail("client")

(* from_io and serve_io: the session starts with its greeting.             *)
Greet(e) ==
    /\ phase[e] = "greet"
    /\ phase' = [phase EXCEPT ![e] = "open"]
    /\ IF said[e] # << >> THEN UNCHANGED <<wire, said>>
       ELSE Put(e, Greeting(e)) /\ said' = [said EXCEPT ![e] = Greeting(e)]
    /\ UNCHANGED <<case, key, closed, buf, runs, got>>

(* The session reads: first what was put back, then the transport. What is *)
(* not a BEEP frame ends it.                                               *)
Beep(tokens) == \A i \in 1 .. Len(tokens) : tokens[i].t \in {"RPY", "END", "eol"}
SessionReads(e, n) ==
    LET replay == buf[e] # << >>
        from == IF replay THEN buf[e] ELSE wire[e]
        rest == SubSeq(from, n + 1, Len(from))
        data == SubSeq(from, 1, n)
    IN  /\ phase[e] = "open"
        /\ n <= Len(from)
        /\ Beep(data)
        /\ got' = [got EXCEPT ![e] = @ \o data]
        /\ buf' = IF replay THEN [buf EXCEPT ![e] = rest] ELSE buf
        /\ wire' = IF replay THEN wire ELSE [wire EXCEPT ![e] = rest]
        /\ UNCHANGED <<case, key, phase, closed, runs, said>>
SessionEnds(e) ==
    /\ phase[e] = "open"
    /\ \/ buf[e] = << >> /\ Ended(e)
       \/ ~Beep(buf[e] \o wire[e])
    /\ Fail(e)

Step(e) ==
    \/ \E n \in 1 .. Chunk : n <= Len(wire[e]) /\ Read(e, n)
    \/ Decide(e) \/ HeadFails(e) \/ Greet(e) \/ SessionEnds(e)
    \/ \E n \in 1 .. Chunk : SessionReads(e, n)
ClientStep == ClientStarts \/ Connected \/ ConnectFails \/ Step("client")
ServerStep == Accept \/ AcceptFails \/ Upgraded \/ Step("server")
Next == ClientStep \/ ServerStep

(* Each end is a task that its transport wakes.                            *)
Spec == Init /\ [][Next]_vars /\ WF_vars(ClientStep) /\ WF_vars(ServerStep)

-----------------------------------------------------------------------------
(* Properties.                                                             *)

(* The parts are of their types, and no end buffers more than the limit on *)
(* a head and one read, whatever the peer sends.                           *)
Words == Keys \cup Ends \cup {"", "/", "websocket", "upgrade", "8", "13", "beep",
                              "101", "200", "400"}
Tokens ==
    [t : {"eol", "RPY", "END", "GET", "POST", "line", "HTTP", "host", "upgrade", "connection",
          "version", "key", "accept"}, v : Words]
TypeOK ==
    /\ case \in Cases /\ key \in Keys
    /\ phase \in [Ends -> {"start", "peek", "head", "greet", "open", "failed"}]
    /\ {wire, buf, got, said} \subseteq [Ends -> Seq(Tokens)]
    /\ closed \in [Ends -> BOOLEAN]
    /\ runs \in [Ends -> {"none", "ws", "http", "beep"}]
    /\ \A e \in Ends : Len(buf[e]) <= MaxHead + Chunk

Speaks == case.fault = "none"
Compatible == Speaks /\ \/ case.kind = case.port
                        \/ case.port = "shared" /\ case.kind \in {"ws", "beep"}

(* A session reads all that its peer said after the head and nothing else, *)
(* in order: what was swept up with the head or with the octets that told  *)
(* the protocols apart is neither lost nor read twice, wherever the reads  *)
(* were cut.                                                               *)
NothingSwallowed ==
    \A e \in Ends :
        runs[e] = case.kind /\ phase[e] # "failed" /\ ~closed[Other(e)]
            => got[e] \o buf[e] \o wire[e] = said[Other(e)]

(* A session reads its peer only over the protocol the peer means: plain   *)
(* BEEP on a shared port is not taken for a WebSocket or the reverse, and  *)
(* a client opens only on an answer to its own key and its own protocol.   *)
OpensOnlyIfMeant ==
    /\ got["server"] # << >> => runs["server"] = case.kind
    /\ got["client"] # << >> => runs["client"] = runs["server"]
    /\ runs["client"] \in {"ws", "http"} => Speaks /\ runs["server"] = case.kind

(* An opening never hangs: both ends get the greeting of the other if they *)
(* speak the same protocol, and both give up if they do not.               *)
Settles ==
    <>[](IF Compatible
           THEN \A e \in Ends : phase[e] = "open" /\ got[e] = Greeting(Other(e))
           ELSE \A e \in Ends : phase[e] = "failed")
-----------------------------------------------------------------------------
(* The inductive invariant behind the safety properties.                   *)

(* Where the ends are: nothing is read before the handshake is over, and   *)
(* an end that has closed has failed, unless its fault is to quit.         *)
Before(e) == phase[e] \in {"start", "peek", "head"}
Placed ==
    /\ phase["client"] # "peek" /\ phase["server"] # "start"
    /\ phase["server"] = "peek" => case.port = "shared"
    /\ phase["client"] = "start" =>
         /\ Before("server")
         /\ said["client"] = << >> /\ buf["server"] = << >> /\ wire["server"] = << >>
    /\ Before("server") =>
         buf["client"] = << >> /\ wire["client"] = << >> /\ got["client"] = << >>
    /\ runs["client"] \in {"none", case.kind}
    /\ case.kind = "beep" => phase["client"] # "head" /\ buf["client"] = << >>
    /\ \A e \in Ends :
         /\ Before(e) => got[e] = << >> /\ runs[e] = "none"
         /\ phase[e] \in {"greet", "open"} => runs[e] # "none"
         /\ said[e] \in {<< >>, Greeting(e)}
         /\ closed[e] => \/ phase[e] = "failed"
                         \/ e = "client" /\ Quits /\ phase[e] = "head"
    /\ said["server"] # << >> => phase["server"] \in {"open", "failed"}
    /\ Quits /\ phase["client"] # "start" =>
         /\ phase["client"] \in {"head", "failed"} /\ closed["client"]
         /\ buf["client"] = << >> /\ wire["client"] = << >>

(* What may be on its way to an end.                                       *)
Members(s) == {s[i] : i \in 1 .. Len(s)}
Coming(e) == Members(buf[e]) \cup Members(wire[e])
FromClient == Members(Request(key)) \cup Members(Greeting("client"))
FromServer ==
    Members(Greeting("server"))
    \cup IF runs["server"] \in {"ws", "http"} THEN Members(Response(key)) ELSE Members(Refusal)
Sound == Coming("server") \subseteq FromClient /\ Coming("client") \subseteq FromServer

(* What the server runs is what the client meant, unless it took a request *)
(* it could not tell for plain BEEP: then it reads none of it.             *)
Meant ==
    /\ runs["server"] = "ws" => /\ case.kind = "ws" /\ case.port # "http"
                                /\ case.fault \in {"none", "wrongkey", "status"}
    /\ runs["server"] = "http" => /\ case.kind = "http" /\ case.port = "http"
                                  /\ case.fault \in {"none", "status", "proxy"}
    /\ runs["server"] = "beep" /\ case.kind # "beep" =>
         got["server"] = << >> /\ buf["server"] # << >> /\ buf["server"][1] = RequestLine
    /\ case.kind = "beep" /\ runs["server"] # "beep" =>
         /\ got["client"] = << >> /\ wire["client"] \in {<< >>, Refusal}
         /\ wire["client"] # << >> => phase["server"] = "failed"

(* Every token an end has sent is read, waits to be read or is on its way, *)
(* in the order it was sent.                                               *)
HeadTo(e) ==
    IF e = "server" THEN IF phase["client"] = "start" THEN << >> ELSE Request(key)
    ELSE IF runs["server"] \in {"ws", "http"} THEN Response(key) ELSE << >>
Follows(e) ==
    /\ phase[e] # "failed"
    /\ e = "client" => ~closed["server"] /\ ~Quits
    /\ Before(e) \/ runs[e] = case.kind
Carried(e) ==
    Follows(e) =>
        got[e] \o buf[e] \o wire[e] =
            (IF Before(e) THEN HeadTo(e) ELSE << >>) \o said[Other(e)]

OpeningInv ==
    /\ TypeOK /\ Placed /\ Sound /\ Meant /\ OpensOnlyIfMeant
    /\ \A e \in Ends : Carried(e)
=============================================================================

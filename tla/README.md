# Vortice: a verification project

Vortice is an implementation of BEEP (RFC 3080 and RFC 3081) in Rust. This
directory holds TLA+ modules translated from its source, TLC configurations that
check them on small instances, and proofs that TLAPS checks for every instance.
`PROJECT.json` lists the runs, the mutants, the lines each definition models, the
hazards and the theorems.

## The system

| Component | State | Operations | Hard because |
|---|---|---|---|
| Sequence numbers and windows (`vortice-proto/src/window.rs`) | a base and a size | `advance`, `distance_from`, `accepts`, `remaining`, `updated`, `consumed`, `resized` | numbers wrap at 2^32 |
| Channel (`vortice-proto/src/channel.rs`) | both windows, next and expected sequence number, the message being reassembled, message and answer numbers | `emit`, `accept`, `apply_seq`, `consume`, `allocate_*` | a message is cut over several frames and several windows |
| Session (`vortice-proto/src/session.rs`) | channels, queues, pending requests, `reply_order`, `held_replies`, `unacked`, outgoing octets, events | `handle_input`, `start_channel`, `accept_start`, `close_channel`, `accept_close`, `send`, `set_window_size` | requests of two peers cross; replies may come out of order |
| Driver (`vortice/src/connection.rs`) | the session, unwritten octets, the callers that wait | `pump`, `apply`, `handle_event`, `deliver`, `upgrade` | one task between applications, session and transport; it ends in six ways |
| Handlers and handles (`vortice/src/router.rs`, `channel.rs`, `service.rs`, `server.rs`) | a sender of commands | `Responder::reply`, `answer`, `finish`, `close`, `Channel::request`, `Connection::close` | handlers run as tasks of their own |
| Frame codec (`vortice-proto/src/codec.rs`, `frame.rs`) | a buffer, the header of a frame whose payload is still to come | `decode`, `encode`, `frame_boundary` | input arrives in arbitrary pieces |
| Documents (`management.rs`, `xml.rs`, `mime.rs`, `greeting.rs`, `base64.rs`) | none | parsing and rendering | hand-written parsers; values that look like markup; other implementations spell things differently |
| TLS (`vortice-tls`) | the transport of a session | a tuning channel that replaces the transport; implicit TLS | the session is replaced while handles to the old one exist |
| SASL (`vortice-sasl`) | a table of exchanges by channel number | `accept`, `on_open`, `handle`; six mechanisms | every blob is a task of its own; channels close and transports change under it |
| WebSocket (`vortice-ws`) | buffers for both directions, what is left of a BEEP frame, whether a close was sent | handshake, read, write, flush, ping, close; a port shared with plain BEEP | partial reads and writes, control frames in between, octets read too early |
| HTTP (`vortice-http`), rewound streams (`vortice/src/rewind.rs`) | octets read past a head | an upgrade of an HTTP connection | what follows the head belongs to the session |
| `vortice-interop` | | test programs against LibVortex | not part of the system |

Applications talk to the driver through a channel of commands; each command holds
a oneshot for its answer. The driver owns the `Session`, feeds it the octets it
reads, writes the octets it produces and turns its events into answers, new handler
tasks or messages on a channel handle. The session never blocks and never does I/O.
Two sessions meet only on the transport, which keeps octets in order.

What would make it wrong: a frame refused that the peer was entitled to send; a
sender stalled with nobody about to wake it; messages cut, merged or reordered;
replies that leave in another order than their messages arrived, or never; a request
that is lost, or answered twice; peers that disagree on which channels exist; a
session that survives at one end only; a frame lost because a read or a write was
cut in the wrong place; the octets of one protocol given to the parser of another; an
identity nobody proved; a document read as another one than was meant.

## The modules

| Module | Models | Extends or instantiates |
|---|---|---|
| `Window` | `SeqNo` and `Window`, with the modulus 2^32 as a constant `M` | |
| `MessageStream` | what a direction of a channel promises: a FIFO of whole messages | |
| `FlowControl` | one direction of one channel, from `Session::send` to `MessageReceived` | `Window`, instance of `MessageStream` |
| `FlowControlProofs` | its theorems | `FlowControl` |
| `ReplyOrder` | the answering half of one channel, with concurrent handlers | |
| `ReplyOrderProofs` | its theorems | `ReplyOrder` |
| `Session` | two peers: channel management and the driver's loop | |
| `SessionProofs` | its theorems | `Session` |
| `Routes` | the callers that wait on one driver | |
| `RoutesProofs` | its theorems | `Routes` |
| `FrameCodec` | frames on the wire: encoder, incremental decoder, `frame_boundary` | |
| `WsStream` | a WebSocket as a session's byte stream, with the driver above and any peer below | |
| `WsStreamProofs` | its theorems | `WsStream` |
| `Opening` | WebSocket and HTTP handshakes, the shared port, rewound streams; both ends | |
| `OpeningProofs` | its theorems | `Opening` |
| `Upgrade` | the TLS profile: both drivers around the swap of the transport | |
| `UpgradeProofs` | its theorems | `Upgrade` |
| `Sasl` | the SASL profiles of a listener, their tasks and mechanisms | |
| `SaslProofs` | its theorems | `Sasl` |
| `Base64` | `base64.rs` and the `<blob>` document | |
| `Documents` | management messages, greeting, XML and MIME | `Base64` |
| `MC...` | the instances TLC checks | |

A definition named `Wrong...` is a plausible mistake in the definition after it;
no specification uses it. It is there to show that the properties notice the mistake.

### FlowControl

The sender has `queue` (`Session.queues[n]`, what is left of each payload),
`send_window` and `next_seqno`; the receiver `recv_window`, `expected_seqno`,
`unacked` and `partial`; `wire` and `seqs` are frames and SEQs under way. `Send` is
`Session::send` of a message that may leave. It starts a flush; `FlushFrame` is one
frame of `Channel::emit`, `FlushDone` the end of `Session::flush`. While a flush runs
no SEQ is handled, because the code runs it inside one call; the receiver is another
process and goes on. `HandleData` is `Session::handle_data` with `Channel::accept`
and the acknowledgement in it, `RejectData` the same when `accept` fails,
`HandleSeq` a SEQ with the flush it starts, `SetWindowSize` the application's resize.

A payload is abstracted to which octets of which message it holds, so that a frame
that carries the wrong octets, or joins two messages, is visible. Kind, message
number and answer number together are one value, the header.

Constants: `M` is the modulus, `InitialWindow` is 4096 in the code and 4 in the
runs, `ChannelZero` says which kinds of channel are considered (the window of channel 0 is
announced at once), `MayShrink` whether
`set_window_size` may go below the current size. `MaxMessages` and `MaxResizes` bound
the calls of the applications. `to_seq_frame` refuses to announce a window above
2^31 - 1 (`ValueOutOfRange`); the model has windows of a few octets, where that cannot
happen, and leaves the refusal out.

### ReplyOrder

`arrived` and `handlers` are the messages received and the tasks that serve them;
`reply_order`, `held_replies` and `next_ansno` are the session's fields; `out` is what
has been queued for sending, each with the exchange it belongs to. A handler sends
one `RPY` or `ERR`, or `ANS`es and a `NUL`, or is dropped; `Send` either holds the
reply or queues it. The loop of `reply_finished` is taken a step at a time (`pc`,
`batch`, `finished`). A message number may come again once its exchange is over:
the peer is one that follows RFC 3080.

### Session

Two peers, `initiator` and `listener`. Each has the fields of its `Session` that
concern channels, the events it has not handled, its unwritten frames, and `ended`,
how its driver has stopped. Frames on channel 0 are whole management messages, since
FlowControl shows that a channel delivers whole messages in order. Of a frame on another
channel only the number matters. One read may bring several frames, so several events
may be raised before the first is handled; once the driver starts on them
(`draining`) it reads nothing until none is left. The driver stops when the session is
closed, when the transport ends or breaks, on a protocol error, or when all handles
are gone. A write to a peer that has stopped either fails or is not seen by
anybody. A start that finds every message number in use fails, but takes its channel
number first (`StartExhausted`). `half_open`, which only keeps a profile for the event
that follows, the virtual host and the authenticated identity influence none of this and
are left out.

`RequestsTracked` looks at the way of a request (`Trip`): the frames with requests and
replies that are unwritten or on the wire, and the events not handled. Every pending
request is concerned by one step of it, and every step concerns a pending request.
`SessionAssumption` bounds `MaxStarts` so that `next_channel`, a `u32` that would wrap
after 2^31 starts, does not.

### Routes

One driver and the tasks that call it. `calls` is each caller's call and what it has
been told; `commands` is the bounded queue of commands; `opens`, `closes`,
`session_close` and `requests` are the fields of `Routes` in `connection.rs`, `ready`
is the oneshot that waits for a greeting, `channels` the part of the `Session` that
decides whether a command is accepted: for each open channel, the message numbers it has
used and the next one. `Call...` sends a command,
`Apply...` is `Driver::apply` on one command, with the session's refusal. The peer is
any BEEP peer: `pending` and `asked` are what it has still to answer; it opens and
closes channels, refuses, and answers messages with `RPY`, `ERR` or `ANS` and `NUL`.
A frame and the event it raises are handled in one step, because the driver takes no
command between the two. `End...` is everything that follows the return of `pump`. A
caller in the routes is told `Closed`, as in `Routes::shutdown`, and the caller of
`Connection::close` a success. Who waits for a greeting gets the error that ended the
session, whichever it was; here that is `Closed` too. Who asked for an upgrade that
fails is told what the swap reports, or `Closed` when writing in front of it fails and
the oneshot is dropped (`UpgradeFails`). `Upgrade` replaces the session under the handles,
which remember (`epoch`, a ghost) the session they belong to.

A channel that is closed takes the messages asked on it along: the peer cannot answer
them any more. Such a request stays in `requests` until the session ends: `Stranded`
names this case, and `RoutesBacked` and `EveryoneTold` except it. The inbound queues of
the handles and `awaiting_upgrade` are not in this module.

### FrameCodec

`inbound` and `pending` are the buffer of the session and the decoder's memory of a
header whose payload has not come. `Read` hands any number of further octets over,
`DecodeNext` is one turn of the loop in `Session::handle_input`. The decoder is kept
in its steps (`LineEnd`, the fields, the ranges in the order they are checked, the
payload, the trailer), so that which error is reported, and when, is part of the
model. Three octets of a keyword are one symbol, numbers are binary and the limits are
small: 3 instead of 2^31 - 1, a line of 18 octets instead of 98.

### WsStream

One end of a WebSocket, client or server, and the driver's loop above it. `partial`,
`outbound`, `inbound`, `payload` and `closing` are fields of `WsStream`; `up` and `down`
are a transport that holds `Room` octets each way. The driver's `select` either reads or
writes; after a write it flushes. `Write` takes whole BEEP frames, at most a batch of
them, and holds an incomplete one back; past the high-water mark it waits. A read decodes
what has arrived and answers a Ping or a Close by queueing a frame of its own; a broken
frame ends the driver. What the peer sends is really encoded, masked or not, and decoded
octet by octet; what the session sends is counted, with the frame each WebSocket frame
carries. The peer follows a plan, one of which is to break the rules, and may end the
transport at any moment.

### Opening

A client that wants a WebSocket, a tunnel or plain BEEP meets a port that expects one
of them or, shared, two. `buf` is what an end has read and nobody has consumed: the
head of the handshake, the octets that told the protocols apart, and whatever came with
them. A read returns up to `Chunk` tokens, so a head comes in pieces or together with
the greeting behind it. The request line is two tokens, so that a read may also end
inside the octets the shared port looks at. A case names the fault there is, if any: a
request that is no upgrade or has no key, a head that does not end, a peer that stops in
the middle of it or of those octets, an answer to another key, a proxy that answers by
itself. The HTTP server in front of the
tunnel is not in the repository and is external.

### Upgrade

Two drivers. `mode` is where each is: in the clear, waiting for the handler to ask for
the swap (`awaiting_upgrade`), in the handshake, in the new session, or ended. `Read`
is one read of several frames, `UpgradeInitiator` and `UpgradeListener` are
`Driver::upgrade` with the flush before it. Both ends may send frames of other channels
(`Talk`; a SEQ is the same to the exchange) at any time; `late` remembers who did so
after the exchange began. The listener may refuse the start, or accept it and then
think better of it; a certificate may be refused; a write may fail. The handshake is a
library's: three messages, and it fails when it is given anything else.

### Sasl

One `SaslProfile` of one mechanism, its `table`, and the tasks the driver spawns: one
for `on_open`, one per blob. A task takes its entry out of the table under the lock and
puts it back under the lock; between the two it holds the exchange alone, and any other
task of the channel finds nothing. `authenticated` is the session's field, set by the
driver when it comes to the command. The peer sends any blob at any time, closes the
channel, starts it again under the same number, and the transport may be swapped; a
`polite` one, of any mechanism, waits for its answers and uses a number once. ANONYMOUS
and EXTERNAL hand the text of the blob, empty or not, to the application, and `Admits` is
whom that lets in. `log` keeps of each exchange what it was asked first, the proof it
weighed, and the sessions in which its peer was told and its identity recorded; no action
reads it but through the properties. A digest is the record of what went into
it: comparing two of them compares those. A nonce is the number of its exchange, that
is, nonces are assumed never to repeat.

### Documents and Base64

One document is rendered, respelt or damaged, and read. A text is a sequence of symbols:
markup, keywords, digits and a few data symbols with those XML escapes, both quotes among
them. `reader` is which of the two functions reads it, `Greeting` or
`Message::from_payload`, and each refuses the other's root element. The parser is the
recursive descent of `xml.rs` with its depth limit, its entities, comments, CDATA
sections and both quotes. `Respell` is what other implementations do: the other quotes,
white space, comments, a prolog, MIME headers. `Break` cuts a document, or changes a
character of a blob. Base64 keeps its arithmetic with characters of three bits instead of
six. These two modules use RECURSIVE operators, nothing is proved about them.

## What the runs check

| Run | Question | Bounds |
|---|---|---|
| `flow` | is a channel, channel 0 included, a FIFO that never refuses and never stalls for good | `M` = 16, so numbers wrap twice; messages of 0, 5 and 9 octets against windows of 4 to 10 and frames of 3: a message takes several frames and several windows |
| `refused` | what can go wrong at worst with small or shrinking windows: `OutsideWindow`, and nothing else | |
| `replies` | order and release of replies | 3 messages, 3 message numbers used again, 2 answers: the shortest in which a released reply releases another |
| `session` | do crossing requests ever confuse two peers | one start and two closes each, two message numbers: numbers wrap, closes cross each other, a start and a session close |
| `traffic` | is every request answered, do both ends stop, with data, refusals and dropped handles | one opener, one message and one close each |
| `routes` | is every caller told, once, and by the reply to its own message | 3 callers, 2 message numbers, one channel of the peer, a command queue of 2, one upgrade, one answer: the queue fills, numbers wrap, two callers want the same thing while the third upgrades |
| `codec` | does it matter how octets are cut, is what is encoded decoded, do decoder and `frame_boundary` agree | all pairs of four frames with awkward payloads (a trailer, a line end, none), and every single-octet edit of each, cut in every way; two frame size limits |
| `websocket` | are BEEP frames carried whole, read in order, and never left in a buffer | three frames, a batch of 2, a high-water mark of 5, a transport of 3 octets: the transport fills inside headers and payloads; lengths at both limits of the header forms |
| `opening` | is anything behind a head lost, does a session open only where meant, does everyone settle | every client at every port, with and without an early greeting, and each fault; heads of up to 8 tokens against reads of 5 and a limit of 9 |
| `upgrade` | does the handshake meet only handshakes, does everyone settle | up to two stray frames at each end, reads of three frames |
| `sasl` | who is recorded, on which proof, how many guesses, and is whoever was told recorded | all six mechanisms, two exchanges, two blobs, one swap, on one channel number used again: replays, restarts and tasks that outlive their channel; two users, one asking to act as the other and one for itself, so that each can prove itself in the other's exchange |
| `documents` | is every document read as it was meant, cut ones refused, Base64 canonical | every kind of document to both readers, texts of up to two symbols, payloads and blobs of up to four, two liberties at once, every cut and every changed character |

`TypeOK` is a property of the runs `flow` and `replies`. The `TypeOK` of the other
modules can be added to their configuration, and so can the inductive invariants
`SessionInv`, `RoutesInv`, `UpgradeInv`, `SaslInv`, `ToldInv`, `OpeningInv` and `WsInv`:
TLC finds no violation of any of them.

Deadlock is not checked: an idle session has no next step, and neither has one that
has ended.

Fairness. Both drivers are tasks of a work-stealing runtime, woken by their
transport, so handling input, handling events and writing are weakly fair. A call
of an application is never assumed. In `ReplyOrder` a handler that is not dropped is
assumed to finish its reply; the model lets any of them be dropped, and
`EventuallyAnswered` promises an answer only where none before it was. In `Routes` the
driver takes commands and reads, and the peer answers in the end; no session is
obliged to end. In `WsStream` the driver and
the peer, which carries out its plan and reads until it ends the transport, are weakly
fair; nobody has to produce a frame. In `Upgrade` both drivers are, handshakes included;
nobody has to ask for an upgrade or to talk. In `Opening` each end is a task that its
transport wakes. `Sasl` and `FrameCodec` state safety only and assume none:
`ToldIsRecorded` says that a task which will record is there, and that the runtime runs
it is all that is left.

### Where the code and its comments disagree

Each of these is a property of a module that TLC refutes; the configuration named
gives the shortest history. They are not runs of the project, whose runs all pass.

| Configuration and module | Property | What the code does | What a comment says |
|---|---|---|---|
| `FlowControlSmallWindow.cfg`, `MCFlowControl` | `NeverRefused` | a window below 4096 octets is enforced but never announced (`session.rs:311`) | nothing depends on the value (`session.rs:165`) |
| `FlowControlRegrow.cfg`, `MCFlowControl` | `StallIsTemporary` | shrink, acknowledge, grow: the sender waits for a SEQ that never comes (`session.rs:943`) | the threshold is there so that no peer is left "waiting for a `SEQ` that never comes" (`session.rs:940`) |
| `SessionCollision.cfg`, `MCSession` | `CollisionResolved` | a SEQ or data that crosses the acceptance of a close ends the session (`session.rs:447`) | closes that cross are legal and resolved (`router.rs:486`) |
| `SessionGreeting.cfg`, `MCSession` | `GreetingTaken` | a greeting of several frames is sent, and refused (`greeting.rs:201`) | it is paced rather than truncated (`session.rs:282`) |
| `RoutesDecline.cfg`, `MCRoutes` | `DeclineReported` | a peer that declines to close the session leaves the caller waiting (`connection.rs:828`); `routes` excludes this with `MayDecline` | `Error::Refused` is returned (`connection.rs:327`) |
| `RoutesStale.cfg`, `MCRoutes` | `StaleHandleRefused` | a handle kept across an upgrade sends on the new session's channel of the same number (`connection.rs:691`) | it reports the session closed (`connection.rs:616`) |
| `SaslSwap.cfg`, `MCSasl` | `NotCarriedAcross` | a task that proved an identity before a swap records it on the session after it (`connection.rs:725`) | an identity is deliberately not carried across (`vortice-sasl/src/lib.rs`, `session.rs:385`) |
| `DocumentsContent.cfg`, `MCDocuments` | `ContentCarried` | content that holds `]]>` ends its CDATA section (`Profile::render`, `management.rs`) | no value reaches into the markup (`escape`, `xml.rs`) |
| `UpgradeLate.cfg`, `MCUpgrade` | `NothingLostByWaiting` | a frame of another channel that the listener queues behind its acceptance is flushed, and reaches the initiator's handshake, which fails | nothing is lost by waiting (`connection.rs:534`) |

Smaller ones, read and not checked: `connection.rs:470` says that a driver that awaits
an upgrade writes but does not read (it does neither); the documentation of
`authenticated` names the proved identity where the identity acted as is kept
(`connection.rs:307`); the channel binding of SCRAM is only checked to be Base64; a
comment `<!-->` is closed at once.

## What is proved

`FlowControlProofs`, for every modulus, windows, frame size and messages:

* `TypeCorrect` and `InOrder`, without any assumption on the windows. `OrderInv` is
  the invariant: the messages delivered, the one being reassembled, the frames on the
  wire and the queue follow one another without a gap. `DeliveredInOrder` alone is not
  inductive: it says nothing of what is still to come.
* `Accepted`, `OfferCovers`, `NoLostWakeup`, `NeverWithdrawn`, under `SafeOffer`: the
  window is at least the initial one and only grows. The first two disagreements
  above show that this is needed. `WindowInv` is the invariant: measured from the base of the send
  window, acknowledged, received, sent and writable octets are in plain order, and so
  are the SEQs under way; the wrap disappears in that coordinate. That needs the
  lemmas on `Advance` and `DistanceFrom` the module starts with.
* `RefusedOnlyForSize`, again without any assumption on the windows: a frame is refused
  for the room it takes and for nothing else. `NumberingInv` adds to `OrderInv` that
  each frame on the wire begins at the sequence number where the one before it ends.
* `RefinesStream`: the safety part of FlowControl implements that of `MessageStream`.

`ReplyOrderProofs`, for every set of message numbers and every bound: `TypeCorrect`,
`Inductive` (`ReplyInv`), and from it `InArrivalOrder` and `NoneForgotten`. `ReplyInv`
relates the suffix of `arrived` that is not over to `reply_order`, and the held replies
to the exchanges they belong to, also in the middle of the loop that releases them.

`SessionProofs`, for any number of starts, closes and frames, any limit on message
numbers, and applications that refuse, drop their handles and send while closing:
`Inductive` (`SessionInv`), `TypeCorrect`, and from it

* `PendingIsExact` (`RequestsTracked`) and `SameChannels` (`ChannelsAgree`), without
  further assumptions;
* `NothingRefusedWhileOpening` (`OpeningSafe`), when greetings take one frame;
* `NoErrorBetweenPeers` (`NoProtocolError`), when greetings take one frame and either
  nothing is sent on ordinary channels or nothing is closed. `SessionGreeting.cfg` and
  `SessionCollision.cfg` show that both are needed.

None of these is inductive. `RequestsTracked` needs `Once` and `Settled`: message numbers
occur once in each place and in one place only, so a reply settles the request it was
given for even when the number comes round again. That a channel is opened or closed by
a reply says something about the peer only with `Starting` (a channel asked for is open
nowhere until the peer agrees, then open there, and any close the peer sends for it
travels behind its reply), `ClosingOver` (a channel whose close was agreed is gone
there) and `NumbersGiven` (a number is given once, and by one peer, because their
parities differ). `GreetingFirst` says where greetings are, `Traffic` which channels the
frames under way belong to: each is open at the reader or will be when the reply in
front of the frame is read. The proof has one lemma per action; the lemmas before them
say what appending a frame and taking the first one do to each part.

`RoutesProofs`, for every finite set of callers, every queue, message number limit and
number of upgrades: `Inductive` (`RoutesInv`), `TypeCorrect`, `OneshotsHeldOnce`
(`HeldOnce`), `Backed` (`RoutesBacked`), `RepliesReachTheirCaller` (`RightReply`). The
invariant adds that the places a oneshot may be in are apart, that numbers asked for
have been given and only once, and that messages are asked on open channels only:
otherwise a number used again could bring the wrong reply.

`UpgradeProofs`, for any amount of other traffic and any size of a read: `Inductive`
(`UpgradeInv`), `TypeCorrect`, `CleanSwap` (`OnlyLateTraffic`). The invariant says which
tokens may be on each wire and in each buffer in each pair of modes, and that the last
word of the exchange has nothing behind it unless its sender talked late.

`SaslProofs`, for all users, secrets, claims, channels, exchanges and swaps: `Inductive`
(`SaslInv`), `TypeCorrect`, `Authenticity` (`ProofFits`), `GuessedOnce` (`OneGuess`),
`NeverStepped` (`OverIsOver`) and `ToldRecorded` (`ToldIsRecorded`). An exchange that can
still be stepped is in the table or in one task, never in both and never in two
(`OneHolder`), it has weighed no proof yet (`EntriesSound`), and an identity on its way
to the session rests on a proof that was right (`RecordedWon`); in SCRAM-SHA-256 the
exchange also remembers whom its first message named (`Remembers`). `ToldRecorded` needs
a second invariant, `ToldInv`: a task about to tell a peer that is still there has
recorded it in this session (`RecordsFirst`), for which numbers of starts must not come
again (`StartsKnown`), and where no challenge is issued a polite peer leaves the settled
entry to `on_open` (`LeftAlone`).

`OpeningProofs`, for every set of openings and keys, every limit on heads and every size
of a read: `Inductive` (`OpeningInv`), `TypeCorrect`, `OpensAsMeant`
(`OpensOnlyIfMeant`) and `NothingLost` (`NothingSwallowed`). Neither property is
inductive: `NothingSwallowed` says nothing before the head is over, and what a parser
concludes depends on what can reach it. `Placed` says where the two ends can be
together, `Sound` which tokens can be on their way to each, `Meant` what the server
settles on for each client, `Carried` that what was read, what is kept and what is under
way are together what the peer has sent: its head, as long as the reader has not
consumed it, and what it said after it. The step from the one to the other is the lemma
`HeadFound`: `FindBlankLine` in a head followed by anything, when it finds an end, finds
the end of the head, however much of what follows is there.

`WsStreamProofs`, for every sequence of BEEP frames, every plan of the peer (reserved
bits, unknown codes and lengths over the limit included), every room and every limit:
`Inductive` (`WsInv`), `StreamTypes`, `OneBeepFrameEach` (`OneFrameEach`) and
`ReadsInOrder` (`ReadInOrder`). `ReadInOrder` says nothing of octets that are still on
their way; `Between` does: as long as the driver reads, the first frames of the peer, as
they are on the wire, followed by `inbound`, the transport and what the peer has not sent
yet are together its whole script, and the data of those frames is what was handed up. So
whenever the decoder finds a frame, the next one of the peer is at the front of
`inbound`, and the lemma `FrontIsRead` says that it finds that one: of an encoded frame,
masked or not and with a length of any form, `Poll` returns the operation and the data,
and leaves what is behind it. A length of which octets are missing is never taken for
another. The writing half, `Written`, says that the queued data frames are the BEEP
frames up to `framed`, one each, and that `partial` and `out` hold the rest of what was
produced; the lemmas before it count the ends of frames that `frame_boundary` finds.

The recursive functions of this module (`EndOf`, the sums of sizes, and `FlattenSeq` of
the community modules) are dealt with by minimal counterexamples: a set of natural
numbers that is not empty has a least member (`Smallest`), which the library's
well-foundedness of `<` gives without an operator parameter.

The constants are assumed to be what their types say (`ModulusAssumption`,
`FlowAssumption`, ...). `Sasl` assumes that a wrong secret is nobody's. `Opening` assumes
that each fault goes with an opening that has it, that a wrong key is another one, and
that the shared port looks at two tokens at least.
`WsStream` assumes that `Short + 1` (127) fits beside the mask bit, and that what a peer
sends are frames of octets. TLC evaluates these assumptions in every run.

Only model-checked are liveness, about which TLAPS 1.4.5 does not reason, and

* `Documents` and `Base64`: what their RECURSIVE operators compute is out of the
  prover's reach;
* `FrameCodec`, where every property is about the decoder run to its end, a recursion
  over the input.

## What is not modelled

* Implicit TLS, the accept loops of servers and the interoperability programs, which
  keep no state of their own; the digests and ciphers of TLS and SASL, which are
  libraries or ideal functions here.
* UTF-8 and the exact octets of text; wording of messages; logging.
* Choosing a handler for a profile (a lookup in a map) and the adapters of `service.rs`.
* The queue that `Channel::recv` reads. When it is full its message is dropped
  (`connection.rs:911`), which to the order of replies is a handler that never answers:
  `ReplyOrder` has those.
* A limit on how long a handshake may take: the code has none, and a peer that sends
  fewer than four octets to a shared port keeps a task for ever. The runs assume that a
  peer goes on or closes.
* A TCP reset that discards octets already received.

## Plan

1. Done: all modules checked; flow control, replies, sessions, routes, the TLS profile,
   the SASL profiles, openings and the WebSocket stream proved.
2. Open: `FrameCodec` with its decoder as a step relation instead of a recursion, which
   is what `WsStream` does for WebSocket frames; its properties could then be proved the
   same way.
3. Composition still open: `WsStream` under `FlowControl`, where both pace the sender.

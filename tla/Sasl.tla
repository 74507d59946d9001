-------------------------------- MODULE Sasl --------------------------------
(***************************************************************************)
(* The SASL profiles of a listener (vortice-sasl): the table of exchanges  *)
(* a SaslProfile keeps by channel number, the tasks the connection's       *)
(* driver spawns for on_open and for every blob, and the six mechanisms.   *)
(*                                                                         *)
(* The driver answers a start by itself (accept), but everything after it  *)
(* runs in tasks of a multi-threaded runtime.  A task holds the lock of    *)
(* the table only while it removes or inserts an entry, and whatever it    *)
(* awaits (recording the identity, sending the reply) is a later step of   *)
(* the driver, so each of those is an action of its own.                   *)
(*                                                                         *)
(* Digests are symbolic: a proof is the record of what went into it, two   *)
(* proofs are equal when they were made from the same things, and a nonce  *)
(* is the number of the exchange that drew it.                             *)
(***************************************************************************)
EXTENDS Naturals, Sequences, FiniteSets

CONSTANTS
    Mechanisms,     \* the mechanisms to explore, one per behaviour
    Channels,       \* channel numbers the peer may start the profile on
    Claims,         \* <<user, act as>>: whom a peer that knows the secret says it is
    Mistakes,       \* the users a peer names without their secret
    Oddities,       \* what may be wrong with a field of a mechanism's response
    Secret,         \* the listener's users, each with its shared secret
    Admits,         \* the names the application admits where nothing is proved
    MaxExchanges,   \* bound: exchanges begun
    MaxBlobs,       \* bound: blobs sent on open channels
    MaxSwaps        \* bound: transports swapped under the session

None == "none"      \* no name, which is also what an empty blob names

OneRound == {"ANONYMOUS", "EXTERNAL", "PLAIN"}
Challenging == {"CRAM-MD5", "DIGEST-MD5", "SCRAM-SHA-256"}
Users == DOMAIN Secret
Strangers == {"stranger"}
Wrong == "wrong"

ASSUME SaslAssumption ==
    /\ Mechanisms \subseteq OneRound \cup Challenging
    /\ Channels # {} /\ MaxExchanges \in Nat /\ MaxBlobs \in Nat /\ MaxSwaps \in Nat
    /\ Users \cap Strangers = {} /\ None \notin Users
    /\ Claims \subseteq Users \X (Users \cup {None})
    /\ Mistakes \subseteq Users \cup Strangers /\ Admits \subseteq Users \cup {None}
    /\ Oddities["DIGEST-MD5"] \subseteq {"nc", "qop", "realm"}
    /\ Oddities["SCRAM-SHA-256"] \subseteq {"binding"}
    /\ \A u \in Users : Secret[u] # Wrong

(***************************************************************************)
(* What a blob can carry.  "empty" and "malformed" are themselves; a       *)
(* "fields" blob names a user, perhaps someone else to act as, the nonce   *)
(* it repeats, and a proof made from a secret over some nonce; `odd` is    *)
(* the one field of it that is not as it should be.                        *)
(***************************************************************************)
Data(form, user, authz, nonce, secret, over, odd) ==
    [form |-> form, user |-> user, authz |-> authz, nonce |-> nonce,
     secret |-> secret, over |-> over, odd |-> odd]

Bare(form) == Data(form, None, None, 0, None, 0, "none")
Empty == Bare("empty")
Malformed == Bare("malformed")
NotABlob == Bare("not a blob")
Abort == Bare("abort")

VARIABLES
    mech,       \* the mechanism this profile serves
    polite,     \* whether the peer waits for its answers and never reuses a number
    served,     \* the open channels (Driver::served)
    used,       \* the channel numbers ever started
    table,      \* SaslProfile::exchanges: what each channel's exchange is doing
    tasks,      \* the spawned tasks, in the order they were spawned
    log,        \* what became of each exchange, in the order they began
    session,    \* how often the session has been replaced
    authenticated,  \* Session::authenticated: the exchange that proved it, and whom
    heard       \* what the peer was told last on each channel

vars == <<mech, polite, served, used, table, tasks, log, session, authenticated, heard>>

NoIdentity == [id |-> 0, who |-> None]
NoEntry == [state |-> "absent"]
InFlight(ex) == [state |-> "in flight", ex |-> ex]
Settled(ex) == [state |-> "settled", ex |-> ex]

\* Identity::effective: whom the session runs as
Effective(ex) == IF ex.authz # None THEN ex.authz ELSE ex.user

\* Mechanism::begin: a conversation of its own, nothing said yet
Begin(id) == [id |-> id, phase |-> "start", user |-> None, authz |-> None]

-----------------------------------------------------------------------------
(***************************************************************************)
(* Exchange::step of each mechanism: where a blob leaves the exchange.     *)
(***************************************************************************)
Continue(ex) == [step |-> "continue", ex |-> ex]
Complete(ex) == [step |-> "complete", ex |-> ex]
Denied(ex) == [step |-> "failed", ex |-> ex]

Known(d) == d.user \in Users
As(ex, d) == [ex EXCEPT !.user = d.user, !.authz = d.authz]

\* ANONYMOUS and EXTERNAL ask the application about the text of a blob, empty or not
Admitted(d) == d.form \in {"fields", "empty"} /\ d.user \in Admits

\* ANONYMOUS: the trace token is the identity
AnonymousStep(ex, d) ==
    IF Admitted(d) THEN Complete([ex EXCEPT !.user = d.user]) ELSE Denied(ex)

\* EXTERNAL: only an identity to act as, which is also the only identity there is
ExternalStep(ex, d) ==
    IF Admitted(d) THEN Complete([ex EXCEPT !.user = d.user, !.authz = d.user]) ELSE Denied(ex)

\* PLAIN: the password itself
PlainStep(ex, d) ==
    IF d.form = "fields" /\ Known(d) /\ d.secret = Secret[d.user]
    THEN Complete(As(ex, d))
    ELSE Denied(ex)

\* the proof repeats what the listener computes with the user's secret over the
\* challenge of this exchange
Proves(ex, d, user) == d.user = user /\ d.secret = Secret[user] /\ d.over = ex.id

\* CRAM-MD5: a challenge whatever the first blob says, then a digest of it
CramStep(ex, d) ==
    IF ex.phase = "start" THEN Continue([ex EXCEPT !.phase = "challenged"])
    ELSE IF d.form = "fields" /\ Known(d) /\ Proves(ex, d, d.user)
         THEN Complete([ex EXCEPT !.user = d.user])
         ELSE Denied(ex)

\* DIGEST-MD5: the checks of `check`
DigestHolds(ex, d) ==
    /\ d.form = "fields"
    /\ d.nonce = ex.id /\ d.odd \notin {"nc", "qop", "realm"}
    /\ Known(d) /\ Proves(ex, d, d.user)

\* mutant: a response that does not hold may be sent again
WrongDigestStep(ex, d) ==
    CASE ex.phase = "start" -> Continue([ex EXCEPT !.phase = "challenged"])
      [] ex.phase = "challenged" ->
           IF DigestHolds(ex, d) THEN Continue([As(ex, d) EXCEPT !.phase = "confirmed"])
                                 ELSE Continue(ex)
      [] ex.phase = "confirmed" -> IF d.form = "empty" THEN Complete(ex) ELSE Denied(ex)

DigestStep(ex, d) ==
    CASE ex.phase = "start" -> Continue([ex EXCEPT !.phase = "challenged"])
      [] ex.phase = "challenged" ->
           IF DigestHolds(ex, d) THEN Continue([As(ex, d) EXCEPT !.phase = "confirmed"])
                                 ELSE Denied(ex)
      [] ex.phase = "confirmed" -> IF d.form = "empty" THEN Complete(ex) ELSE Denied(ex)

\* mutant: any user's proof will do
WrongScramHolds(ex, d) ==
    d.form = "fields" /\ d.nonce = ex.id /\ Known(d) /\ Proves(ex, d, d.user)

\* SCRAM-SHA-256: `first` names the user, `final_message` proves the stored key;
\* the binding value only has to be Base64
ScramHolds(ex, d) ==
    d.form = "fields" /\ d.nonce = ex.id /\ Proves(ex, d, ex.user)

ScramStep(ex, d) ==
    IF ex.phase = "start"
    THEN IF d.form = "fields" /\ d.odd # "flag" /\ Known(d)
         THEN Continue([As(ex, d) EXCEPT !.phase = "challenged"])
         ELSE Denied(ex)
    ELSE IF ScramHolds(ex, d) THEN Complete(ex) ELSE Denied(ex)

Step(ex, d) ==
    CASE mech = "ANONYMOUS" -> AnonymousStep(ex, d)
      [] mech = "EXTERNAL" -> ExternalStep(ex, d)
      [] mech = "PLAIN" -> PlainStep(ex, d)
      [] mech = "CRAM-MD5" -> CramStep(ex, d)
      [] mech = "DIGEST-MD5" -> DigestStep(ex, d)
      [] mech = "SCRAM-SHA-256" -> ScramStep(ex, d)

-----------------------------------------------------------------------------
Init ==
    /\ mech \in Mechanisms
    /\ polite \in BOOLEAN
    /\ served = {} /\ used = {}
    /\ table = [c \in Channels |-> NoEntry]
    /\ tasks = <<>> /\ log = <<>>
    /\ session = 0 /\ authenticated = NoIdentity
    /\ heard = [c \in Channels |-> [id |-> 0, state |-> "closed"]]

Task(kind, c, d) ==
    [kind |-> kind, channel |-> c, data |-> d, start |-> heard'[c].id,
     pc |-> "spawned", entry |-> NoEntry, answer |-> None]

Spawn(kind, c, d) == tasks' = Append(tasks, Task(kind, c, d))

Outcome(r) ==
    CASE r.step = "continue" -> "open"
      [] r.step = "complete" -> "complete"
      [] r.step = "failed" -> "failed"

\* whether stepping `ex` weighs a proof, rather than drawing or acknowledging a challenge
Weighs(ex) == ex.phase = "challenged" \/ mech \in OneRound

\* the exchange's line of the log after a step: an observation, read by no action
Noted(entry, ex, d, r) ==
    [entry EXCEPT !.outcome = Outcome(r),
                  !.guesses = IF Weighs(ex) THEN @ + 1 ELSE @,
                  !.first = IF ex.phase = "start" /\ r.step # "failed" THEN d ELSE @,
                  !.proof = IF Weighs(ex) /\ r.step # "failed" THEN d ELSE @]

\* `told` and `recorded` are the sessions in which the peer heard that it is
\* authenticated and in which the session took its identity
NewLine == [born |-> session, outcome |-> "open", guesses |-> 0, first |-> Empty,
            proof |-> Empty, told |-> {}, recorded |-> {}]

\* initial_blob: nothing, or a blob, whose status nobody looks at
InitialBlob(d) == d.form # "not a blob"

(***************************************************************************)
(* SaslProfile::accept, called by the driver as it handles the <start>: a  *)
(* failed first step declines the channel; anything else opens it, leaves  *)
(* an entry in the table (over whatever was there) and spawns on_open.     *)
(***************************************************************************)
Accept(c, d) ==
    /\ c \notin served /\ Len(log) < MaxExchanges
    /\ polite => c \notin used
    /\ used' = used \cup {c}
    /\ UNCHANGED <<mech, polite, session, authenticated>>
    /\ LET ex == Begin(Len(log) + 1)
           r == Step(ex, d)
       IN IF ~InitialBlob(d) \/ r.step = "failed"
          THEN /\ log' = Append(log, [NewLine EXCEPT !.outcome = "failed"])
               /\ UNCHANGED <<served, table, tasks, heard>>
          ELSE /\ table' = [table EXCEPT ![c] = IF r.step = "complete" THEN Settled(r.ex)
                                                                      ELSE InFlight(r.ex)]
               /\ log' = Append(log, [Noted(NewLine, ex, d, r) EXCEPT
                                        !.told = IF r.step = "complete" THEN {session} ELSE {}])
               /\ served' = served \cup {c}
               /\ heard' = [heard EXCEPT ![c] = [id |-> ex.id, state |-> r.step]]
               /\ Spawn("open", c, Empty)

\* the peer's next blob arrives: the driver spawns a task for it
Deliver(c, d) ==
    /\ c \in served
    /\ Cardinality({i \in DOMAIN tasks : tasks[i].kind = "blob"}) < MaxBlobs
    /\ polite => heard[c].state = "continue"
    /\ heard' = [heard EXCEPT ![c].state = "waiting"]
    /\ Spawn("blob", c, d)
    /\ UNCHANGED <<mech, polite, served, used, table, log, session, authenticated>>

\* the peer closes the channel, which the driver accepts at once whatever is running
Close(c) ==
    /\ c \in served
    /\ polite => heard[c].state # "waiting"
    /\ served' = served \ {c}
    /\ heard' = [heard EXCEPT ![c] = [id |-> 0, state |-> "closed"]]
    /\ UNCHANGED <<mech, polite, used, table, tasks, log, session, authenticated>>

\* Driver::upgrade: a new session with nobody authenticated.  The profile's table and
\* the tasks outlive it, and the new session numbers its channels from the start again.
Swap ==
    /\ session < MaxSwaps
    /\ polite => \A c \in served : heard[c].state # "waiting"
    /\ session' = session + 1
    /\ authenticated' = NoIdentity
    /\ served' = {} /\ used' = {}
    /\ heard' = [c \in Channels |-> [id |-> 0, state |-> "closed"]]
    /\ UNCHANGED <<mech, polite, table, tasks, log>>

-----------------------------------------------------------------------------
At(i, kind, pc) == tasks[i].kind = kind /\ tasks[i].pc = pc

\* a task that has returned holds nothing
Over(t) == [t EXCEPT !.pc = "done", !.data = Empty, !.start = 0, !.entry = NoEntry,
                     !.answer = None]
Finish(i) == tasks' = [tasks EXCEPT ![i] = Over(@)]
Answer(i, answer) ==
    tasks' = [tasks EXCEPT ![i].pc = "replying", ![i].answer = answer, ![i].data = Empty,
                           ![i].entry = NoEntry]

TaskUnchanged == UNCHANGED <<mech, polite, served, used, session, heard>>

\* on_open: takes the identity of an exchange that accept settled, if there is one
OnOpen(i) ==
    /\ At(i, "open", "spawned")
    /\ LET c == tasks[i].channel
       IN IF table[c].state = "settled"
          THEN /\ tasks' = [tasks EXCEPT ![i].pc = "authenticating", ![i].entry = table[c]]
               /\ table' = [table EXCEPT ![c] = NoEntry]
          ELSE Finish(i) /\ UNCHANGED table
    /\ UNCHANGED <<log, authenticated>> /\ TaskUnchanged

\* handle, up to its first unlock: the entry leaves the table, whatever it is
HandleTake(i) ==
    /\ At(i, "blob", "spawned")
    /\ LET c == tasks[i].channel
       IN /\ tasks' = [tasks EXCEPT ![i].pc = "holding", ![i].entry = table[c]]
          /\ table' = [table EXCEPT ![c] = NoEntry]
    /\ UNCHANGED <<log, authenticated>> /\ TaskUnchanged

\* handle, no exchange to step: it is over, or was never expected
HandleNothing(i) ==
    /\ At(i, "blob", "holding") /\ tasks[i].entry.state # "in flight"
    /\ Answer(i, "no exchange")
    /\ UNCHANGED <<table, log, authenticated>> /\ TaskUnchanged

\* mutant: a payload that is not a blob puts the exchange back
WrongHandleEnds(i) ==
    /\ At(i, "blob", "holding") /\ tasks[i].entry.state = "in flight"
    /\ tasks[i].data.form \in {"not a blob", "abort"}
    /\ table' = [table EXCEPT ![tasks[i].channel] = tasks[i].entry]
    /\ Answer(i, tasks[i].data.form)
    /\ log' = [log EXCEPT ![tasks[i].entry.ex.id].outcome = "failed"]
    /\ UNCHANGED authenticated /\ TaskUnchanged

\* handle, a payload that is not a blob or one that gives up: the exchange is dropped
HandleEnds(i) ==
    /\ At(i, "blob", "holding") /\ tasks[i].entry.state = "in flight"
    /\ tasks[i].data.form \in {"not a blob", "abort"}
    /\ Answer(i, tasks[i].data.form)
    /\ log' = [log EXCEPT ![tasks[i].entry.ex.id].outcome = "failed"]
    /\ UNCHANGED <<table, authenticated>> /\ TaskUnchanged

\* mutant: the peer is told before, and instead of, the session
WrongHandleStep(i) ==
    /\ At(i, "blob", "holding") /\ tasks[i].entry.state = "in flight"
    /\ tasks[i].data.form \notin {"not a blob", "abort"}
    /\ LET t == tasks[i]
           r == Step(t.entry.ex, t.data)
       IN /\ tasks' = [tasks EXCEPT
                ![i].pc = "replying",
                ![i].entry = IF r.step = "complete" THEN Settled(r.ex) ELSE NoEntry,
                ![i].data = Empty,
                ![i].answer = r.step]
          /\ table' = IF r.step = "continue" THEN [table EXCEPT ![t.channel] = InFlight(r.ex)]
                                             ELSE table
          /\ log' = [log EXCEPT ![r.ex.id] = Noted(@, t.entry.ex, t.data, r)]
    /\ UNCHANGED authenticated /\ TaskUnchanged

\* handle, the step itself and the insert that follows a Continue
HandleStep(i) ==
    /\ At(i, "blob", "holding") /\ tasks[i].entry.state = "in flight"
    /\ tasks[i].data.form \notin {"not a blob", "abort"}
    /\ LET t == tasks[i]
           r == Step(t.entry.ex, t.data)
       IN /\ tasks' = [tasks EXCEPT
                ![i].pc = IF r.step = "complete" THEN "authenticating" ELSE "replying",
                ![i].entry = IF r.step = "complete" THEN Settled(r.ex) ELSE NoEntry,
                ![i].data = Empty,
                ![i].answer = r.step]
          /\ table' = IF r.step = "continue" THEN [table EXCEPT ![t.channel] = InFlight(r.ex)]
                                             ELSE table
          /\ log' = [log EXCEPT ![r.ex.id] = Noted(@, t.entry.ex, t.data, r)]
    /\ UNCHANGED authenticated /\ TaskUnchanged

\* Command::Authenticate, applied by the driver to the session it has by then
Authenticate(i) ==
    /\ tasks[i].pc = "authenticating"
    /\ LET ex == tasks[i].entry.ex
       IN /\ authenticated' = [id |-> ex.id, who |-> Effective(ex)]
          /\ log' = [log EXCEPT ![ex.id].recorded = @ \cup {session}]
    /\ IF tasks[i].kind = "open" THEN Finish(i)
                                 ELSE tasks' = [tasks EXCEPT ![i].pc = "replying"]
    /\ UNCHANGED table /\ TaskUnchanged

\* Command::Send: the reply, which only a channel still open carries to the peer
Reply(i) ==
    /\ tasks[i].pc = "replying"
    /\ Finish(i)
    /\ LET c == tasks[i].channel
           there == heard[c].id = tasks[i].start
       IN /\ heard' = IF there THEN [heard EXCEPT ![c].state = tasks[i].answer] ELSE heard
          /\ log' = IF there /\ tasks[i].answer = "complete"
                    THEN [log EXCEPT ![tasks[i].entry.ex.id].told = @ \cup {session}]
                    ELSE log
    /\ UNCHANGED <<mech, polite, served, used, table, session, authenticated>>

Run(i) ==
    \/ OnOpen(i) \/ HandleTake(i) \/ HandleNothing(i) \/ HandleEnds(i) \/ HandleStep(i)
    \/ Authenticate(i) \/ Reply(i)

(***************************************************************************)
(* The blobs a peer may send.  A claim is a user and perhaps someone else  *)
(* to act as; a proof is made with the right secret or another one, over   *)
(* the nonce of this exchange or of an earlier one.                        *)
(***************************************************************************)
Claim(k, nonce, secret, over, odd) == Data("fields", k[1], k[2], nonce, secret, over, odd)
Right(nonce, over, odd) == {Claim(k, nonce, Secret[k[1]], over, odd) : k \in Claims}
Mistaken(nonce) == {Claim(<<u, None>>, nonce, Wrong, nonce, "none") : u \in Mistakes}

\* blobs that have no field for someone else to act as
NoOther(S) == {[d EXCEPT !.authz = None] : d \in S}

Offers ==
    {NotABlob, Empty} \cup
    (CASE mech \in {"ANONYMOUS", "EXTERNAL"} ->
            {Malformed} \cup NoOther(Right(0, 0, "none")) \cup Mistaken(0)
       [] mech = "PLAIN" -> {Malformed} \cup Right(0, 0, "none") \cup Mistaken(0)
       [] mech \in {"CRAM-MD5", "DIGEST-MD5"} -> {}
       [] mech = "SCRAM-SHA-256" ->
            Right(0, 0, "none") \cup Right(0, 0, "flag") \cup {d \in Mistaken(0) : ~Known(d)})

\* the nonce a response repeats and the one it was made over: this exchange's for both,
\* an earlier exchange's for both, or a response of an earlier exchange under a new nonce
Nonces == {<<n, n>> : n \in DOMAIN log} \cup {<<Len(log), o>> : o \in DOMAIN log}

Digests == UNION {Right(0, o, "none") : o \in DOMAIN log}
Responses == UNION {Right(p[1], p[2], "none") : p \in Nonces}
OddResponses == UNION {Right(Len(log), Len(log), odd) : odd \in Oddities[mech]}

Blobs ==
    {Empty} \cup
    (CASE mech \in OneRound -> {}
       [] mech = "CRAM-MD5" -> {NotABlob, Abort} \cup NoOther(Digests) \cup Mistaken(Len(log))
       [] mech = "DIGEST-MD5" ->
            {NotABlob, Abort} \cup Responses \cup Mistaken(Len(log)) \cup OddResponses
       [] mech = "SCRAM-SHA-256" ->
            {NotABlob, Abort} \cup NoOther(Responses \cup OddResponses)
                                \cup {d \in Mistaken(Len(log)) : Known(d)})

Next ==
    \/ \E c \in Channels :
         \/ \E d \in Offers : Accept(c, d)
         \/ \E d \in Blobs : Deliver(c, d)
         \/ Close(c)
    \/ Swap
    \/ \E i \in DOMAIN tasks : Run(i)

Spec == Init /\ [][Next]_vars

-----------------------------------------------------------------------------
Phases == {"start", "challenged", "confirmed"}
Exchanges == [id : Nat, phase : Phases, user : Users \cup {None}, authz : Users \cup {None}]
Payloads ==
    [form : {"fields", "empty", "malformed", "not a blob", "abort"},
     user : Users \cup Strangers \cup {None}, authz : Users \cup {None}, nonce : Nat,
     secret : {Secret[u] : u \in Users} \cup {Wrong, None}, over : Nat,
     odd : {"none", "flag", "nc", "qop", "realm", "binding"}]
Lines ==
    [born : Nat, outcome : {"open", "complete", "failed"}, guesses : Nat, first : Payloads,
     proof : Payloads, told : SUBSET Nat, recorded : SUBSET Nat]
Entries == {NoEntry} \cup [state : {"in flight", "settled"}, ex : Exchanges]
Answers == {None, "continue", "complete", "failed", "no exchange", "not a blob", "abort"}
Tasks ==
    [kind : {"open", "blob"}, channel : Channels, data : Payloads, start : Nat,
     pc : {"spawned", "holding", "authenticating", "replying", "done"},
     entry : Entries, answer : Answers]

\* Every variable holds what it may hold.
TypeOK ==
    /\ mech \in Mechanisms /\ polite \in BOOLEAN
    /\ served \subseteq Channels /\ used \subseteq Channels
    /\ table \in [Channels -> Entries]
    /\ tasks \in Seq(Tasks)
    /\ log \in Seq(Lines)
    /\ session \in Nat
    /\ authenticated \in [id : Nat, who : Users \cup {None}]
    /\ heard \in [Channels -> [id : Nat, state : Answers \cup {"closed", "waiting"}]]

(***************************************************************************)
(* Whoever the session is recorded as was proved by the exchange that      *)
(* recorded it: the last proof weighed was made with the secret of the     *)
(* user it names and, where the mechanism issues a challenge, over the     *)
(* challenge of this very exchange and of no earlier one; in SCRAM-SHA-256 *)
(* that user is the one the first message named.  (ANONYMOUS and EXTERNAL  *)
(* prove nothing: the application admitted the name.)  The identity on the *)
(* session is exactly the one asked for: whom the blob that names people   *)
(* asked to act as, or else the user it names.                             *)
(***************************************************************************)
Proved(x) ==
    LET p == log[x].proof
    IN /\ log[x].outcome = "complete"
       /\ mech \in {"ANONYMOUS", "EXTERNAL"} => p.user \in Admits
       /\ mech \notin {"ANONYMOUS", "EXTERNAL"} =>
              p.user \in Users /\ p.secret = Secret[p.user]
       /\ mech \in Challenging => p.over = x
       /\ mech = "SCRAM-SHA-256" => p.user = log[x].first.user

AskedFor(x) ==
    LET b == IF mech = "SCRAM-SHA-256" THEN log[x].first ELSE log[x].proof
    IN  IF mech \in {"PLAIN", "DIGEST-MD5", "SCRAM-SHA-256"} /\ b.authz # None
        THEN b.authz
        ELSE b.user

ProofFits ==
    authenticated # NoIdentity =>
        Proved(authenticated.id) /\ authenticated.who = AskedFor(authenticated.id)

(***************************************************************************)
(* One guess per exchange: blobs pipelined on one channel, or left running *)
(* over a close and a restart under the same number, never weigh two       *)
(* proofs against one challenge, because the entry leaves the table before *)
(* it is stepped.                                                          *)
(***************************************************************************)
OneGuess == \A x \in DOMAIN log : log[x].guesses <= 1

\* the exchanges that some later blob could still step
Live == {x \in DOMAIN log :
            \/ \E c \in Channels : table[c].state = "in flight" /\ table[c].ex.id = x
            \/ \E i \in DOMAIN tasks : /\ At(i, "blob", "holding")
                                       /\ tasks[i].entry.state = "in flight"
                                       /\ tasks[i].entry.ex.id = x}

\* An exchange that completed, failed or was given up is never stepped again.
OverIsOver == \A x \in Live : log[x].outcome = "open"

\* task i is an on_open about to record exchange x, or yet to find it settled
Recording(i, x) ==
    \/ At(i, "open", "authenticating") /\ tasks[i].entry.ex.id = x
    \/ /\ At(i, "open", "spawned")
       /\ table[tasks[i].channel].state = "settled" /\ table[tasks[i].channel].ex.id = x

(***************************************************************************)
(* A peer that has been told in this session that it is authenticated is   *)
(* recorded on it.  Where a challenge was issued, handle records and then  *)
(* replies, so it holds without exception, whatever the peer pipelines,    *)
(* closes or restarts.  A one-round mechanism tells the peer in accept,    *)
(* which cannot record; there, if the peer waits for its answers and       *)
(* reuses no number, some on_open task is always left that will record     *)
(* this very exchange: nobody else takes the settled entry away.           *)
(***************************************************************************)
ToldIsRecorded ==
    \A x \in DOMAIN log :
        session \in log[x].told =>
            \/ session \in log[x].recorded
            \/ mech \in OneRound /\ (polite => \E i \in DOMAIN tasks : Recording(i, x))

\* What vortice-sasl/src/lib.rs says of tuning: an identity is not carried across a
\* transport swap.
NotCarriedAcross ==
    authenticated # NoIdentity => log[authenticated.id].born = session

-----------------------------------------------------------------------------
(***************************************************************************)
(* The inductive invariant behind ProofFits, OneGuess and OverIsOver.      *)
(***************************************************************************)

\* what an exchange that waits for a blob has been through
Ready(ex) ==
    /\ mech \in Challenging
    /\ ex.phase = "challenged" \/ (ex.phase = "confirmed" /\ mech = "DIGEST-MD5")
    /\ mech = "SCRAM-SHA-256" => ex.user \in Users
    /\ mech = "CRAM-MD5" => ex.authz = None

\* the exchange remembers whom the first message named
Remembers(ex, first) ==
    mech = "SCRAM-SHA-256" => ex.user = first.user /\ ex.authz = first.authz

\* the proof p entitles the exchange to the identity it carries
Grants(ex, p) ==
    /\ ex.user = p.user
    /\ mech \in {"ANONYMOUS", "EXTERNAL"} => p.user \in Admits
    /\ mech \notin {"ANONYMOUS", "EXTERNAL"} => p.user \in Users /\ p.secret = Secret[p.user]
    /\ mech \in Challenging => p.over = ex.id
    /\ mech \in {"PLAIN", "DIGEST-MD5"} => ex.authz = p.authz
    /\ mech \in {"ANONYMOUS", "CRAM-MD5"} => ex.authz = None
    /\ mech = "EXTERNAL" => ex.authz = p.user

Pending(ex) ==
    /\ ex.id \in DOMAIN log
    /\ Ready(ex)
    /\ log[ex.id].outcome = "open"
    /\ Remembers(ex, log[ex.id].first)
    /\ ex.phase = "challenged" => log[ex.id].guesses = 0
    /\ ex.phase = "confirmed" => Grants(ex, log[ex.id].proof)

Won(ex) ==
    /\ ex.id \in DOMAIN log
    /\ log[ex.id].outcome = "complete"
    /\ Remembers(ex, log[ex.id].first)
    /\ Grants(ex, log[ex.id].proof)

\* An entry is as good as the log says, wherever it is kept.
Sound(entry) ==
    /\ entry.state = "in flight" => Pending(entry.ex)
    /\ entry.state = "settled" => Won(entry.ex)
EntriesSound ==
    /\ \A c \in Channels : Sound(table[c])
    /\ \A i \in DOMAIN tasks : Sound(tasks[i].entry)

\* A task has in its hands what its program counter says.
InStep(t) ==
    /\ t.entry.state = "in flight" => t.pc = "holding"
    /\ t.answer # None => t.pc \in {"authenticating", "replying"}
    /\ t.pc = "authenticating" \/ t.answer = "complete" => t.entry.state = "settled"
TasksInStep == \A i \in DOMAIN tasks : InStep(tasks[i])

\* An exchange that can still be stepped is in one place only: under one channel of the
\* table, or in the hands of one task.
Apart(entry, other) ==
    ~(entry.state = "in flight" /\ other.state = "in flight" /\ entry.ex.id = other.ex.id)
OneHolder ==
    /\ \A c, b \in Channels : c # b => Apart(table[c], table[b])
    /\ \A i, j \in DOMAIN tasks : i # j => Apart(tasks[i].entry, tasks[j].entry)
    /\ \A c \in Channels, i \in DOMAIN tasks : Apart(table[c], tasks[i].entry)

\* Whoever is recorded was put there by an exchange that won.
RecordedWon ==
    authenticated # NoIdentity =>
        \E user, authz \in Users \cup {None} :
            LET ex == [Begin(authenticated.id) EXCEPT !.user = user, !.authz = authz]
            IN  Won(ex) /\ authenticated.who = Effective(ex)

SaslInv ==
    /\ TypeOK
    /\ EntriesSound
    /\ TasksInStep
    /\ OneHolder
    /\ RecordedWon
    /\ OneGuess

-----------------------------------------------------------------------------
(***************************************************************************)
(* What ToldIsRecorded needs besides.                                      *)
(***************************************************************************)

\* A number that opened a channel, and a task that was spawned on it, is never drawn again.
StartsKnown ==
    /\ \A c \in served : heard[c].id \in DOMAIN log
    /\ \A i \in DOMAIN tasks : tasks[i].pc # "done" => tasks[i].start \in DOMAIN log

\* Nobody was told anything in a session yet to come.
ToldBySession == \A x \in DOMAIN log : \A s \in log[x].told : s <= session

\* A blob's task that is about to tell the peer has recorded its identity in this session,
\* if the channel is still there to be told on.
RecordsFirst ==
    \A i \in DOMAIN tasks :
        /\ tasks[i].pc = "replying" /\ tasks[i].answer = "complete"
        /\ heard[tasks[i].channel].id = tasks[i].start
        => session \in log[tasks[i].entry.ex.id].recorded

\* A peer that waits sends no blob where no challenge is issued, and starts no channel over
\* an entry that on_open is to find.
LeftAlone ==
    polite /\ mech \in OneRound =>
        /\ \A c \in Channels : heard[c].state # "continue"
        /\ \A i \in DOMAIN tasks : tasks[i].kind = "open" /\ tasks[i].pc # "replying"
        /\ \A c \in Channels :
              table[c].state = "settled" /\ session \in log[table[c].ex.id].told => c \in used

ToldInv ==
    /\ StartsKnown
    /\ ToldBySession
    /\ RecordsFirst
    /\ LeftAlone
    /\ ToldIsRecorded
=============================================================================

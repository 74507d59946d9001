----------------------------- MODULE SaslProofs -----------------------------
(***************************************************************************)
(* Theorems about Sasl, for every set of channels, users and mechanisms    *)
(* and every number of exchanges, blobs and swaps.                         *)
(***************************************************************************)
EXTENDS Sasl, SequenceTheorems, TLAPS

-----------------------------------------------------------------------------
(* What the mechanisms do with a blob.                                     *)

(* Mechanism::begin and the first step: an exchange that goes on waits for *)
(* an answer to its challenge; one that is complete has just been proved,  *)
(* by a mechanism that needs no challenge.                                 *)
LEMMA FirstStep ==
    ASSUME mech \in Mechanisms, NEW id \in Nat, NEW d \in Payloads
    PROVE  LET r == Step(Begin(id), d)
           IN  /\ r.step \in {"continue", "complete", "failed"}
               /\ r.ex \in Exchanges /\ r.ex.id = id
               /\ r.step = "continue" => Ready(r.ex) /\ r.ex.phase = "challenged"
               /\ r.step = "complete" => mech \in OneRound /\ Grants(r.ex, d)
               /\ r.step # "failed" => Remembers(r.ex, d)
  <1> DEFINE begun == Begin(id)
  <1>1. /\ begun \in Exchanges
        /\ begun.id = id /\ begun.phase = "start" /\ begun.user = None /\ begun.authz = None
    BY DEF Begin, Exchanges, Phases
  <1> SUFFICES ASSUME NEW ex \in Exchanges,
                      ex.id = id, ex.phase = "start", ex.user = None, ex.authz = None
               PROVE  LET r == Step(ex, d)
                      IN  /\ r.step \in {"continue", "complete", "failed"}
                          /\ r.ex \in Exchanges /\ r.ex.id = id
                          /\ r.step = "continue" => Ready(r.ex) /\ r.ex.phase = "challenged"
                          /\ r.step = "complete" => mech \in OneRound /\ Grants(r.ex, d)
                          /\ r.step # "failed" => Remembers(r.ex, d)
    BY <1>1
  <1> USE SaslAssumption DEF OneRound, Challenging, Continue, Complete, Denied, Known, As,
                             Exchanges, Phases, Payloads, Strangers, Remembers
  <1>3. CASE mech = "ANONYMOUS"
    BY <1>3 DEF Step, AnonymousStep, Admitted, Grants
  <1>4. CASE mech = "EXTERNAL"
    BY <1>4 DEF Step, ExternalStep, Admitted, Grants
  <1>5. CASE mech = "PLAIN"
    BY <1>5 DEF Step, PlainStep, Grants
  <1>6. CASE mech = "CRAM-MD5"
    BY <1>6 DEF Step, CramStep, Ready
  <1>7. CASE mech = "DIGEST-MD5"
    BY <1>7 DEF Step, DigestStep, Ready
  <1>8. CASE mech = "SCRAM-SHA-256"
    BY <1>8 DEF Step, ScramStep, Ready
  <1> QED
    BY <1>3, <1>4, <1>5, <1>6, <1>7, <1>8

(* A later step: an exchange goes on only from a proof that holds to the   *)
(* acknowledgement of it, and is complete only with a proof that holds,    *)
(* given now or acknowledged now; whom the first message named is not      *)
(* forgotten.                                                              *)
LEMMA LaterStep ==
    ASSUME mech \in Mechanisms, NEW ex \in Exchanges, NEW d \in Payloads, Ready(ex),
           NEW first, Remembers(ex, first)
    PROVE  LET r == Step(ex, d)
           IN  /\ r.step \in {"continue", "complete", "failed"}
               /\ r.ex \in Exchanges /\ r.ex.id = ex.id
               /\ r.step = "continue" =>
                    /\ ex.phase = "challenged" /\ r.ex.phase = "confirmed"
                    /\ Ready(r.ex) /\ Grants(r.ex, d)
               /\ r.step = "complete" =>
                    \/ ex.phase = "challenged" /\ Grants(r.ex, d)
                    \/ ex.phase = "confirmed" /\ r.ex = ex
               /\ r.step # "failed" => Remembers(r.ex, first)
  <1> USE SaslAssumption DEF OneRound, Challenging, Continue, Complete, Denied, Known, As,
                             Exchanges, Phases, Payloads, Strangers, Ready, Proves, Remembers
  <1>1. CASE mech = "CRAM-MD5"
    BY <1>1 DEF Step, CramStep, Grants
  <1>2. CASE mech = "DIGEST-MD5"
    <2>1. CASE ex.phase = "challenged"
      BY <1>2, <2>1 DEF Step, DigestStep, DigestHolds, Grants
    <2>2. CASE ex.phase = "confirmed"
      BY <1>2, <2>2 DEF Step, DigestStep
    <2> QED
      BY <2>1, <2>2
  <1>3. CASE mech = "SCRAM-SHA-256"
    BY <1>3 DEF Step, ScramStep, ScramHolds, Grants
  <1> QED
    BY <1>1, <1>2, <1>3

(* All that a peer sends is a payload.                                     *)
LEMMA BareType ==
    /\ Empty \in Payloads /\ Malformed \in Payloads
    /\ NotABlob \in Payloads /\ Abort \in Payloads
  BY DEF Empty, Malformed, NotABlob, Abort, Bare, Data, Payloads

LEMMA RightType ==
    ASSUME NEW nonce \in Nat, NEW over \in Nat,
           NEW odd \in {"none", "flag", "nc", "qop", "realm", "binding"}
    PROVE  Right(nonce, over, odd) \subseteq Payloads
  <1> SUFFICES ASSUME NEW k \in Claims
               PROVE  Claim(k, nonce, Secret[k[1]], over, odd) \in Payloads
    BY DEF Right
  <1>1. k[1] \in Users /\ k[2] \in Users \cup {None}
    BY SaslAssumption
  <1> QED
    BY <1>1 DEF Claim, Data, Payloads

LEMMA MistakenType ==
    ASSUME NEW nonce \in Nat
    PROVE  Mistaken(nonce) \subseteq Payloads
  <1> SUFFICES ASSUME NEW u \in Mistakes
               PROVE  Claim(<<u, None>>, nonce, Wrong, nonce, "none") \in Payloads
    BY DEF Mistaken
  <1>1. u \in Users \cup Strangers
    BY SaslAssumption
  <1> QED
    BY <1>1 DEF Claim, Data, Payloads

LEMMA NoOtherType ==
    ASSUME NEW S, S \subseteq Payloads
    PROVE  NoOther(S) \subseteq Payloads
  BY DEF NoOther, Payloads

LEMMA OffersType == mech \in Mechanisms => Offers \subseteq Payloads
  <1> SUFFICES ASSUME mech \in Mechanisms
               PROVE  Offers \subseteq Payloads
    OBVIOUS
  <1>1. mech \in OneRound \cup Challenging
    BY SaslAssumption
  <1>2. /\ Right(0, 0, "none") \subseteq Payloads /\ Right(0, 0, "flag") \subseteq Payloads
        /\ Mistaken(0) \subseteq Payloads
    BY RightType, MistakenType
  <1>3. NoOther(Right(0, 0, "none")) \subseteq Payloads
    BY <1>2, NoOtherType
  <1>4. CASE mech \in {"ANONYMOUS", "EXTERNAL"}
    BY <1>2, <1>3, <1>4, BareType DEF Offers
  <1>5. CASE mech = "PLAIN"
    BY <1>2, <1>5, BareType DEF Offers
  <1>6. CASE mech \in {"CRAM-MD5", "DIGEST-MD5"}
    BY <1>6, BareType DEF Offers
  <1>7. CASE mech = "SCRAM-SHA-256"
    BY <1>2, <1>7, BareType DEF Offers
  <1> QED
    BY <1>1, <1>4, <1>5, <1>6, <1>7 DEF OneRound, Challenging

LEMMA BlobsType == mech \in Mechanisms /\ log \in Seq(Lines) => Blobs \subseteq Payloads
  <1> SUFFICES ASSUME mech \in Mechanisms, log \in Seq(Lines)
               PROVE  Blobs \subseteq Payloads
    OBVIOUS
  <1>1. mech \in OneRound \cup Challenging
    BY SaslAssumption
  <1>2. DOMAIN log \subseteq Nat /\ Len(log) \in Nat
    OBVIOUS
  <1>3. Mistaken(Len(log)) \subseteq Payloads
    BY <1>2, MistakenType
  <1>4. Digests \subseteq Payloads
    BY <1>2, RightType DEF Digests
  <1>5. Responses \subseteq Payloads
    <2>1. \A p \in Nonces : p[1] \in Nat /\ p[2] \in Nat
      BY <1>2 DEF Nonces
    <2> QED
      BY <2>1, RightType DEF Responses
  <1>6. CASE mech \in OneRound
    BY <1>6, BareType DEF Blobs, OneRound
  <1>7. CASE mech = "CRAM-MD5"
    <2>1. NoOther(Digests) \subseteq Payloads
      BY <1>4, NoOtherType
    <2> QED
      BY <1>3, <1>7, <2>1, BareType DEF Blobs, OneRound
  <1>8. CASE mech \in {"DIGEST-MD5", "SCRAM-SHA-256"}
    <2>1. Oddities[mech] \subseteq {"nc", "qop", "realm", "binding"}
      BY <1>8, SaslAssumption
    <2>2. OddResponses \subseteq Payloads
      BY <2>1, <1>2, RightType DEF OddResponses
    <2>3. NoOther(Responses \cup OddResponses) \subseteq Payloads
      BY <1>5, <2>2, NoOtherType
    <2>4. CASE mech = "DIGEST-MD5"
      BY <1>3, <1>5, <2>2, <2>4, BareType DEF Blobs, OneRound
    <2>5. CASE mech = "SCRAM-SHA-256"
      BY <1>3, <2>3, <2>5, BareType DEF Blobs, OneRound
    <2> QED
      BY <1>8, <2>4, <2>5
  <1> QED
    BY <1>1, <1>6, <1>7, <1>8 DEF Challenging

-----------------------------------------------------------------------------
(* What keeps an entry sound: the line of its exchange says what it said.  *)

SameLine(x) ==
    /\ log'[x].outcome = log[x].outcome
    /\ log'[x].proof = log[x].proof
    /\ log'[x].guesses = log[x].guesses
    /\ log'[x].first = log[x].first

LEMMA WonKept ==
    ASSUME mech' = mech, DOMAIN log \subseteq DOMAIN log', NEW ex, Won(ex), SameLine(ex.id)
    PROVE  Won(ex)'
  BY DEF Won, Grants, Remembers, SameLine

LEMMA EntryStates ==
    ASSUME NEW entry \in Entries
    PROVE  /\ entry.state \in {"in flight", "settled", "absent"}
           /\ entry.state # "absent" => entry.ex \in Exchanges
  <1>1. CASE entry = NoEntry
    BY <1>1 DEF NoEntry
  <1>2. CASE entry \in [state : {"in flight", "settled"}, ex : Exchanges]
    BY <1>2
  <1> QED
    BY <1>1, <1>2 DEF Entries

LEMMA EntryOf ==
    ASSUME NEW ex \in Exchanges
    PROVE  /\ Settled(ex) \in Entries
           /\ Settled(ex).state = "settled" /\ Settled(ex).ex = ex
           /\ InFlight(ex) \in Entries
           /\ InFlight(ex).state = "in flight" /\ InFlight(ex).ex = ex
  BY DEF Settled, InFlight, Entries

LEMMA SoundKept ==
    ASSUME mech' = mech, DOMAIN log \subseteq DOMAIN log', NEW entry \in Entries, Sound(entry),
           entry.state # "absent" => SameLine(entry.ex.id)
    PROVE  Sound(entry)'
  <1>1. CASE entry.state = "in flight"
    BY <1>1 DEF Sound, Pending, Ready, Grants, Remembers, SameLine
  <1>2. CASE entry.state = "settled"
    BY <1>2, WonKept DEF Sound
  <1>3. CASE entry.state = "absent"
    BY <1>3 DEF Sound
  <1> QED
    BY <1>1, <1>2, <1>3, EntryStates

LEMMA SoundStays ==
    ASSUME mech' = mech, DOMAIN log \subseteq DOMAIN log', \A x \in DOMAIN log : SameLine(x),
           NEW entry \in Entries, Sound(entry)
    PROVE  Sound(entry)'
  <1>1. entry.state # "absent" => entry.ex.id \in DOMAIN log
    BY EntryStates DEF Sound, Pending, Won
  <1> QED
    BY <1>1, SoundKept

(* What keeps RecordedWon: nothing is recorded, and no line of a winner    *)
(* changes.                                                                *)
LEMMA RecordKept ==
    ASSUME mech' = mech, DOMAIN log \subseteq DOMAIN log', RecordedWon,
           authenticated' = authenticated,
           \A x \in DOMAIN log : log[x].outcome = "complete" => SameLine(x)
    PROVE  RecordedWon'
  <1> SUFFICES ASSUME authenticated # NoIdentity
               PROVE  RecordedWon'
    BY DEF RecordedWon
  <1> DEFINE Holder(user, authz) ==
               [Begin(authenticated.id) EXCEPT !.user = user, !.authz = authz]
  <1>1. PICK user \in Users \cup {None}, authz \in Users \cup {None} :
          Won(Holder(user, authz)) /\ authenticated.who = Effective(Holder(user, authz))
    BY DEF RecordedWon
  <1>2. Won(Holder(user, authz))'
    <2>1. Holder(user, authz).id = authenticated.id
      BY DEF Begin
    <2>2. SameLine(Holder(user, authz).id)
      BY <1>1 DEF Won
    <2> QED
      BY <1>1, <2>2, WonKept DEF Won, Grants, Remembers, SameLine
  <1> QED
    BY <1>1, <1>2 DEF RecordedWon, Effective

-----------------------------------------------------------------------------
(* The invariant holds at the start and after every step.                  *)

LEMMA Absent ==
    /\ NoEntry \in Entries /\ NoEntry.state = "absent"
    /\ Sound(NoEntry) /\ Sound(NoEntry)'
    /\ \A entry : Apart(NoEntry, entry) /\ Apart(entry, NoEntry)
  BY DEF Sound, Apart, NoEntry, Entries

LEMMA InitInv == Init => SaslInv
  <1> SUFFICES ASSUME Init
               PROVE  SaslInv
    OBVIOUS
  <1>1. TypeOK
    <2>1. polite \in BOOLEAN
      BY DEF Init
    <2>2. table \in [Channels -> Entries]
      BY DEF Init, Entries
    <2>3. tasks \in Seq(Tasks) /\ log \in Seq(Lines)
      BY DEF Init
    <2>4. heard \in [Channels -> [id : Nat, state : Answers \cup {"closed", "waiting"}]]
      BY DEF Init
    <2> QED
      BY <2>1, <2>2, <2>3, <2>4 DEF Init, TypeOK, NoIdentity
  <1>2. EntriesSound
    <2>1. \A c \in Channels : table[c] = NoEntry
      BY DEF Init
    <2>2. Sound(NoEntry)
      BY DEF Sound, NoEntry
    <2>3. DOMAIN tasks = {}
      BY DEF Init
    <2> QED
      BY <2>1, <2>2, <2>3 DEF EntriesSound
  <1>3. TasksInStep /\ OneHolder /\ OneGuess
    <2>1. /\ \A c \in Channels : table[c] = NoEntry
          /\ DOMAIN tasks = {} /\ DOMAIN log = {}
      BY DEF Init
    <2> QED
      BY <2>1, Absent DEF TasksInStep, OneHolder, OneGuess
  <1>4. RecordedWon
    BY DEF Init, RecordedWon
  <1> QED
    BY <1>1, <1>2, <1>3, <1>4 DEF SaslInv

(* Steps that touch neither the table nor the log, and the tasks only by   *)
(* spawning one.                                                           *)
LEMMA QuietInv ==
    ASSUME SaslInv, TypeOK', UNCHANGED <<mech, table, log>>,
           authenticated' \in {authenticated, NoIdentity},
           \/ UNCHANGED tasks
           \/ \E t \in Tasks : /\ t.pc = "spawned" /\ t.answer = None /\ t.entry = NoEntry
                               /\ tasks' = Append(tasks, t)
    PROVE  SaslInv'
  <1> DEFINE Fresh(t) == t.pc = "spawned" /\ t.answer = None /\ t.entry = NoEntry
  <1>1. ASSUME NEW i \in DOMAIN tasks'
        PROVE  (i \in DOMAIN tasks /\ tasks'[i] = tasks[i]) \/ Fresh(tasks'[i])
    <2>1. CASE UNCHANGED tasks
      BY <2>1
    <2>2. ASSUME NEW t \in Tasks, t.pc = "spawned", t.answer = None, t.entry = NoEntry,
                 tasks' = Append(tasks, t)
          PROVE  <1>1!2
      BY <2>2, AppendProperties, LenProperties DEF SaslInv, TypeOK
    <2> QED
      BY <2>1, <2>2
  <1>2. ASSUME NEW entry, Sound(entry)
        PROVE  Sound(entry)'
    BY <1>2 DEF Sound, Pending, Won, Ready, Grants, Remembers
  <1>3. EntriesSound'
    <2>1. \A c \in Channels : Sound(table[c])'
      BY <1>2 DEF SaslInv, EntriesSound
    <2>2. ASSUME NEW i \in DOMAIN tasks'
          PROVE  Sound(tasks[i].entry)'
      BY <1>1, <1>2, Absent DEF SaslInv, EntriesSound
    <2> QED
      BY <2>1, <2>2 DEF EntriesSound
  <1>4. TasksInStep'
    <2> SUFFICES ASSUME NEW i \in DOMAIN tasks'
                 PROVE  InStep(tasks[i])'
      BY DEF TasksInStep
    <2>1. CASE i \in DOMAIN tasks /\ tasks'[i] = tasks[i]
      BY <2>1 DEF SaslInv, TasksInStep, InStep
    <2>2. CASE Fresh(tasks'[i])
      BY <2>2 DEF InStep, NoEntry, None
    <2> QED
      BY <1>1, <2>1, <2>2
  <1>5. OneHolder'
    <2>1. ASSUME NEW i \in DOMAIN tasks', NEW j \in DOMAIN tasks', i # j
          PROVE  Apart(tasks[i].entry, tasks[j].entry)'
      BY <1>1, <2>1, Absent DEF SaslInv, OneHolder, Apart
    <2>2. ASSUME NEW c \in Channels, NEW i \in DOMAIN tasks'
          PROVE  Apart(table[c], tasks[i].entry)'
      BY <1>1, Absent DEF SaslInv, OneHolder, Apart
    <2> QED
      BY <2>1, <2>2 DEF SaslInv, OneHolder, Apart
  <1>6. RecordedWon'
    BY RecordKept DEF SaslInv, RecordedWon, SameLine
  <1>7. OneGuess'
    BY DEF SaslInv, OneGuess
  <1> QED
    BY <1>3, <1>4, <1>5, <1>6, <1>7 DEF SaslInv

LEMMA TaskType == TypeOK => \A i \in DOMAIN tasks : tasks[i] \in Tasks
  <1> SUFFICES ASSUME TypeOK, NEW i \in DOMAIN tasks
               PROVE  tasks[i] \in Tasks
    OBVIOUS
  <1>1. tasks \in [1 .. Len(tasks) -> Tasks] /\ DOMAIN tasks = 1 .. Len(tasks)
    BY LenProperties DEF TypeOK
  <1> QED
    BY <1>1

(* A task replaced by another state of it.                                 *)
LEMMA TaskMoved ==
    ASSUME TypeOK, NEW i \in DOMAIN tasks, NEW t \in Tasks,
           tasks' = [tasks EXCEPT ![i] = t]
    PROVE  /\ tasks' \in Seq(Tasks)
           /\ DOMAIN tasks' = DOMAIN tasks
           /\ tasks'[i] = t
           /\ \A j \in DOMAIN tasks : j # i => tasks'[j] = tasks[j]
  BY ExceptSeq, LenProperties DEF TypeOK

(* Steps of one task i on one channel c. The log changes only in the line  *)
(* of the exchange the task was holding, and what the task or the channel  *)
(* holds after it is an exchange that one of them held before.             *)
LEMMA StepKeeps ==
    ASSUME SaslInv, mech' = mech, DOMAIN log' = DOMAIN log,
           NEW i \in DOMAIN tasks, NEW c \in Channels,
           DOMAIN tasks' = DOMAIN tasks,
           \A j \in DOMAIN tasks : j # i => tasks'[j] = tasks[j],
           \A b \in Channels : b # c => table'[b] = table[b],
           \A x \in DOMAIN log :
               \/ SameLine(x)
               \/ tasks[i].entry.state = "in flight" /\ tasks[i].entry.ex.id = x,
           Sound(table[c])', Sound(tasks[i].entry)', InStep(tasks'[i]),
           Apart(table'[c], tasks'[i].entry),
           table'[c].state = "in flight" =>
               ~Apart(table'[c], table[c]) \/ ~Apart(table'[c], tasks[i].entry),
           tasks'[i].entry.state = "in flight" => ~Apart(tasks'[i].entry, table[c])
    PROVE  /\ EntriesSound' /\ TasksInStep' /\ OneHolder'
           /\ authenticated' = authenticated => RecordedWon'
  <1>1. /\ \A j \in DOMAIN tasks : tasks[j] \in Tasks /\ tasks[j].entry \in Entries
        /\ \A b \in Channels : table[b] \in Entries
    <2>1. \A j \in DOMAIN tasks : tasks[j] \in Tasks
      BY TaskType DEF SaslInv
    <2>2. \A t \in Tasks : t.entry \in Entries
      BY DEF Tasks
    <2>3. \A b \in Channels : table[b] \in Entries
      BY DEF SaslInv, TypeOK
    <2> QED
      BY <2>1, <2>2, <2>3
  <1>2. ASSUME NEW x \in DOMAIN log, ~SameLine(x)
        PROVE  tasks[i].entry.state = "in flight" /\ tasks[i].entry.ex.id = x
    BY <1>2
  <1>3. ASSUME NEW x \in DOMAIN log, log[x].outcome = "complete"
        PROVE  SameLine(x)
    BY <1>2, <1>3 DEF SaslInv, EntriesSound, Sound, Pending
  <1>4. ASSUME NEW e \in Entries, Sound(e), Apart(e, tasks[i].entry)
        PROVE  Sound(e)'
    <2>1. CASE e.state = "in flight"
      <3>1. e.ex.id \in DOMAIN log
        BY <1>4, <2>1 DEF Sound, Pending
      <3>2. SameLine(e.ex.id)
        BY <1>2, <1>4, <2>1, <3>1 DEF Apart
      <3> QED
        BY <1>4, <3>2, SoundKept
    <2>2. CASE e.state = "settled"
      <3>1. SameLine(e.ex.id)
        BY <1>3, <1>4, <2>2 DEF Sound, Won
      <3> QED
        BY <1>4, <3>1, SoundKept
    <2>3. CASE e.state = "absent"
      BY <1>4, <2>3, SoundKept
    <2> QED
      BY <2>1, <2>2, <2>3, EntryStates
  <1>5. EntriesSound'
    <2>1. ASSUME NEW b \in Channels
          PROVE  Sound(table[b])'
      <3>1. CASE b = c
        BY <3>1
      <3>2. CASE b # c
        BY <1>1, <1>4, <3>2 DEF SaslInv, EntriesSound, OneHolder
      <3> QED
        BY <3>1, <3>2
    <2>2. ASSUME NEW j \in DOMAIN tasks'
          PROVE  Sound(tasks[j].entry)'
      <3>1. CASE j = i
        BY <3>1
      <3>2. CASE j # i
        BY <1>1, <1>4, <3>2 DEF SaslInv, EntriesSound, OneHolder
      <3> QED
        BY <3>1, <3>2
    <2> QED
      BY <2>1, <2>2 DEF EntriesSound
  <1>6. TasksInStep'
    <2> SUFFICES ASSUME NEW j \in DOMAIN tasks'
                 PROVE  InStep(tasks[j])'
      BY DEF TasksInStep
    <2>1. CASE j = i
      BY <2>1 DEF InStep
    <2>2. CASE j # i
      <3>1. InStep(tasks[j]) /\ tasks'[j] = tasks[j]
        BY <2>2 DEF SaslInv, TasksInStep
      <3> QED
        BY <3>1 DEF InStep
    <2> QED
      BY <2>1, <2>2
  <1>7. OneHolder'
    <2>1. ASSUME NEW e \in {table'[c], tasks'[i].entry}, NEW f,
                 Apart(table[c], f), Apart(tasks[i].entry, f)
          PROVE  Apart(e, f) /\ Apart(f, e)
      BY <2>1 DEF Apart
    <2>2. ASSUME NEW b \in Channels, b # c
          PROVE  /\ Apart(table[c], table[b]) /\ Apart(tasks[i].entry, table[b])
                 /\ table'[b] = table[b]
      BY <2>2 DEF SaslInv, OneHolder, Apart
    <2>3. ASSUME NEW j \in DOMAIN tasks, j # i
          PROVE  /\ Apart(table[c], tasks[j].entry) /\ Apart(tasks[i].entry, tasks[j].entry)
                 /\ tasks'[j] = tasks[j]
      BY <2>3 DEF SaslInv, OneHolder
    <2>4. ASSUME NEW b \in Channels, NEW d \in Channels, b # d
          PROVE  Apart(table'[b], table'[d])
      <3>1. CASE b # c /\ d # c
        BY <2>2, <2>4, <3>1 DEF SaslInv, OneHolder
      <3>2. CASE b = c \/ d = c
        BY <2>1, <2>2, <2>4, <3>2
      <3> QED
        BY <3>1, <3>2
    <2>5. ASSUME NEW j \in DOMAIN tasks, NEW k \in DOMAIN tasks, j # k
          PROVE  Apart(tasks'[j].entry, tasks'[k].entry)
      <3>1. CASE j # i /\ k # i
        BY <2>3, <2>5, <3>1 DEF SaslInv, OneHolder
      <3>2. CASE j = i \/ k = i
        BY <2>1, <2>3, <2>5, <3>2
      <3> QED
        BY <3>1, <3>2
    <2>6. ASSUME NEW b \in Channels, NEW j \in DOMAIN tasks
          PROVE  Apart(table'[b], tasks'[j].entry)
      <3>1. CASE b # c /\ j # i
        BY <2>2, <2>3, <3>1 DEF SaslInv, OneHolder
      <3>2. CASE b = c /\ j # i
        BY <2>1, <2>3, <3>2
      <3>3. CASE b # c /\ j = i
        BY <2>1, <2>2, <3>3
      <3>4. CASE b = c /\ j = i
        BY <3>4
      <3> QED
        BY <3>1, <3>2, <3>3, <3>4
    <2> QED
      BY <2>4, <2>5, <2>6 DEF OneHolder
  <1>8. ASSUME authenticated' = authenticated
        PROVE  RecordedWon'
    BY <1>3, <1>8, RecordKept DEF SaslInv
  <1> QED
    BY <1>5, <1>6, <1>7, <1>8

(* Steps of the peer and of the driver that spawn no exchange.             *)
LEMMA DeliverInv ==
    ASSUME SaslInv, NEW c \in Channels, NEW d \in Blobs, Deliver(c, d)
    PROVE  SaslInv'
  <1>1. d \in Payloads
    BY BlobsType DEF SaslInv, TypeOK
  <1>2. heard' \in [Channels -> [id : Nat, state : Answers \cup {"closed", "waiting"}]]
    BY DEF SaslInv, TypeOK, Deliver
  <1> DEFINE t == Task("blob", c, d)
  <1>3. t \in Tasks /\ t.pc = "spawned" /\ t.answer = None /\ t.entry = NoEntry
    BY <1>1, <1>2 DEF Task, Tasks, Entries, Answers
  <1>4. tasks' = Append(tasks, t)
    BY DEF Deliver, Spawn
  <1> HIDE DEF t
  <1>5. TypeOK'
    BY <1>2, <1>3, <1>4, AppendProperties DEF SaslInv, TypeOK, Deliver
  <1> QED
    BY <1>3, <1>4, <1>5, QuietInv DEF Deliver

LEMMA CloseInv ==
    ASSUME SaslInv, NEW c \in Channels, Close(c)
    PROVE  SaslInv'
  <1>1. TypeOK'
    BY DEF SaslInv, TypeOK, Close
  <1> QED
    BY <1>1, QuietInv DEF Close

LEMMA SwapInv ==
    ASSUME SaslInv, Swap
    PROVE  SaslInv'
  <1>1. TypeOK'
    BY SaslAssumption DEF SaslInv, TypeOK, Swap, NoIdentity
  <1> QED
    BY <1>1, QuietInv DEF Swap

LEMMA StutterInv ==
    ASSUME SaslInv, UNCHANGED vars
    PROVE  SaslInv'
  <1>1. TypeOK'
    BY DEF SaslInv, TypeOK, vars
  <1> QED
    BY <1>1, QuietInv DEF vars

(* A step of a task, in all: what it does to its own state (t), to the     *)
(* entry of its channel and to the log.                                    *)
LEMMA StepInv ==
    ASSUME SaslInv, UNCHANGED <<mech, polite, served, used, session>>,
           NEW i \in DOMAIN tasks, NEW c \in Channels, NEW t \in Tasks,
           tasks' = [tasks EXCEPT ![i] = t],
           table' \in [Channels -> Entries], \A b \in Channels : b # c => table'[b] = table[b],
           log' \in Seq(Lines), DOMAIN log' = DOMAIN log,
           heard' \in [Channels -> [id : Nat, state : Answers \cup {"closed", "waiting"}]],
           \A x \in DOMAIN log :
               \/ SameLine(x)
               \/ tasks[i].entry.state = "in flight" /\ tasks[i].entry.ex.id = x,
           Sound(table[c])', Sound(tasks[i].entry)', InStep(t),
           table'[c].state = "in flight" =>
               /\ t.entry.state # "in flight"
               /\ table'[c] = table[c] \/ ~Apart(table'[c], tasks[i].entry),
           t.entry.state = "in flight" => t.entry = table[c],
           \/ authenticated' = authenticated
           \/ RecordedWon' /\ authenticated' \in [id : Nat, who : Users \cup {None}],
           OneGuess'
    PROVE  SaslInv'
  <1>1. /\ tasks' \in Seq(Tasks) /\ DOMAIN tasks' = DOMAIN tasks /\ tasks'[i] = t
        /\ \A j \in DOMAIN tasks : j # i => tasks'[j] = tasks[j]
    BY TaskMoved DEF SaslInv
  <1>2. TypeOK'
    BY <1>1 DEF SaslInv, TypeOK
  <1>3. InStep(tasks'[i])
    BY <1>1
  <1>4. Apart(table'[c], tasks'[i].entry)
    BY <1>1 DEF Apart
  <1>5. table'[c].state = "in flight" =>
            ~Apart(table'[c], table[c]) \/ ~Apart(table'[c], tasks[i].entry)
    BY DEF Apart
  <1>6. tasks'[i].entry.state = "in flight" => ~Apart(tasks'[i].entry, table[c])
    BY <1>1 DEF Apart
  <1>7. /\ EntriesSound' /\ TasksInStep' /\ OneHolder'
        /\ authenticated' = authenticated => RecordedWon'
    <2>1. mech' = mech
      OBVIOUS
    <2> QED
      BY <1>1, <1>3, <1>4, <1>5, <1>6, <2>1, StepKeeps
  <1> QED
    BY <1>2, <1>7 DEF SaslInv

(* Who task i is, and where it works.                                      *)
LEMMA TaskAt ==
    ASSUME SaslInv, NEW i \in DOMAIN tasks
    PROVE  /\ tasks[i] \in Tasks
           /\ \E c \in Channels : c = tasks[i].channel /\ table[c] \in Entries
  <1>1. tasks[i] \in Tasks
    BY TaskType DEF SaslInv
  <1>2. tasks[i].channel \in Channels
    BY <1>1 DEF Tasks
  <1> QED
    BY <1>1, <1>2 DEF SaslInv, TypeOK

LEMMA OverType ==
    ASSUME NEW t \in Tasks
    PROVE  /\ Over(t) \in Tasks /\ Over(t).entry = NoEntry /\ InStep(Over(t))
  <1>1. Over(t) \in Tasks /\ Over(t).entry = NoEntry /\ Over(t).pc = "done" /\ Over(t).answer = None
    BY BareType, Absent DEF Over, Tasks, Answers
  <1> QED
    BY <1>1, Absent DEF InStep, None

(* Steps of a task that leave the log alone.                               *)
LEMMA OnOpenInv ==
    ASSUME SaslInv, NEW i \in DOMAIN tasks, OnOpen(i)
    PROVE  SaslInv'
  <1>1. PICK c \in Channels : c = tasks[i].channel /\ table[c] \in Entries
    BY TaskAt
  <1>2. /\ UNCHANGED <<mech, polite, served, used, session, heard, log, authenticated>>
        /\ \A x \in DOMAIN log : SameLine(x)
    BY DEF OnOpen, TaskUnchanged, SameLine
  <1>3. OneGuess' /\ log' \in Seq(Lines) /\ TypeOK
    BY <1>2 DEF SaslInv, OneGuess, TypeOK
  <1>4. CASE table[c].state = "settled"
    <2> DEFINE t == [tasks[i] EXCEPT !.pc = "authenticating", !.entry = table[c]]
    <2>1. t \in Tasks /\ t.entry = table[c] /\ t.pc = "authenticating"
      BY <1>1, TaskAt DEF Tasks
    <2>2. tasks' = [tasks EXCEPT ![i] = t] /\ table' = [table EXCEPT ![c] = NoEntry]
      BY <1>1, <1>4 DEF OnOpen
    <2> HIDE DEF t
    <2>3. /\ table' \in [Channels -> Entries] /\ table'[c] = NoEntry
          /\ \A b \in Channels : b # c => table'[b] = table[b]
      BY <2>2, <1>3, Absent DEF TypeOK
    <2>4. tasks'[i] = t
      BY <1>3, <2>1, <2>2, TaskMoved
    <2>5. Sound(tasks[i].entry)'
      BY <1>1, <1>2, <2>1, <2>4, SoundStays DEF SaslInv, EntriesSound
    <2>6. InStep(t)
      BY <1>4, <2>1 DEF InStep
    <2>7. Sound(table[c])'
      BY <2>3, Absent
    <2> QED
      BY <1>2, <1>3, <1>4, <2>1, <2>2, <2>3, <2>5, <2>6, <2>7, Absent, StepInv DEF TypeOK
  <1>5. CASE table[c].state # "settled"
    <2>1. tasks' = [tasks EXCEPT ![i] = Over(tasks[i])] /\ table' = table
      BY <1>1, <1>5 DEF OnOpen, Finish
    <2>2. /\ Over(tasks[i]) \in Tasks /\ Over(tasks[i]).entry = NoEntry
          /\ InStep(Over(tasks[i]))
      BY TaskAt, OverType
    <2>3. tasks'[i] = Over(tasks[i])
      BY <1>3, <2>1, <2>2, TaskMoved
    <2>4. Sound(tasks[i].entry)'
      BY <2>2, <2>3, Absent
    <2>5. Sound(table[c])'
      BY <1>1, <1>2, <2>1, SoundStays DEF SaslInv, EntriesSound
    <2> QED
      BY <1>2, <1>3, <2>1, <2>2, <2>4, <2>5, Absent, StepInv DEF TypeOK
  <1> QED
    BY <1>4, <1>5

LEMMA HandleTakeInv ==
    ASSUME SaslInv, NEW i \in DOMAIN tasks, HandleTake(i)
    PROVE  SaslInv'
  <1>1. PICK c \in Channels : c = tasks[i].channel /\ table[c] \in Entries
    BY TaskAt
  <1>2. /\ UNCHANGED <<mech, polite, served, used, session, heard, log, authenticated>>
        /\ \A x \in DOMAIN log : SameLine(x)
    BY DEF HandleTake, TaskUnchanged, SameLine
  <1>3. OneGuess' /\ log' \in Seq(Lines) /\ TypeOK
    BY <1>2 DEF SaslInv, OneGuess, TypeOK
  <1> DEFINE t == [tasks[i] EXCEPT !.pc = "holding", !.entry = table[c]]
  <1>4. /\ t \in Tasks /\ t.entry = table[c] /\ t.pc = "holding"
        /\ t.answer = tasks[i].answer
    BY <1>1, TaskAt DEF Tasks
  <1>5. tasks' = [tasks EXCEPT ![i] = t] /\ table' = [table EXCEPT ![c] = NoEntry]
    BY <1>1 DEF HandleTake
  <1> HIDE DEF t
  <1>6. /\ table' \in [Channels -> Entries] /\ table'[c] = NoEntry
        /\ \A b \in Channels : b # c => table'[b] = table[b]
    BY <1>5, <1>3, Absent DEF TypeOK
  <1>7. tasks'[i] = t
    BY <1>3, <1>4, <1>5, TaskMoved
  <1>8. Sound(tasks[i].entry)'
    BY <1>1, <1>2, <1>4, <1>7, SoundStays DEF SaslInv, EntriesSound
  <1>9. InStep(t)
    <2>1. tasks[i].answer = None
      BY DEF SaslInv, TasksInStep, InStep, HandleTake, At
    <2> QED
      BY <1>4, <2>1 DEF InStep, None
  <1>10. Sound(table[c])'
    BY <1>6, Absent
  <1> QED
    BY <1>2, <1>3, <1>4, <1>5, <1>6, <1>8, <1>9, <1>10, Absent, StepInv DEF TypeOK

(* The answer of a task that is not a completed step carries no exchange.  *)
LEMMA AnswerType ==
    ASSUME SaslInv, NEW i \in DOMAIN tasks, NEW a \in Answers \ {None, "complete"}, Answer(i, a)
    PROVE  \E t \in Tasks : /\ tasks' = [tasks EXCEPT ![i] = t]
                            /\ t.entry = NoEntry /\ InStep(t) /\ tasks'[i] = t
  <1> DEFINE t == [tasks[i] EXCEPT !.pc = "replying", !.answer = a, !.data = Empty,
                                   !.entry = NoEntry]
  <1>1. t \in Tasks /\ t.entry = NoEntry /\ t.pc = "replying" /\ t.answer = a
    BY TaskAt, BareType, Absent DEF Tasks
  <1>2. tasks' = [tasks EXCEPT ![i] = t]
    BY DEF Answer
  <1>3. InStep(t)
    BY <1>1, Absent DEF InStep
  <1> HIDE DEF t
  <1>4. tasks'[i] = t
    BY <1>1, <1>2, TaskMoved DEF SaslInv
  <1> QED
    BY <1>1, <1>2, <1>3, <1>4

LEMMA HandleNothingInv ==
    ASSUME SaslInv, NEW i \in DOMAIN tasks, HandleNothing(i)
    PROVE  SaslInv'
  <1>1. PICK c \in Channels : c = tasks[i].channel /\ table[c] \in Entries
    BY TaskAt
  <1>2. /\ UNCHANGED <<mech, polite, served, used, session, heard, table, log, authenticated>>
        /\ \A x \in DOMAIN log : SameLine(x)
    BY DEF HandleNothing, TaskUnchanged, SameLine
  <1>3. OneGuess' /\ log' \in Seq(Lines) /\ TypeOK
    BY <1>2 DEF SaslInv, OneGuess, TypeOK
  <1>4. PICK t \in Tasks : /\ tasks' = [tasks EXCEPT ![i] = t]
                          /\ t.entry = NoEntry /\ InStep(t) /\ tasks'[i] = t
    BY AnswerType DEF HandleNothing, Answers, None
  <1>5. Sound(tasks[i].entry)'
    BY <1>4, Absent
  <1>6. Sound(table[c])'
    BY <1>1, <1>2, SoundStays DEF SaslInv, EntriesSound
  <1> QED
    BY <1>2, <1>3, <1>4, <1>5, <1>6, Absent, StepInv DEF TypeOK

LEMMA LogLine ==
    ASSUME SaslInv, NEW x \in DOMAIN log, NEW line \in Lines, log' = [log EXCEPT ![x] = line]
    PROVE  /\ log' \in Seq(Lines) /\ DOMAIN log' = DOMAIN log /\ log'[x] = line
           /\ \A y \in DOMAIN log : y # x => SameLine(y)
           /\ line.guesses <= 1 => OneGuess'
  <1>1. /\ log' \in Seq(Lines) /\ DOMAIN log' = DOMAIN log /\ log'[x] = line
        /\ \A y \in DOMAIN log : y # x => log'[y] = log[y]
    BY ExceptSeq, LenProperties DEF SaslInv, TypeOK
  <1>2. \A y \in DOMAIN log : y # x => SameLine(y)
    BY <1>1 DEF SameLine
  <1>3. ASSUME line.guesses <= 1
        PROVE  OneGuess'
    BY <1>1, <1>3 DEF SaslInv, OneGuess
  <1> QED
    BY <1>1, <1>2, <1>3

LEMMA LineType == SaslInv => \A x \in DOMAIN log : log[x] \in Lines
  <1> SUFFICES ASSUME SaslInv, NEW x \in DOMAIN log
               PROVE  log[x] \in Lines
    OBVIOUS
  <1>1. log \in [1 .. Len(log) -> Lines] /\ DOMAIN log = 1 .. Len(log)
    BY LenProperties DEF SaslInv, TypeOK
  <1> QED
    BY <1>1

(* An entry apart from the one whose line changes stays sound.             *)
LEMMA OthersSound ==
    ASSUME mech' = mech, DOMAIN log' = DOMAIN log, NEW x \in DOMAIN log, log[x].outcome = "open",
           \A y \in DOMAIN log : y # x => SameLine(y),
           NEW held, held.state = "in flight", held.ex.id = x,
           NEW entry \in Entries, Sound(entry), Apart(entry, held)
    PROVE  Sound(entry)'
  <1>1. entry.state # "absent" => entry.ex.id \in DOMAIN log
    BY EntryStates DEF Sound, Pending, Won
  <1>2. entry.state # "absent" => entry.ex.id # x
    BY EntryStates DEF Sound, Won, Apart
  <1> QED
    BY <1>1, <1>2, SoundKept

LEMMA HandleEndsInv ==
    ASSUME SaslInv, NEW i \in DOMAIN tasks, HandleEnds(i)
    PROVE  SaslInv'
  <1>1. PICK c \in Channels : c = tasks[i].channel /\ table[c] \in Entries
    BY TaskAt
  <1>2. UNCHANGED <<mech, polite, served, used, session, heard, table, authenticated>>
    BY DEF HandleEnds, TaskUnchanged
  <1>3. PICK t \in Tasks : /\ tasks' = [tasks EXCEPT ![i] = t]
                          /\ t.entry = NoEntry /\ InStep(t) /\ tasks'[i] = t
    BY AnswerType DEF HandleEnds, Answers, None
  <1>4. PICK x \in DOMAIN log : /\ tasks[i].entry.state = "in flight"
                               /\ tasks[i].entry.ex.id = x /\ log[x].outcome = "open"
    BY DEF HandleEnds, SaslInv, EntriesSound, Sound, Pending
  <1> DEFINE line == [log[x] EXCEPT !.outcome = "failed"]
  <1>5. line \in Lines /\ line.guesses <= 1
    BY LineType DEF Lines, SaslInv, OneGuess
  <1>6. log' = [log EXCEPT ![x] = line]
    BY <1>4 DEF HandleEnds
  <1> HIDE DEF line
  <1>7. /\ log' \in Seq(Lines) /\ DOMAIN log' = DOMAIN log /\ OneGuess'
        /\ \A y \in DOMAIN log : y # x => SameLine(y)
    BY <1>5, <1>6, LogLine
  <1>8. Sound(tasks[i].entry)'
    BY <1>3, Absent
  <1>9. Sound(table[c])'
    BY <1>1, <1>2, <1>4, <1>7, OthersSound DEF SaslInv, EntriesSound, OneHolder
  <1>10. \A y \in DOMAIN log :
             \/ SameLine(y)
             \/ tasks[i].entry.state = "in flight" /\ tasks[i].entry.ex.id = y
    BY <1>4, <1>7
  <1> QED
    BY <1>2, <1>3, <1>7, <1>8, <1>9, <1>10, Absent, StepInv DEF SaslInv, TypeOK

(* The line of an exchange after a step.                                   *)
LEMMA NotedLine ==
    ASSUME NEW entry \in Lines, NEW ex, NEW d \in Payloads, NEW r,
           r.step \in {"continue", "complete", "failed"}
    PROVE  LET line == Noted(entry, ex, d, r)
           IN  /\ line \in Lines
               /\ line.guesses = IF Weighs(ex) THEN entry.guesses + 1 ELSE entry.guesses
               /\ r.step = "continue" => line.outcome = "open"
               /\ r.step = "complete" => line.outcome = "complete"
               /\ r.step # "failed" => line.proof = IF Weighs(ex) THEN d ELSE entry.proof
               /\ r.step # "failed" => line.first = IF ex.phase = "start" THEN d ELSE entry.first
               /\ line.told = entry.told /\ line.recorded = entry.recorded
  <1> DEFINE o == Outcome(r)
  <1>1. /\ o \in {"open", "complete", "failed"}
        /\ r.step = "continue" => o = "open"
        /\ r.step = "complete" => o = "complete"
    BY DEF Outcome
  <1> HIDE DEF o
  <1> DEFINE g == IF Weighs(ex) THEN entry.guesses + 1 ELSE entry.guesses
             f == IF ex.phase = "start" /\ r.step # "failed" THEN d ELSE entry.first
             p == IF Weighs(ex) /\ r.step # "failed" THEN d ELSE entry.proof
  <1>2. Noted(entry, ex, d, r) =
          [entry EXCEPT !.outcome = o, !.guesses = g, !.first = f, !.proof = p]
    BY DEF Noted, o
  <1>3. g \in Nat /\ f \in Payloads /\ p \in Payloads
    BY DEF Lines
  <1>4. /\ r.step # "failed" => p = IF Weighs(ex) THEN d ELSE entry.proof
        /\ r.step # "failed" => f = IF ex.phase = "start" THEN d ELSE entry.first
        /\ g = IF Weighs(ex) THEN entry.guesses + 1 ELSE entry.guesses
    OBVIOUS
  <1> HIDE DEF g, f, p
  <1> QED
    BY <1>1, <1>2, <1>3, <1>4 DEF Lines

(* The step of an exchange in a task's hands: its line says what became of *)
(* it, and the entry that goes on, if any, is as good as the line.         *)
LEMMA HandleStepInv ==
    ASSUME SaslInv, NEW i \in DOMAIN tasks, HandleStep(i)
    PROVE  SaslInv'
  <1>1. PICK c \in Channels : c = tasks[i].channel /\ table[c] \in Entries
    BY TaskAt
  <1>2. UNCHANGED <<mech, polite, served, used, session, heard, authenticated>>
    BY DEF HandleStep, TaskUnchanged
  <1>3. PICK ex \in Exchanges, d \in Payloads :
          /\ tasks[i].entry.state = "in flight" /\ tasks[i].entry.ex = ex /\ tasks[i].data = d
          /\ Pending(ex)
    <2>1. tasks[i].entry \in Entries /\ tasks[i].data \in Payloads
      BY TaskAt DEF Tasks
    <2>2. tasks[i].entry.state = "in flight"
      BY DEF HandleStep
    <2>3. tasks[i].entry.ex \in Exchanges
      BY <2>1, <2>2, EntryStates
    <2> QED
      BY <2>1, <2>2, <2>3 DEF SaslInv, EntriesSound, Sound
  <1>4. PICK x \in DOMAIN log : x = ex.id /\ log[x].outcome = "open" /\ Ready(ex)
    BY <1>3 DEF Pending
  <1>5. PICK r : r = Step(ex, d)
    OBVIOUS
  <1>6. /\ r.step \in {"continue", "complete", "failed"}
        /\ r.ex \in Exchanges /\ r.ex.id = x
        /\ r.step = "continue" =>
             /\ ex.phase = "challenged" /\ r.ex.phase = "confirmed"
             /\ Ready(r.ex) /\ Grants(r.ex, d)
        /\ r.step = "complete" =>
             \/ ex.phase = "challenged" /\ Grants(r.ex, d)
             \/ ex.phase = "confirmed" /\ r.ex = ex
        /\ r.step # "failed" => Remembers(r.ex, log[x].first)
    <2>1. Remembers(ex, log[x].first)
      BY <1>3, <1>4 DEF Pending
    <2> QED
      BY <1>4, <1>5, <2>1, LaterStep DEF SaslInv, TypeOK
  <1> DEFINE line == Noted(log[x], ex, d, r)
  <1>7. /\ line \in Lines /\ line.guesses <= 1
        /\ r.step = "continue" => line.outcome = "open"
        /\ r.step = "complete" => line.outcome = "complete"
        /\ r.step # "failed" =>
             /\ line.proof = IF ex.phase = "challenged" THEN d ELSE log[x].proof
             /\ line.first = log[x].first
    <2>1. log[x] \in Lines /\ log[x].guesses <= 1
      BY LineType DEF SaslInv, OneGuess
    <2>2. Weighs(ex) <=> ex.phase = "challenged"
      BY <1>4 DEF Weighs, Ready, OneRound, Challenging
    <2>3. ex.phase = "challenged" => log[x].guesses = 0
      BY <1>3, <1>4 DEF Pending
    <2>4. ex.phase # "start"
      BY <1>4 DEF Ready
    <2> QED
      BY <1>6, <2>1, <2>2, <2>3, <2>4, NotedLine
  <1>8. log' = [log EXCEPT ![x] = line]
    BY <1>3, <1>5, <1>6 DEF HandleStep
  <1>9. /\ log' \in Seq(Lines) /\ DOMAIN log' = DOMAIN log /\ log'[x] = line /\ OneGuess'
        /\ \A y \in DOMAIN log : y # x => SameLine(y)
    <2> HIDE DEF line
    <2> QED
      BY <1>7, <1>8, LogLine
  <1>10. \A y \in DOMAIN log :
             \/ SameLine(y)
             \/ tasks[i].entry.state = "in flight" /\ tasks[i].entry.ex.id = y
    BY <1>3, <1>4, <1>9
  <1> DEFINE t == [tasks[i] EXCEPT
                      !.pc = IF r.step = "complete" THEN "authenticating" ELSE "replying",
                      !.entry = IF r.step = "complete" THEN Settled(r.ex) ELSE NoEntry,
                      !.data = Empty,
                      !.answer = r.step]
  <1>11. tasks' = [tasks EXCEPT ![i] = t]
    BY <1>3, <1>5 DEF HandleStep
  <1>12. /\ Settled(r.ex) \in Entries
         /\ Settled(r.ex).state = "settled" /\ Settled(r.ex).ex = r.ex
         /\ InFlight(r.ex) \in Entries
         /\ InFlight(r.ex).state = "in flight" /\ InFlight(r.ex).ex = r.ex
    BY <1>6, EntryOf
  <1>13. /\ t \in Tasks /\ t.answer = r.step
         /\ t.pc = IF r.step = "complete" THEN "authenticating" ELSE "replying"
         /\ t.entry = IF r.step = "complete" THEN Settled(r.ex) ELSE NoEntry
    BY <1>6, <1>12, TaskAt, BareType, Absent DEF Tasks, Answers
  <1> HIDE DEF line, t
  <1>14. InStep(t) /\ t.entry.state # "in flight"
    BY <1>6, <1>12, <1>13, Absent DEF InStep
  <1>15. tasks'[i] = t
    BY <1>11, <1>13, TaskMoved DEF SaslInv
  <1>16. CASE r.step = "continue"
    <2>1. table' = [table EXCEPT ![c] = InFlight(r.ex)]
      BY <1>1, <1>3, <1>5, <1>16 DEF HandleStep
    <2>2. /\ table' \in [Channels -> Entries] /\ table'[c] = InFlight(r.ex)
          /\ \A b \in Channels : b # c => table'[b] = table[b]
      BY <1>12, <2>1 DEF SaslInv, TypeOK
    <2>3. Pending(r.ex)'
      <3>1. log'[x].outcome = "open" /\ log'[x].proof = d /\ log'[x].first = log[x].first
        BY <1>6, <1>7, <1>9, <1>16
      <3> QED
        BY <1>2, <1>6, <1>9, <1>16, <3>1 DEF Pending, Ready, Grants, Remembers
    <2>4. Sound(table[c])'
      BY <1>12, <2>2, <2>3 DEF Sound
    <2>5. Sound(tasks[i].entry)'
      BY <1>13, <1>15, <1>16, Absent
    <2>6. ~Apart(table'[c], tasks[i].entry)
      BY <1>3, <1>4, <1>6, <1>12, <2>2 DEF Apart
    <2> QED
      BY <1>2, <1>9, <1>10, <1>11, <1>13, <1>14, <2>2, <2>4, <2>5, <2>6, StepInv
      DEF SaslInv, TypeOK
  <1>17. CASE r.step # "continue"
    <2>1. table' = table
      BY <1>3, <1>5, <1>17 DEF HandleStep
    <2>2. Sound(table[c])'
      BY <1>1, <1>2, <1>3, <1>4, <1>9, <2>1, OthersSound DEF SaslInv, EntriesSound, OneHolder
    <2>3. Sound(tasks[i].entry)'
      <3>1. CASE r.step = "complete"
        <4>1. log'[x].outcome = "complete"
          BY <1>7, <1>9, <3>1
        <4>2. Grants(r.ex, log'[x].proof)
          BY <1>3, <1>4, <1>6, <1>7, <1>9, <3>1 DEF Pending, Ready
        <4>3. log'[x].first = log[x].first
          BY <1>7, <1>9, <3>1
        <4>4. Won(r.ex)'
          BY <1>2, <1>6, <1>9, <3>1, <4>1, <4>2, <4>3 DEF Won, Grants, Remembers
        <4> QED
          BY <1>12, <1>13, <1>15, <3>1, <4>4 DEF Sound
      <3>2. CASE r.step # "complete"
        BY <1>13, <1>15, <3>2, Absent
      <3> QED
        BY <3>1, <3>2
    <2> QED
      BY <1>2, <1>9, <1>10, <1>11, <1>13, <1>14, <2>1, <2>2, <2>3, StepInv
      DEF SaslInv, TypeOK
  <1> QED
    BY <1>16, <1>17

(* Steps that only mark a line: the identity is recorded, or the peer is   *)
(* told.                                                                   *)
LEMMA MarkedLine ==
    ASSUME SaslInv, NEW x \in DOMAIN log,
           \/ log' = [log EXCEPT ![x].recorded = @ \cup {session}]
           \/ log' = [log EXCEPT ![x].told = @ \cup {session}]
    PROVE  /\ log' \in Seq(Lines) /\ DOMAIN log' = DOMAIN log
           /\ OneGuess' /\ \A y \in DOMAIN log : SameLine(y)
  <1>1. log[x] \in Lines /\ log[x].guesses <= 1 /\ session \in Nat
    BY LineType DEF SaslInv, OneGuess, TypeOK
  <1> DEFINE Same(line) == /\ line.outcome = log[x].outcome /\ line.proof = log[x].proof
                           /\ line.guesses = log[x].guesses /\ line.first = log[x].first
  <1>2. PICK line \in Lines : log' = [log EXCEPT ![x] = line] /\ Same(line)
    <2>1. CASE log' = [log EXCEPT ![x].recorded = @ \cup {session}]
      <3> DEFINE line == [log[x] EXCEPT !.recorded = @ \cup {session}]
      <3>1. line \in Lines /\ Same(line)
        BY <1>1 DEF Lines
      <3>2. log' = [log EXCEPT ![x] = line]
        BY <2>1
      <3> QED
        BY <3>1, <3>2
    <2>2. CASE log' = [log EXCEPT ![x].told = @ \cup {session}]
      <3> DEFINE line == [log[x] EXCEPT !.told = @ \cup {session}]
      <3>1. line \in Lines /\ Same(line)
        BY <1>1 DEF Lines
      <3>2. log' = [log EXCEPT ![x] = line]
        BY <2>2
      <3> QED
        BY <3>1, <3>2
    <2> QED
      BY <2>1, <2>2
  <1>3. /\ log' \in Seq(Lines) /\ DOMAIN log' = DOMAIN log /\ log'[x] = line /\ OneGuess'
        /\ \A y \in DOMAIN log : y # x => SameLine(y)
    BY <1>1, <1>2, LogLine
  <1>4. SameLine(x)
    BY <1>2, <1>3 DEF SameLine
  <1> QED
    BY <1>3, <1>4

LEMMA AuthenticateInv ==
    ASSUME SaslInv, NEW i \in DOMAIN tasks, Authenticate(i)
    PROVE  SaslInv'
  <1>1. PICK c \in Channels : c = tasks[i].channel /\ table[c] \in Entries
    BY TaskAt
  <1>2. UNCHANGED <<mech, polite, served, used, session, heard, table>>
    BY DEF Authenticate, TaskUnchanged
  <1>3. PICK ex \in Exchanges :
          tasks[i].entry \in Entries /\ tasks[i].entry.state = "settled"
          /\ tasks[i].entry.ex = ex /\ Won(ex)
    <2>1. tasks[i].entry \in Entries /\ tasks[i].entry.state = "settled"
      BY TaskAt DEF Tasks, Authenticate, SaslInv, TasksInStep, InStep
    <2> QED
      BY <2>1, EntryStates DEF SaslInv, EntriesSound, Sound
  <1>4. PICK x \in DOMAIN log : x = ex.id
    BY <1>3 DEF Won
  <1>5. /\ log' \in Seq(Lines) /\ DOMAIN log' = DOMAIN log
        /\ OneGuess' /\ \A y \in DOMAIN log : SameLine(y)
    BY <1>3, <1>4, MarkedLine DEF Authenticate
  <1>6. authenticated' = [id |-> x, who |-> Effective(ex)]
    BY <1>3, <1>4 DEF Authenticate
  <1>7. Won(ex)'
    BY <1>2, <1>3, <1>4, <1>5, WonKept
  <1>8. RecordedWon' /\ authenticated' \in [id : Nat, who : Users \cup {None}]
    <2>1. ex.user \in Users \cup {None} /\ ex.authz \in Users \cup {None} /\ x \in Nat
      BY <1>4 DEF Exchanges
    <2>2. authenticated' \in [id : Nat, who : Users \cup {None}]
      BY <1>6, <2>1 DEF Effective
    <2> DEFINE copy == [Begin(authenticated.id) EXCEPT !.user = ex.user, !.authz = ex.authz]
    <2>3. (copy.id = ex.id /\ copy.user = ex.user /\ copy.authz = ex.authz)'
      BY <1>4, <1>6 DEF Begin
    <2>4. Won(copy)' /\ authenticated'.who = Effective(copy)'
      <3> HIDE DEF copy
      <3> QED
        BY <1>6, <1>7, <2>3 DEF Won, Grants, Remembers, Effective
    <2> QED
      BY <2>1, <2>2, <2>4 DEF RecordedWon
  <1>9. Sound(table[c])'
    BY <1>1, <1>2, <1>5, SoundStays DEF SaslInv, EntriesSound
  <1>10. PICK t \in Tasks :
           /\ tasks' = [tasks EXCEPT ![i] = t]
           /\ InStep(t)
           /\ t.entry = NoEntry \/ t.entry = tasks[i].entry
    <2>1. CASE tasks[i].kind = "open"
      BY <2>1, TaskAt, OverType DEF Authenticate, Finish
    <2>2. CASE tasks[i].kind # "open"
      <3> DEFINE t == [tasks[i] EXCEPT !.pc = "replying"]
      <3>1. t \in Tasks /\ t.entry = tasks[i].entry /\ t.pc = "replying"
        BY TaskAt DEF Tasks
      <3>2. tasks' = [tasks EXCEPT ![i] = t]
        BY <2>2 DEF Authenticate
      <3>3. InStep(t)
        BY <1>3, <3>1 DEF InStep
      <3> QED
        BY <3>1, <3>2, <3>3
    <2> QED
      BY <2>1, <2>2
  <1>11. Sound(tasks[i].entry)'
    <2>1. tasks'[i] = t
      <3>1. TypeOK /\ tasks' = [tasks EXCEPT ![i] = t]
        BY <1>10 DEF SaslInv
      <3> QED
        BY <3>1, TaskMoved
    <2> QED
      BY <1>2, <1>3, <1>5, <1>10, <2>1, Absent, SoundStays DEF SaslInv, EntriesSound
  <1>12. t.entry.state # "in flight" /\ tasks' = [tasks EXCEPT ![i] = t] /\ InStep(t)
    BY <1>3, <1>10, Absent
  <1>13. /\ table' \in [Channels -> Entries]
         /\ heard' \in [Channels -> [id : Nat, state : Answers \cup {"closed", "waiting"}]]
    BY <1>2 DEF SaslInv, TypeOK
  <1> QED
    BY <1>2, <1>5, <1>8, <1>9, <1>11, <1>12, <1>13, StepInv

LEMMA ReplyInv ==
    ASSUME SaslInv, NEW i \in DOMAIN tasks, Reply(i)
    PROVE  SaslInv'
  <1>1. PICK c \in Channels : c = tasks[i].channel /\ table[c] \in Entries
    BY TaskAt
  <1>2. UNCHANGED <<mech, polite, served, used, session, table, authenticated>>
    BY DEF Reply
  <1>3. heard' \in [Channels -> [id : Nat, state : Answers \cup {"closed", "waiting"}]]
    <2>1. tasks[i].answer \in Answers
      BY TaskAt DEF Tasks
    <2> QED
      BY <1>1, <2>1 DEF Reply, SaslInv, TypeOK
  <1>4. /\ log' \in Seq(Lines) /\ DOMAIN log' = DOMAIN log
        /\ OneGuess' /\ \A y \in DOMAIN log : SameLine(y)
    <2> DEFINE there == heard[tasks[i].channel].id = tasks[i].start
    <2>1. CASE there /\ tasks[i].answer = "complete"
      <3>1. tasks[i].entry.state = "settled"
        BY <2>1 DEF SaslInv, TasksInStep, InStep
      <3>2. tasks[i].entry.ex.id \in DOMAIN log
        BY <3>1 DEF SaslInv, EntriesSound, Sound, Won
      <3> QED
        BY <2>1, <3>2, MarkedLine DEF Reply
    <2>2. CASE ~(there /\ tasks[i].answer = "complete")
      BY <2>2 DEF Reply, SaslInv, TypeOK, OneGuess, SameLine
    <2> QED
      BY <2>1, <2>2
  <1>5. /\ Over(tasks[i]) \in Tasks /\ Over(tasks[i]).entry = NoEntry
        /\ InStep(Over(tasks[i]))
    BY TaskAt, OverType
  <1>6. tasks' = [tasks EXCEPT ![i] = Over(tasks[i])]
    BY DEF Reply, Finish
  <1>7. tasks'[i] = Over(tasks[i])
    BY <1>5, <1>6, TaskMoved DEF SaslInv
  <1>8. Sound(tasks[i].entry)'
    BY <1>5, <1>7, Absent
  <1>9. Sound(table[c])'
    BY <1>1, <1>2, <1>4, SoundStays DEF SaslInv, EntriesSound
  <1> QED
    BY <1>2, <1>3, <1>4, <1>5, <1>6, <1>8, <1>9, Absent, StepInv DEF SaslInv, TypeOK

(* A start: an exchange of its own, whose number no entry has yet.         *)
LEMMA AcceptInv ==
    ASSUME SaslInv, NEW c \in Channels, NEW d \in Offers, Accept(c, d)
    PROVE  SaslInv'
  <1>1. d \in Payloads
    BY OffersType DEF SaslInv, TypeOK
  <1>2. /\ UNCHANGED <<mech, polite, session, authenticated>>
        /\ used' \subseteq Channels
    BY DEF Accept, SaslInv, TypeOK
  <1>3. PICK x \in Nat : x = Len(log) + 1
    BY LenProperties DEF SaslInv, TypeOK
  <1>4. PICK ex : ex = Begin(x)
    OBVIOUS
  <1>5. PICK r : r = Step(ex, d)
    OBVIOUS
  <1>6. /\ r.step \in {"continue", "complete", "failed"}
        /\ r.ex \in Exchanges /\ r.ex.id = x
        /\ r.step = "continue" => Ready(r.ex) /\ r.ex.phase = "challenged"
        /\ r.step = "complete" => mech \in OneRound /\ Grants(r.ex, d)
        /\ r.step # "failed" => Remembers(r.ex, d)
    BY <1>1, <1>4, <1>5, FirstStep DEF SaslInv, TypeOK
  <1>7. NewLine \in Lines /\ NewLine.guesses = 0
    BY BareType DEF SaslInv, TypeOK, NewLine, Lines
  <1>8. ASSUME NEW line \in Lines, line.guesses <= 1, log' = Append(log, line)
        PROVE  /\ log' \in Seq(Lines) /\ DOMAIN log \subseteq DOMAIN log' /\ OneGuess'
               /\ x \in DOMAIN log' /\ log'[x] = line /\ x \notin DOMAIN log
               /\ \A y \in DOMAIN log : SameLine(y)
    <2>1. /\ log' \in Seq(Lines) /\ Len(log') = Len(log) + 1 /\ log'[Len(log) + 1] = line
          /\ \A y \in 1 .. Len(log) : log'[y] = log[y]
      BY <1>8, AppendProperties DEF SaslInv, TypeOK
    <2>2. DOMAIN log = 1 .. Len(log) /\ DOMAIN log' = 1 .. Len(log) + 1 /\ Len(log) \in Nat
      BY <2>1, LenProperties DEF SaslInv, TypeOK
    <2>3. OneGuess'
      <3> SUFFICES ASSUME NEW y \in DOMAIN log'
                   PROVE  log'[y].guesses <= 1
        BY DEF OneGuess
      <3>1. CASE y \in DOMAIN log
        BY <2>1, <2>2, <3>1 DEF SaslInv, OneGuess
      <3>2. CASE y = Len(log) + 1
        BY <1>8, <2>1, <3>2
      <3> QED
        BY <2>2, <3>1, <3>2
    <2>4. \A y \in DOMAIN log : SameLine(y)
      BY <2>1, <2>2 DEF SameLine
    <2> QED
      BY <1>3, <2>1, <2>2, <2>3, <2>4
  <1>9. CASE ~InitialBlob(d) \/ r.step = "failed"
    <2> DEFINE line == [NewLine EXCEPT !.outcome = "failed"]
    <2>1. line \in Lines /\ line.guesses <= 1
      BY <1>7 DEF Lines
    <2>2. log' = Append(log, line) /\ UNCHANGED <<served, table, tasks, heard>>
      BY <1>3, <1>4, <1>5, <1>9 DEF Accept
    <2> HIDE DEF line
    <2>3. /\ log' \in Seq(Lines) /\ DOMAIN log \subseteq DOMAIN log' /\ OneGuess'
          /\ \A y \in DOMAIN log : SameLine(y)
      BY <1>8, <2>1, <2>2
    <2>4. TypeOK'
      BY <1>2, <2>2, <2>3 DEF SaslInv, TypeOK
    <2>5. EntriesSound'
      <3>1. ASSUME NEW b \in Channels
            PROVE  Sound(table[b])'
        <4>1. table[b] \in Entries /\ Sound(table[b])
          BY DEF SaslInv, TypeOK, EntriesSound
        <4> QED
          BY <1>2, <2>2, <2>3, <4>1, SoundStays
      <3>2. ASSUME NEW j \in DOMAIN tasks
            PROVE  Sound(tasks[j].entry)'
        <4>1. tasks[j].entry \in Entries /\ Sound(tasks[j].entry)
          BY TaskAt DEF SaslInv, Tasks, EntriesSound
        <4> QED
          BY <1>2, <2>2, <2>3, <4>1, SoundStays
      <3> QED
        BY <2>2, <3>1, <3>2 DEF EntriesSound
    <2>6. TasksInStep' /\ OneHolder'
      <3>1. TasksInStep'
        <4> SUFFICES ASSUME NEW j \in DOMAIN tasks'
                     PROVE  InStep(tasks[j])'
          BY DEF TasksInStep
        <4>1. InStep(tasks[j])
          BY <2>2 DEF SaslInv, TasksInStep
        <4> QED
          BY <2>2, <4>1 DEF InStep
      <3>2. OneHolder'
        BY <2>2 DEF SaslInv, OneHolder, Apart
      <3> QED
        BY <3>1, <3>2
    <2>7. RecordedWon'
      BY <1>2, <2>3, RecordKept DEF SaslInv
    <2> QED
      BY <2>3, <2>4, <2>5, <2>6, <2>7 DEF SaslInv
  <1>10. CASE InitialBlob(d) /\ r.step # "failed"
    <2> DEFINE line == [Noted(NewLine, ex, d, r) EXCEPT
                          !.told = IF r.step = "complete" THEN {session} ELSE {}]
               e == IF r.step = "complete" THEN Settled(r.ex) ELSE InFlight(r.ex)
               t == Task("open", c, Empty)
    <2>1. Weighs(ex) <=> mech \in OneRound
      BY <1>4 DEF Weighs, Begin
    <2>2. /\ line \in Lines /\ line.guesses <= 1
          /\ r.step = "continue" => line.outcome = "open"
          /\ r.step = "complete" => line.outcome = "complete"
          /\ line.proof = IF Weighs(ex) THEN d ELSE NewLine.proof
          /\ line.first = d
          /\ ~Weighs(ex) => line.guesses = 0
      <3> DEFINE n == Noted(NewLine, ex, d, r)
      <3>1. /\ n \in Lines
            /\ n.guesses = IF Weighs(ex) THEN NewLine.guesses + 1 ELSE NewLine.guesses
            /\ r.step = "continue" => n.outcome = "open"
            /\ r.step = "complete" => n.outcome = "complete"
            /\ n.proof = IF Weighs(ex) THEN d ELSE NewLine.proof
            /\ n.first = d
        <4>1. ex.phase = "start" /\ r.step \in {"continue", "complete"}
          BY <1>4, <1>6, <1>10 DEF Begin
        <4> QED
          BY <1>1, <1>7, <4>1, NotedLine
      <3> HIDE DEF n
      <3>2. line = [n EXCEPT !.told = IF r.step = "complete" THEN {session} ELSE {}]
        BY DEF n
      <3> HIDE DEF line
      <3>3. PICK b \in SUBSET Nat : b = IF r.step = "complete" THEN {session} ELSE {}
        BY DEF SaslInv, TypeOK
      <3>4. line = [n EXCEPT !.told = b]
        BY <3>2, <3>3
      <3>5. /\ line \in Lines /\ line.guesses = n.guesses /\ line.outcome = n.outcome
            /\ line.proof = n.proof /\ line.first = n.first
        BY <3>1, <3>4 DEF Lines
      <3>6. n.guesses <= 1 /\ (~Weighs(ex) => n.guesses = 0)
        BY <1>7, <3>1
      <3> QED
        BY <3>1, <3>5, <3>6
    <2>3. /\ log' = Append(log, line)
          /\ table' = [table EXCEPT ![c] = e]
          /\ served' = served \cup {c}
          /\ heard' = [heard EXCEPT ![c] = [id |-> ex.id, state |-> r.step]]
          /\ tasks' = Append(tasks, t)
      BY <1>3, <1>4, <1>5, <1>10 DEF Accept, Spawn
    <2>4. /\ e \in Entries
          /\ r.step = "complete" => e.state = "settled" /\ e.ex = r.ex
          /\ r.step = "continue" => e.state = "in flight" /\ e.ex = r.ex
      BY <1>6, EntryOf
    <2>5. heard' \in [Channels -> [id : Nat, state : Answers \cup {"closed", "waiting"}]]
      BY <1>4, <1>6, <2>3 DEF SaslInv, TypeOK, Begin, Answers
    <2>6. t \in Tasks /\ t.entry = NoEntry /\ InStep(t)
      <3>1. t \in Tasks /\ t.pc = "spawned" /\ t.answer = None /\ t.entry = NoEntry
        BY <2>5, BareType, Absent DEF Task, Tasks, Answers
      <3> QED
        BY <3>1, Absent DEF InStep, None
    <2> HIDE DEF line, e, t
    <2>7. /\ log' \in Seq(Lines) /\ DOMAIN log \subseteq DOMAIN log' /\ OneGuess'
          /\ x \in DOMAIN log' /\ log'[x] = line /\ x \notin DOMAIN log
          /\ \A y \in DOMAIN log : SameLine(y)
      BY <1>8, <2>2, <2>3
    <2>8. /\ tasks' \in Seq(Tasks)
          /\ \A j \in DOMAIN tasks' : \/ j \in DOMAIN tasks /\ tasks'[j] = tasks[j]
                                     \/ tasks'[j] = t
      <3>1. /\ tasks' \in Seq(Tasks) /\ Len(tasks') = Len(tasks) + 1
            /\ tasks'[Len(tasks) + 1] = t
            /\ \A j \in 1 .. Len(tasks) : tasks'[j] = tasks[j]
        BY <2>3, <2>6, AppendProperties DEF SaslInv, TypeOK
      <3>2. /\ DOMAIN tasks = 1 .. Len(tasks) /\ DOMAIN tasks' = 1 .. Len(tasks) + 1
            /\ Len(tasks) \in Nat
        BY <3>1, LenProperties DEF SaslInv, TypeOK
      <3> QED
        BY <3>1, <3>2
    <2>9. /\ table' \in [Channels -> Entries] /\ table'[c] = e
          /\ \A b \in Channels : b # c => table'[b] = table[b]
      BY <2>3, <2>4 DEF SaslInv, TypeOK
    <2>10. TypeOK'
      BY <1>2, <2>3, <2>5, <2>7, <2>8, <2>9 DEF SaslInv, TypeOK
    <2>11. Sound(table[c])'
      <3>1. CASE r.step = "complete"
        <4>1. Grants(r.ex, log'[x].proof)
          BY <1>6, <2>1, <2>2, <2>7, <3>1
        <4>2. Won(r.ex)'
          BY <1>2, <1>6, <2>2, <2>7, <3>1, <4>1 DEF Won, Grants, Remembers
        <4> QED
          BY <2>4, <2>9, <3>1, <4>2 DEF Sound
      <3>2. CASE r.step = "continue"
        <4>1. ~Weighs(ex)
          BY <1>6, <2>1, <3>2 DEF Ready, OneRound, Challenging
        <4>2. Pending(r.ex)'
          BY <1>2, <1>6, <2>2, <2>7, <3>2, <4>1 DEF Pending, Ready, Remembers
        <4> QED
          BY <2>4, <2>9, <3>2, <4>2 DEF Sound
      <3> QED
        BY <1>6, <1>10, <3>1, <3>2
    <2>12. EntriesSound'
      <3>1. ASSUME NEW b \in Channels
            PROVE  Sound(table[b])'
        <4>1. table[b] \in Entries /\ Sound(table[b])
          BY DEF SaslInv, TypeOK, EntriesSound
        <4> QED
          BY <1>2, <2>7, <2>9, <2>11, <4>1, SoundStays
      <3>2. ASSUME NEW j \in DOMAIN tasks'
            PROVE  Sound(tasks[j].entry)'
        <4>1. CASE j \in DOMAIN tasks /\ tasks'[j] = tasks[j]
          <5>1. tasks[j].entry \in Entries /\ Sound(tasks[j].entry)
            BY <4>1, TaskAt DEF SaslInv, Tasks, EntriesSound
          <5> QED
            BY <1>2, <2>7, <4>1, <5>1, SoundStays
        <4>2. CASE tasks'[j] = t
          BY <2>6, <4>2, Absent
        <4> QED
          BY <2>8, <4>1, <4>2
      <3> QED
        BY <3>1, <3>2 DEF EntriesSound
    <2>13. TasksInStep'
      <3> SUFFICES ASSUME NEW j \in DOMAIN tasks'
                   PROVE  InStep(tasks[j])'
        BY DEF TasksInStep
      <3>1. CASE j \in DOMAIN tasks /\ tasks'[j] = tasks[j]
        <4>1. InStep(tasks[j])
          BY <3>1 DEF SaslInv, TasksInStep
        <4> QED
          BY <3>1, <4>1 DEF InStep
      <3>2. CASE tasks'[j] = t
        BY <2>6, <3>2 DEF InStep
      <3> QED
        BY <2>8, <3>1, <3>2
    <2>14. OneHolder'
      <3>1. ASSUME NEW b \in Channels
            PROVE  Apart(e, table[b]) /\ Apart(table[b], e)
        BY <1>6, <1>10, <2>4, <2>7 DEF SaslInv, EntriesSound, Sound, Pending, Apart
      <3>2. ASSUME NEW j \in DOMAIN tasks
            PROVE  Apart(e, tasks[j].entry)
        BY <1>6, <1>10, <2>4, <2>7 DEF SaslInv, EntriesSound, Sound, Pending, Apart
      <3>3. ASSUME NEW b \in Channels, NEW k \in Channels, b # k
            PROVE  Apart(table'[b], table'[k])
        BY <2>9, <3>1, <3>3 DEF SaslInv, OneHolder
      <3>4. ASSUME NEW j \in DOMAIN tasks', NEW k \in DOMAIN tasks', j # k
            PROVE  Apart(tasks'[j].entry, tasks'[k].entry)
        BY <2>6, <2>8, <3>4, Absent DEF SaslInv, OneHolder
      <3>5. ASSUME NEW b \in Channels, NEW j \in DOMAIN tasks'
            PROVE  Apart(table'[b], tasks'[j].entry)
        BY <2>6, <2>8, <2>9, <3>2, Absent DEF SaslInv, OneHolder
      <3> QED
        BY <3>3, <3>4, <3>5 DEF OneHolder
    <2>15. RecordedWon'
      BY <1>2, <2>7, RecordKept DEF SaslInv
    <2> QED
      BY <2>7, <2>10, <2>12, <2>13, <2>14, <2>15 DEF SaslInv
  <1> QED
    BY <1>9, <1>10

-----------------------------------------------------------------------------
(* Told and recorded.                                                      *)

(* What is settled, in the table or in the hands of a task, has its line.  *)
LEMMA Logged ==
    ASSUME SaslInv
    PROVE  /\ \A c \in Channels : table[c].state = "settled" => table[c].ex.id \in DOMAIN log
           /\ \A i \in DOMAIN tasks :
                 tasks[i].pc = "authenticating" \/ tasks[i].answer = "complete" =>
                     tasks[i].entry.ex.id \in DOMAIN log
  BY DEF SaslInv, EntriesSound, Sound, Won, TasksInStep, InStep

LEMMA ToldInit == Init => ToldInv
  <1> SUFFICES ASSUME Init
               PROVE  ToldInv
    OBVIOUS
  <1>1. served = {} /\ DOMAIN tasks = {} /\ DOMAIN log = {}
    BY DEF Init
  <1>2. \A c \in Channels : heard[c].state = "closed" /\ table[c].state = "absent"
    BY DEF Init, NoEntry
  <1> QED
    BY <1>1, <1>2 DEF ToldInv, StartsKnown, ToldBySession, RecordsFirst, LeftAlone,
                      ToldIsRecorded

(* Steps of a task that neither tell nor record.  A task of on_open takes  *)
(* a settled entry out of the table only into its own hands.               *)
LEMMA ToldKept ==
    ASSUME SaslInv, ToldInv, UNCHANGED <<mech, polite, served, used, session, heard>>,
           NEW i \in DOMAIN tasks, NEW c \in Channels, c = tasks[i].channel, NEW t \in Tasks,
           tasks' = [tasks EXCEPT ![i] = t], tasks[i].pc # "done",
           t.kind = tasks[i].kind, t.channel = c,
           t.pc # "done" => t.start = tasks[i].start,
           ~(t.pc = "replying" /\ t.answer = "complete"),
           DOMAIN log' = DOMAIN log,
           \A x \in DOMAIN log : /\ log'[x].told = log[x].told
                                 /\ log'[x].recorded = log[x].recorded,
           \A b \in Channels : b # c => table'[b] = table[b],
           table'[c].state = "settled" => table'[c] = table[c],
           tasks[i].kind = "open" =>
               /\ tasks[i].pc = "spawned" /\ t.pc # "replying"
               /\ \/ t.pc = "authenticating" /\ t.entry = table[c]
                  \/ table[c].state # "settled"
    PROVE  ToldInv'
  <1>1. /\ DOMAIN tasks' = DOMAIN tasks /\ tasks'[i] = t
        /\ \A j \in DOMAIN tasks : j # i => tasks'[j] = tasks[j]
    BY TaskMoved DEF SaslInv
  <1>2. StartsKnown'
    BY <1>1 DEF ToldInv, StartsKnown
  <1>3. ToldBySession'
    BY DEF ToldInv, ToldBySession
  <1>4. RecordsFirst'
    <2> SUFFICES ASSUME NEW j \in DOMAIN tasks,
                        tasks'[j].pc = "replying", tasks'[j].answer = "complete",
                        heard[tasks'[j].channel].id = tasks'[j].start
                 PROVE  session \in log'[tasks'[j].entry.ex.id].recorded
      BY <1>1 DEF RecordsFirst
    <2>1. j # i /\ tasks'[j] = tasks[j]
      BY <1>1
    <2>2. tasks[j].entry.ex.id \in DOMAIN log
      BY <2>1, Logged
    <2> QED
      BY <2>1, <2>2 DEF ToldInv, RecordsFirst
  <1>5. LeftAlone'
    <2> SUFFICES ASSUME polite, mech \in OneRound
                 PROVE  LeftAlone'
      BY DEF LeftAlone
    <2>1. \A b \in Channels : heard'[b].state # "continue"
      BY DEF ToldInv, LeftAlone
    <2>2. \A j \in DOMAIN tasks' : tasks'[j].kind = "open" /\ tasks'[j].pc # "replying"
      BY <1>1 DEF ToldInv, LeftAlone
    <2>3. ASSUME NEW b \in Channels, table'[b].state = "settled",
                 session \in log'[table'[b].ex.id].told
          PROVE  b \in used
      <3>1. table'[b] = table[b]
        BY <2>3
      <3>2. table[b].ex.id \in DOMAIN log
        BY <2>3, <3>1, Logged
      <3> QED
        BY <2>3, <3>1, <3>2 DEF ToldInv, LeftAlone
    <2> QED
      BY <2>1, <2>2, <2>3 DEF LeftAlone
  <1>6. ToldIsRecorded'
    <2> SUFFICES ASSUME NEW x \in DOMAIN log, session \in log[x].told,
                        session \notin log[x].recorded
                 PROVE  mech \in OneRound /\ (polite => \E j \in DOMAIN tasks' : Recording(j, x)')
      BY DEF ToldIsRecorded
    <2>1. mech \in OneRound
      BY DEF ToldInv, ToldIsRecorded
    <2>2. ASSUME polite
          PROVE  \E j \in DOMAIN tasks' : Recording(j, x)'
      <3>1. PICK j \in DOMAIN tasks : Recording(j, x)
        BY <2>2 DEF ToldInv, ToldIsRecorded
      <3>2. tasks[i].kind = "open" /\ tasks[i].pc = "spawned"
        BY <2>1, <2>2 DEF ToldInv, LeftAlone
      <3>3. CASE tasks[j].pc = "authenticating"
        <4>1. j # i /\ tasks'[j] = tasks[j]
          BY <1>1, <3>2, <3>3
        <4> QED
          BY <1>1, <3>1, <3>3, <4>1 DEF Recording, At
      <3>4. CASE tasks[j].pc = "spawned" /\ tasks[j].channel # c
        <4>1. j # i /\ tasks'[j] = tasks[j] /\ tasks[j].channel \in Channels
          BY <1>1, <3>4, TaskAt
        <4>2. table'[tasks[j].channel] = table[tasks[j].channel]
          BY <3>4, <4>1
        <4> QED
          BY <1>1, <3>1, <3>4, <4>1, <4>2 DEF Recording, At
      <3>5. CASE tasks[j].pc = "spawned" /\ tasks[j].channel = c
        <4>1. table[c].state = "settled" /\ table[c].ex.id = x
          BY <3>1, <3>5 DEF Recording, At
        <4>2. t.pc = "authenticating" /\ t.entry = table[c]
          BY <3>2, <4>1
        <4>3. Recording(i, x)'
          BY <1>1, <3>2, <4>1, <4>2 DEF Recording, At
        <4> QED
          BY <1>1, <4>3
      <3> QED
        BY <3>1, <3>3, <3>4, <3>5 DEF Recording, At
    <2> QED
      BY <2>1, <2>2
  <1> QED
    BY <1>2, <1>3, <1>4, <1>5, <1>6 DEF ToldInv

LEMMA OnOpenTold ==
    ASSUME SaslInv, ToldInv, NEW i \in DOMAIN tasks, OnOpen(i)
    PROVE  ToldInv'
  <1>1. PICK c \in Channels : c = tasks[i].channel /\ table[c] \in Entries
    BY TaskAt
  <1>2. /\ UNCHANGED <<mech, polite, served, used, session, heard, log>>
        /\ tasks[i].kind = "open" /\ tasks[i].pc = "spawned"
    BY DEF OnOpen, TaskUnchanged, At
  <1>3. CASE table[c].state = "settled"
    <2> DEFINE t == [tasks[i] EXCEPT !.pc = "authenticating", !.entry = table[c]]
    <2>1. /\ t \in Tasks /\ t.entry = table[c] /\ t.pc = "authenticating"
          /\ t.kind = tasks[i].kind /\ t.channel = c /\ t.start = tasks[i].start
      BY <1>1, TaskAt DEF Tasks
    <2>2. tasks' = [tasks EXCEPT ![i] = t] /\ table' = [table EXCEPT ![c] = NoEntry]
      BY <1>1, <1>3 DEF OnOpen
    <2> HIDE DEF t
    <2>3. /\ table'[c].state # "settled"
          /\ \A b \in Channels : b # c => table'[b] = table[b]
      BY <2>2, Absent DEF SaslInv, TypeOK
    <2> QED
      BY <1>1, <1>2, <2>1, <2>2, <2>3, ToldKept
  <1>4. CASE table[c].state # "settled"
    <2>1. tasks' = [tasks EXCEPT ![i] = Over(tasks[i])] /\ table' = table
      BY <1>1, <1>4 DEF OnOpen, Finish
    <2>2. /\ Over(tasks[i]) \in Tasks /\ Over(tasks[i]).pc = "done"
          /\ Over(tasks[i]).kind = tasks[i].kind /\ Over(tasks[i]).channel = c
      BY <1>1, TaskAt, BareType, Absent DEF Over, Tasks, Answers
    <2> QED
      BY <1>1, <1>2, <1>4, <2>1, <2>2, ToldKept
  <1> QED
    BY <1>3, <1>4

LEMMA HandleTakeTold ==
    ASSUME SaslInv, ToldInv, NEW i \in DOMAIN tasks, HandleTake(i)
    PROVE  ToldInv'
  <1>1. PICK c \in Channels : c = tasks[i].channel /\ table[c] \in Entries
    BY TaskAt
  <1>2. /\ UNCHANGED <<mech, polite, served, used, session, heard, log>>
        /\ tasks[i].kind = "blob" /\ tasks[i].pc = "spawned"
    BY DEF HandleTake, TaskUnchanged, At
  <1> DEFINE t == [tasks[i] EXCEPT !.pc = "holding", !.entry = table[c]]
  <1>3. /\ t \in Tasks /\ t.pc = "holding"
        /\ t.kind = tasks[i].kind /\ t.channel = c /\ t.start = tasks[i].start
    BY <1>1, TaskAt DEF Tasks
  <1>4. tasks' = [tasks EXCEPT ![i] = t] /\ table' = [table EXCEPT ![c] = NoEntry]
    BY <1>1 DEF HandleTake
  <1> HIDE DEF t
  <1>5. /\ table'[c].state # "settled"
        /\ \A b \in Channels : b # c => table'[b] = table[b]
    BY <1>4, Absent DEF SaslInv, TypeOK
  <1> QED
    BY <1>1, <1>2, <1>3, <1>4, <1>5, ToldKept

(* An answer that tells the peer nothing of an identity.                   *)
LEMMA AnswerKeeps ==
    ASSUME SaslInv, NEW i \in DOMAIN tasks, NEW a \in Answers \ {None, "complete"}, Answer(i, a)
    PROVE  \E t \in Tasks : /\ tasks' = [tasks EXCEPT ![i] = t]
                            /\ t.answer # "complete" /\ t.kind = tasks[i].kind
                            /\ t.channel = tasks[i].channel /\ t.start = tasks[i].start
  <1> DEFINE t == [tasks[i] EXCEPT !.pc = "replying", !.answer = a, !.data = Empty,
                                   !.entry = NoEntry]
  <1>1. /\ t \in Tasks /\ t.answer = a /\ t.kind = tasks[i].kind
        /\ t.channel = tasks[i].channel /\ t.start = tasks[i].start
    BY TaskAt, BareType, Absent DEF Tasks
  <1>2. tasks' = [tasks EXCEPT ![i] = t]
    BY DEF Answer
  <1> QED
    BY <1>1, <1>2

LEMMA HandleNothingTold ==
    ASSUME SaslInv, ToldInv, NEW i \in DOMAIN tasks, HandleNothing(i)
    PROVE  ToldInv'
  <1>1. PICK c \in Channels : c = tasks[i].channel /\ table[c] \in Entries
    BY TaskAt
  <1>2. /\ UNCHANGED <<mech, polite, served, used, session, heard, table, log>>
        /\ tasks[i].kind = "blob" /\ tasks[i].pc = "holding"
    BY DEF HandleNothing, TaskUnchanged, At
  <1>3. PICK t \in Tasks : /\ tasks' = [tasks EXCEPT ![i] = t]
                          /\ t.answer # "complete" /\ t.kind = tasks[i].kind
                          /\ t.channel = tasks[i].channel /\ t.start = tasks[i].start
    <2>1. Answer(i, "no exchange")
      BY DEF HandleNothing
    <2>2. "no exchange" \in Answers \ {None, "complete"}
      BY DEF Answers, None
    <2> QED
      BY <2>1, <2>2, AnswerKeeps
  <1> QED
    BY <1>1, <1>2, <1>3, ToldKept

LEMMA HandleEndsTold ==
    ASSUME SaslInv, ToldInv, NEW i \in DOMAIN tasks, HandleEnds(i)
    PROVE  ToldInv'
  <1>1. PICK c \in Channels : c = tasks[i].channel /\ table[c] \in Entries
    BY TaskAt
  <1>2. /\ UNCHANGED <<mech, polite, served, used, session, heard, table>>
        /\ tasks[i].kind = "blob" /\ tasks[i].pc = "holding"
    BY DEF HandleEnds, TaskUnchanged, At
  <1>3. PICK t \in Tasks : /\ tasks' = [tasks EXCEPT ![i] = t]
                          /\ t.answer # "complete" /\ t.kind = tasks[i].kind
                          /\ t.channel = tasks[i].channel /\ t.start = tasks[i].start
    <2>1. PICK a \in {"not a blob", "abort"} : Answer(i, a)
      BY DEF HandleEnds
    <2>2. a \in Answers \ {None, "complete"}
      BY <2>1 DEF Answers, None
    <2> QED
      BY <2>1, <2>2, AnswerKeeps
  <1>4. PICK x : log' = [log EXCEPT ![x].outcome = "failed"]
    BY DEF HandleEnds
  <1>5. /\ DOMAIN log' = DOMAIN log
        /\ \A y \in DOMAIN log : /\ log'[y].told = log[y].told
                                 /\ log'[y].recorded = log[y].recorded
    BY <1>4, LineType, SMTT(30) DEF Lines
  <1> QED
    BY <1>1, <1>2, <1>3, <1>5, ToldKept

LEMMA HandleStepTold ==
    ASSUME SaslInv, ToldInv, NEW i \in DOMAIN tasks, HandleStep(i)
    PROVE  ToldInv'
  <1>1. PICK c \in Channels : c = tasks[i].channel /\ table[c] \in Entries
    BY TaskAt
  <1>2. /\ UNCHANGED <<mech, polite, served, used, session, heard>>
        /\ tasks[i].kind = "blob" /\ tasks[i].pc = "holding"
    BY DEF HandleStep, TaskUnchanged, At
  <1>3. PICK ex \in Exchanges, d \in Payloads :
          tasks[i].entry.ex = ex /\ tasks[i].data = d /\ Pending(ex)
    <2>1. tasks[i].entry \in Entries /\ tasks[i].data \in Payloads
      BY TaskAt, SMTT(30) DEF Tasks
    <2>2. tasks[i].entry.state = "in flight"
      BY DEF HandleStep
    <2>3. tasks[i].entry.ex \in Exchanges
      BY <2>1, <2>2, EntryStates
    <2> QED
      BY <2>1, <2>2, <2>3 DEF SaslInv, EntriesSound, Sound
  <1>4. PICK x \in DOMAIN log : x = ex.id /\ Ready(ex) /\ Remembers(ex, log[x].first)
    BY <1>3 DEF Pending
  <1>5. PICK r : r = Step(ex, d)
    OBVIOUS
  <1>6. r.step \in {"continue", "complete", "failed"} /\ r.ex \in Exchanges /\ r.ex.id = x
    BY <1>4, <1>5, LaterStep DEF SaslInv, TypeOK
  <1>7. /\ DOMAIN log' = DOMAIN log
        /\ \A y \in DOMAIN log : /\ log'[y].told = log[y].told
                                 /\ log'[y].recorded = log[y].recorded
    <2> DEFINE line == Noted(log[x], ex, d, r)
    <2>1. line.told = log[x].told /\ line.recorded = log[x].recorded
      <3>1. log[x] \in Lines
        BY LineType
      <3> QED
        BY <3>1 DEF Noted, Lines
    <2>2. log' = [log EXCEPT ![x] = line]
      BY <1>3, <1>5, <1>6 DEF HandleStep
    <2> HIDE DEF line
    <2> QED
      BY <2>1, <2>2
  <1> DEFINE t == [tasks[i] EXCEPT
                      !.pc = IF r.step = "complete" THEN "authenticating" ELSE "replying",
                      !.entry = IF r.step = "complete" THEN Settled(r.ex) ELSE NoEntry,
                      !.data = Empty,
                      !.answer = r.step]
  <1>8. tasks' = [tasks EXCEPT ![i] = t]
    BY <1>3, <1>5 DEF HandleStep
  <1>9. /\ t \in Tasks /\ t.answer = r.step /\ t.kind = tasks[i].kind
        /\ t.channel = c /\ t.start = tasks[i].start
        /\ t.pc = IF r.step = "complete" THEN "authenticating" ELSE "replying"
    <2>1. Settled(r.ex) \in Entries /\ NoEntry \in Entries
      BY <1>6, EntryOf, Absent
    <2> QED
      BY <1>1, <1>6, <2>1, TaskAt, BareType DEF Tasks, Answers
  <1> HIDE DEF t
  <1>10. /\ \A b \in Channels : b # c => table'[b] = table[b]
         /\ table'[c].state = "settled" => table'[c] = table[c]
    <2>1. table' = table \/ table' = [table EXCEPT ![c] = InFlight(r.ex)]
      BY <1>1, <1>3, <1>5 DEF HandleStep
    <2> QED
      BY <1>6, <2>1, EntryOf DEF SaslInv, TypeOK
  <1> QED
    BY <1>1, <1>2, <1>7, <1>8, <1>9, <1>10, ToldKept

(* Command::Authenticate: whoever waits for this exchange to be recorded   *)
(* has it recorded, and the others still have their task.                  *)
LEMMA AuthenticateTold ==
    ASSUME SaslInv, ToldInv, NEW i \in DOMAIN tasks, Authenticate(i)
    PROVE  ToldInv'
  <1>1. /\ UNCHANGED <<mech, polite, served, used, session, heard, table>>
        /\ tasks[i].pc = "authenticating"
    BY DEF Authenticate, TaskUnchanged
  <1>2. PICK x \in DOMAIN log : x = tasks[i].entry.ex.id
    BY <1>1, Logged
  <1>3. /\ DOMAIN log' = DOMAIN log
        /\ \A y \in DOMAIN log : log'[y].told = log[y].told
        /\ \A y \in DOMAIN log : log[y].recorded \subseteq log'[y].recorded
        /\ session \in log'[x].recorded
    <2>1. log' = [log EXCEPT ![x].recorded = @ \cup {session}]
      BY <1>2 DEF Authenticate
    <2>2. \A y \in DOMAIN log : log[y] \in Lines
      BY LineType
    <2> QED
      BY <2>1, <2>2 DEF Lines
  <1>4. PICK t \in Tasks :
          /\ tasks' = [tasks EXCEPT ![i] = t]
          /\ t.kind = tasks[i].kind /\ t.channel = tasks[i].channel
          /\ t.pc # "done" => t.start = tasks[i].start /\ t.entry = tasks[i].entry
          /\ tasks[i].kind = "open" => t.pc = "done"
    <2>1. CASE tasks[i].kind = "open"
      <3>1. /\ Over(tasks[i]) \in Tasks /\ Over(tasks[i]).pc = "done"
            /\ Over(tasks[i]).kind = tasks[i].kind
            /\ Over(tasks[i]).channel = tasks[i].channel
        BY TaskAt, BareType, Absent DEF Over, Tasks, Answers
      <3> QED
        BY <2>1, <3>1 DEF Authenticate, Finish
    <2>2. CASE tasks[i].kind # "open"
      <3> DEFINE t == [tasks[i] EXCEPT !.pc = "replying"]
      <3>1. /\ t \in Tasks /\ t.kind = tasks[i].kind /\ t.channel = tasks[i].channel
            /\ t.start = tasks[i].start /\ t.entry = tasks[i].entry
        BY TaskAt DEF Tasks
      <3>2. tasks' = [tasks EXCEPT ![i] = t]
        BY <2>2 DEF Authenticate
      <3> QED
        BY <2>2, <3>1, <3>2
    <2> QED
      BY <2>1, <2>2
  <1>5. /\ DOMAIN tasks' = DOMAIN tasks /\ tasks'[i] = t
        /\ \A j \in DOMAIN tasks : j # i => tasks'[j] = tasks[j]
    BY <1>4, TaskMoved DEF SaslInv
  <1>6. StartsKnown'
    BY <1>1, <1>3, <1>4, <1>5 DEF ToldInv, StartsKnown
  <1>7. ToldBySession'
    BY <1>1, <1>3 DEF ToldInv, ToldBySession
  <1>8. RecordsFirst'
    <2> SUFFICES ASSUME NEW j \in DOMAIN tasks,
                        tasks'[j].pc = "replying", tasks'[j].answer = "complete",
                        heard[tasks'[j].channel].id = tasks'[j].start
                 PROVE  session \in log'[tasks'[j].entry.ex.id].recorded
      BY <1>1, <1>5 DEF RecordsFirst
    <2>1. CASE j = i
      BY <1>2, <1>3, <1>4, <1>5, <2>1
    <2>2. CASE j # i
      <3>1. tasks'[j] = tasks[j] /\ tasks[j].entry.ex.id \in DOMAIN log
        BY <1>5, <2>2, Logged
      <3>2. session \in log[tasks[j].entry.ex.id].recorded
        BY <3>1 DEF ToldInv, RecordsFirst
      <3> QED
        BY <1>3, <3>1, <3>2
    <2> QED
      BY <2>1, <2>2
  <1>9. LeftAlone'
    <2> SUFFICES ASSUME polite, mech \in OneRound
                 PROVE  LeftAlone'
      BY <1>1 DEF LeftAlone
    <2>1. \A j \in DOMAIN tasks' : tasks'[j].kind = "open" /\ tasks'[j].pc # "replying"
      BY <1>4, <1>5 DEF ToldInv, LeftAlone
    <2>2. ASSUME NEW b \in Channels, table[b].state = "settled",
                 session \in log'[table[b].ex.id].told
          PROVE  b \in used
      BY <1>3, <2>2, Logged DEF ToldInv, LeftAlone
    <2> QED
      BY <1>1, <2>1, <2>2 DEF ToldInv, LeftAlone
  <1>10. ToldIsRecorded'
    <2> SUFFICES ASSUME NEW y \in DOMAIN log, session \in log[y].told,
                        session \notin log'[y].recorded
                 PROVE  mech \in OneRound /\ (polite => \E j \in DOMAIN tasks' : Recording(j, y)')
      BY <1>1, <1>3 DEF ToldIsRecorded
    <2>1. y # x /\ session \notin log[y].recorded
      BY <1>3
    <2>2. ASSUME polite
          PROVE  \E j \in DOMAIN tasks' : Recording(j, y)'
      <3>1. PICK j \in DOMAIN tasks : Recording(j, y)
        BY <2>1, <2>2 DEF ToldInv, ToldIsRecorded
      <3>2. j # i
        BY <1>1, <1>2, <2>1, <3>1 DEF Recording, At
      <3> QED
        BY <1>1, <1>5, <3>1, <3>2 DEF Recording, At
    <2> QED
      BY <1>1, <2>1, <2>2 DEF ToldInv, ToldIsRecorded
  <1> QED
    BY <1>6, <1>7, <1>8, <1>9, <1>10 DEF ToldInv

(* Command::Send: the peer is told of an exchange that is recorded.        *)
LEMMA ReplyTold ==
    ASSUME SaslInv, ToldInv, NEW i \in DOMAIN tasks, Reply(i)
    PROVE  ToldInv'
  <1>1. PICK c \in Channels : c = tasks[i].channel /\ table[c] \in Entries
    BY TaskAt
  <1>2. /\ UNCHANGED <<mech, polite, served, used, session, table>>
        /\ tasks[i].pc = "replying"
    BY DEF Reply
  <1>3. /\ Over(tasks[i]) \in Tasks /\ Over(tasks[i]).pc = "done"
        /\ Over(tasks[i]).kind = tasks[i].kind
    BY TaskAt, BareType, Absent DEF Over, Tasks, Answers
  <1>4. /\ DOMAIN tasks' = DOMAIN tasks /\ tasks'[i] = Over(tasks[i])
        /\ \A j \in DOMAIN tasks : j # i => tasks'[j] = tasks[j]
    <2>1. tasks' = [tasks EXCEPT ![i] = Over(tasks[i])]
      BY DEF Reply, Finish
    <2> QED
      BY <1>3, <2>1, TaskMoved DEF SaslInv
  <1>5. /\ DOMAIN log' = DOMAIN log
        /\ \A y \in DOMAIN log :
              /\ log'[y].recorded = log[y].recorded
              /\ log'[y].told \subseteq log[y].told \cup {session}
              /\ log'[y].told = log[y].told \/ session \in log[y].recorded
    <2>1. CASE heard[c].id = tasks[i].start /\ tasks[i].answer = "complete"
      <3>1. PICK x \in DOMAIN log : x = tasks[i].entry.ex.id
        BY <2>1, Logged
      <3>2. log' = [log EXCEPT ![x].told = @ \cup {session}]
        BY <1>1, <2>1, <3>1 DEF Reply
      <3>3. session \in log[x].recorded
        BY <1>1, <1>2, <2>1, <3>1 DEF ToldInv, RecordsFirst
      <3>4. \A y \in DOMAIN log : log[y] \in Lines
        BY LineType
      <3> QED
        BY <3>2, <3>3, <3>4 DEF Lines
    <2>2. CASE ~(heard[c].id = tasks[i].start /\ tasks[i].answer = "complete")
      <3>1. log' = log
        BY <1>1, <2>2 DEF Reply
      <3> QED
        BY <3>1
    <2> QED
      BY <2>1, <2>2
  <1>6. \A b \in Channels : heard'[b].id = heard[b].id
    BY <1>1 DEF Reply, SaslInv, TypeOK
  <1>7. StartsKnown'
    BY <1>2, <1>3, <1>4, <1>5, <1>6 DEF ToldInv, StartsKnown, SaslInv, TypeOK
  <1>8. ToldBySession'
    <2> SUFFICES ASSUME NEW y \in DOMAIN log, NEW s \in log'[y].told
                 PROVE  s <= session
      BY <1>2, <1>5 DEF ToldBySession
    <2>1. s \in log[y].told \/ s = session
      BY <1>5
    <2> QED
      BY <2>1 DEF ToldInv, ToldBySession, SaslInv, TypeOK
  <1>9. RecordsFirst'
    <2> SUFFICES ASSUME NEW j \in DOMAIN tasks,
                        tasks'[j].pc = "replying", tasks'[j].answer = "complete",
                        heard'[tasks'[j].channel].id = tasks'[j].start
                 PROVE  session \in log'[tasks'[j].entry.ex.id].recorded
      BY <1>2, <1>4 DEF RecordsFirst
    <2>1. j # i /\ tasks'[j] = tasks[j]
      BY <1>3, <1>4
    <2>2. tasks[j].entry.ex.id \in DOMAIN log /\ tasks[j].channel \in Channels
      BY <2>1, Logged, TaskAt
    <2> QED
      BY <1>5, <1>6, <2>1, <2>2 DEF ToldInv, RecordsFirst
  <1>10. ~(polite /\ mech \in OneRound)
    BY <1>2 DEF ToldInv, LeftAlone
  <1>11. ToldIsRecorded'
    <2> SUFFICES ASSUME NEW y \in DOMAIN log, session \in log'[y].told,
                        session \notin log'[y].recorded
                 PROVE  mech \in OneRound /\ ~polite
      BY <1>2, <1>5 DEF ToldIsRecorded
    <2>1. session \in log[y].told /\ session \notin log[y].recorded
      BY <1>5
    <2> QED
      BY <1>10, <2>1 DEF ToldInv, ToldIsRecorded
  <1> QED
    BY <1>2, <1>7, <1>8, <1>9, <1>10, <1>11 DEF ToldInv, LeftAlone

(* Steps that change neither the log nor the tasks there are: a blob is    *)
(* delivered, a channel closed, the session replaced.                      *)
LEMMA DeliverTold ==
    ASSUME SaslInv, ToldInv, NEW c \in Channels, NEW d \in Blobs, Deliver(c, d)
    PROVE  ToldInv'
  <1>1. /\ UNCHANGED <<mech, polite, served, used, table, log, session>>
        /\ c \in served /\ (polite => heard[c].state = "continue")
    BY DEF Deliver
  <1>2. /\ \A b \in Channels : heard'[b].id = heard[b].id
        /\ heard' \in [Channels -> [id : Nat, state : Answers \cup {"closed", "waiting"}]]
    BY DEF Deliver, SaslInv, TypeOK
  <1>3. ~(polite /\ mech \in OneRound)
    BY <1>1 DEF ToldInv, LeftAlone
  <1>4. PICK t : /\ t.pc = "spawned" /\ t.start = heard[c].id /\ tasks' = Append(tasks, t)
                /\ t \in Tasks
    <2>1. d \in Payloads
      BY BlobsType DEF SaslInv, TypeOK
    <2> DEFINE t == Task("blob", c, d)
    <2>2. t.pc = "spawned" /\ t.start = heard[c].id /\ t \in Tasks
      BY <1>2, <2>1, Absent DEF Task, Tasks, Answers
    <2>3. tasks' = Append(tasks, t)
      BY DEF Deliver, Spawn
    <2> QED
      BY <2>2, <2>3
  <1>5. \A j \in DOMAIN tasks' : \/ j \in DOMAIN tasks /\ tasks'[j] = tasks[j]
                                 \/ tasks'[j] = t
    BY <1>4, AppendProperties, LenProperties DEF SaslInv, TypeOK
  <1>6. StartsKnown'
    <2>1. \A b \in served : heard'[b].id \in DOMAIN log
      BY <1>2 DEF ToldInv, StartsKnown, SaslInv, TypeOK
    <2>2. \A j \in DOMAIN tasks' : tasks'[j].pc # "done" => tasks'[j].start \in DOMAIN log
      BY <1>1, <1>4, <1>5 DEF ToldInv, StartsKnown
    <2> QED
      BY <1>1, <2>1, <2>2 DEF StartsKnown
  <1>7. RecordsFirst'
    <2> SUFFICES ASSUME NEW j \in DOMAIN tasks',
                        tasks'[j].pc = "replying", tasks'[j].answer = "complete",
                        heard'[tasks'[j].channel].id = tasks'[j].start
                 PROVE  session \in log[tasks'[j].entry.ex.id].recorded
      BY <1>1 DEF RecordsFirst
    <2>1. j \in DOMAIN tasks /\ tasks'[j] = tasks[j]
      BY <1>4, <1>5
    <2>2. tasks[j].channel \in Channels
      BY <2>1, TaskAt
    <2> QED
      BY <1>2, <2>1, <2>2 DEF ToldInv, RecordsFirst
  <1>8. ToldBySession' /\ LeftAlone' /\ ToldIsRecorded'
    BY <1>1, <1>3 DEF ToldInv, ToldBySession, LeftAlone, ToldIsRecorded
  <1> QED
    BY <1>6, <1>7, <1>8 DEF ToldInv

(* A number that opened a channel is not zero, which a closed one has.     *)
LEMMA CloseTold ==
    ASSUME SaslInv, ToldInv, NEW c \in Channels, Close(c)
    PROVE  ToldInv'
  <1>1. UNCHANGED <<mech, polite, used, table, tasks, log, session>> /\ served' = served \ {c}
    BY DEF Close
  <1>2. /\ heard'[c].id = 0 /\ heard'[c].state = "closed"
        /\ \A b \in Channels : b # c => heard'[b] = heard[b]
    BY DEF Close, SaslInv, TypeOK
  <1>3. 0 \notin DOMAIN log
    BY LenProperties DEF SaslInv, TypeOK
  <1>4. StartsKnown'
    BY <1>1, <1>2 DEF ToldInv, StartsKnown, SaslInv, TypeOK
  <1>5. RecordsFirst'
    <2> SUFFICES ASSUME NEW j \in DOMAIN tasks,
                        tasks[j].pc = "replying", tasks[j].answer = "complete",
                        heard'[tasks[j].channel].id = tasks[j].start
                 PROVE  session \in log[tasks[j].entry.ex.id].recorded
      BY <1>1 DEF RecordsFirst
    <2>1. tasks[j].start # 0
      BY <1>3 DEF ToldInv, StartsKnown
    <2>2. tasks[j].channel \in Channels /\ tasks[j].channel # c
      BY <1>2, <2>1, TaskAt
    <2> QED
      BY <1>2, <2>2 DEF ToldInv, RecordsFirst
  <1>6. LeftAlone'
    BY <1>1, <1>2 DEF ToldInv, LeftAlone
  <1>7. ToldBySession' /\ ToldIsRecorded'
    BY <1>1 DEF ToldInv, ToldBySession, ToldIsRecorded, Recording, At
  <1> QED
    BY <1>4, <1>5, <1>6, <1>7 DEF ToldInv

LEMMA SwapTold ==
    ASSUME SaslInv, ToldInv, Swap
    PROVE  ToldInv'
  <1>1. /\ UNCHANGED <<mech, polite, table, tasks, log>>
        /\ served' = {} /\ session' = session + 1 /\ session \in Nat
        /\ \A b \in Channels : heard'[b].id = 0 /\ heard'[b].state = "closed"
    BY DEF Swap, SaslInv, TypeOK
  <1>2. \A x \in DOMAIN log : session' \notin log[x].told
    BY <1>1 DEF ToldInv, ToldBySession
  <1>3. StartsKnown'
    BY <1>1 DEF ToldInv, StartsKnown
  <1>4. ToldBySession'
    <2> SUFFICES ASSUME NEW x \in DOMAIN log, NEW s \in log[x].told
                 PROVE  s <= session'
      BY <1>1 DEF ToldBySession
    <2>1. s \in Nat
      <3>1. log[x] \in Lines
        BY LineType
      <3> QED
        BY <3>1 DEF Lines
    <2>2. s <= session
      BY DEF ToldInv, ToldBySession
    <2> QED
      BY <1>1, <2>1, <2>2
  <1>5. RecordsFirst'
    <2>1. ASSUME NEW j \in DOMAIN tasks, tasks[j].pc = "replying"
          PROVE  heard'[tasks[j].channel].id # tasks[j].start
      <3>1. tasks[j].channel \in Channels
        BY TaskAt
      <3>2. tasks[j].start \in DOMAIN log
        BY <2>1 DEF ToldInv, StartsKnown
      <3>3. 0 \notin DOMAIN log
        BY LenProperties DEF SaslInv, TypeOK
      <3> QED
        BY <1>1, <3>1, <3>2, <3>3
    <2> QED
      BY <1>1, <2>1 DEF RecordsFirst
  <1>6. LeftAlone'
    <2>1. \A b \in Channels : table[b].state = "settled" => table[b].ex.id \in DOMAIN log
      BY Logged
    <2> QED
      BY <1>1, <1>2, <2>1 DEF ToldInv, LeftAlone
  <1>7. ToldIsRecorded'
    BY <1>1, <1>2 DEF ToldIsRecorded
  <1> QED
    BY <1>3, <1>4, <1>5, <1>6, <1>7 DEF ToldInv

(* accept: the number is new, so no task speaks on the channel it opens    *)
(* but the on_open task spawned with it, which finds what accept settled;  *)
(* a peer that waits has not used the channel's number before.             *)
LEMMA AcceptTold ==
    ASSUME SaslInv, ToldInv, NEW c \in Channels, NEW d \in Offers, Accept(c, d)
    PROVE  ToldInv'
  <1>1. d \in Payloads
    BY OffersType DEF SaslInv, TypeOK
  <1>2. /\ UNCHANGED <<mech, polite, session>> /\ session \in Nat
        /\ used' = used \cup {c} /\ (polite => c \notin used)
    BY DEF Accept, SaslInv, TypeOK
  <1>3. PICK x \in Nat : x = Len(log) + 1
    BY LenProperties DEF SaslInv, TypeOK
  <1>4. PICK ex : ex = Begin(x)
    OBVIOUS
  <1>5. PICK r : r = Step(ex, d)
    OBVIOUS
  <1>6. /\ r.step \in {"continue", "complete", "failed"}
        /\ r.ex \in Exchanges /\ r.ex.id = x
        /\ r.step = "continue" => Ready(r.ex)
    BY <1>1, <1>4, <1>5, FirstStep DEF SaslInv, TypeOK
  <1>7. ASSUME NEW line, log' = Append(log, line)
        PROVE  /\ DOMAIN log' = DOMAIN log \cup {x} /\ x \notin DOMAIN log
               /\ log'[x] = line /\ \A y \in DOMAIN log : log'[y] = log[y]
    BY <1>3, <1>7, LenProperties DEF SaslInv, TypeOK
  <1>8. CASE ~InitialBlob(d) \/ r.step = "failed"
    <2> DEFINE line == [NewLine EXCEPT !.outcome = "failed"]
    <2>1. line.told = {}
      BY DEF NewLine
    <2>2. log' = Append(log, line) /\ UNCHANGED <<served, table, tasks, heard>>
      BY <1>3, <1>4, <1>5, <1>8 DEF Accept
    <2> HIDE DEF line
    <2>3. /\ DOMAIN log' = DOMAIN log \cup {x}
          /\ log'[x] = line /\ \A y \in DOMAIN log : log'[y] = log[y]
      BY <1>7, <2>2
    <2>4. StartsKnown' /\ ToldBySession'
      BY <1>2, <2>1, <2>2, <2>3 DEF ToldInv, StartsKnown, ToldBySession
    <2>5. RecordsFirst'
      BY <1>2, <2>2, <2>3, Logged DEF ToldInv, RecordsFirst
    <2>6. LeftAlone'
      BY <1>2, <2>2, <2>3, Logged DEF ToldInv, LeftAlone
    <2>7. ToldIsRecorded'
      BY <1>2, <2>1, <2>2, <2>3 DEF ToldInv, ToldIsRecorded, Recording, At
    <2> QED
      BY <2>4, <2>5, <2>6, <2>7 DEF ToldInv
  <1>9. CASE InitialBlob(d) /\ r.step # "failed"
    <2> DEFINE line == [Noted(NewLine, ex, d, r) EXCEPT
                          !.told = IF r.step = "complete" THEN {session} ELSE {}]
               e == IF r.step = "complete" THEN Settled(r.ex) ELSE InFlight(r.ex)
               t == Task("open", c, Empty)
    <2>1. line.told = IF r.step = "complete" THEN {session} ELSE {}
      BY DEF Noted, NewLine
    <2>2. /\ log' = Append(log, line)
          /\ table' = [table EXCEPT ![c] = e]
          /\ served' = served \cup {c}
          /\ heard' = [heard EXCEPT ![c] = [id |-> ex.id, state |-> r.step]]
          /\ tasks' = Append(tasks, t)
      BY <1>3, <1>4, <1>5, <1>9 DEF Accept, Spawn
    <2>3. /\ r.step = "complete" => e.state = "settled" /\ e.ex.id = x
          /\ r.step = "continue" => e.state = "in flight"
      BY <1>6, EntryOf
    <2>4. /\ heard'[c].id = x /\ heard'[c].state = r.step
          /\ \A b \in Channels : b # c => heard'[b] = heard[b]
      BY <1>4, <2>2 DEF SaslInv, TypeOK, Begin
    <2>5. t.kind = "open" /\ t.pc = "spawned" /\ t.channel = c /\ t.start = x
      BY <2>4 DEF Task
    <2> HIDE DEF line, e, t
    <2>6. /\ DOMAIN log' = DOMAIN log \cup {x} /\ x \notin DOMAIN log
          /\ log'[x] = line /\ \A y \in DOMAIN log : log'[y] = log[y]
      BY <1>7, <2>2
    <2>7. PICK k \in DOMAIN tasks' :
            /\ tasks'[k] = t /\ DOMAIN tasks' = DOMAIN tasks \cup {k}
            /\ \A j \in DOMAIN tasks : j # k /\ tasks'[j] = tasks[j]
      <3>1. DOMAIN tasks = 1 .. Len(tasks) /\ Len(tasks) \in Nat
        BY LenProperties DEF SaslInv, TypeOK
      <3>2. /\ DOMAIN tasks' = 1 .. Len(tasks) + 1 /\ tasks'[Len(tasks) + 1] = t
            /\ \A j \in 1 .. Len(tasks) : tasks'[j] = tasks[j]
        BY <2>2 DEF SaslInv, TypeOK
      <3> QED
        BY <3>1, <3>2
    <2>8. /\ table'[c] = e
          /\ \A b \in Channels : b # c => table'[b] = table[b]
      BY <2>2 DEF SaslInv, TypeOK
    <2>9. StartsKnown'
      <3>1. \A b \in served' : heard'[b].id \in DOMAIN log'
        BY <2>2, <2>4, <2>6 DEF ToldInv, StartsKnown, SaslInv, TypeOK
      <3>2. \A j \in DOMAIN tasks' : tasks'[j].pc # "done" => tasks'[j].start \in DOMAIN log'
        BY <2>5, <2>6, <2>7 DEF ToldInv, StartsKnown
      <3> QED
        BY <3>1, <3>2 DEF StartsKnown
    <2>10. ToldBySession'
      <3> SUFFICES ASSUME NEW y \in DOMAIN log', NEW s \in log'[y].told
                   PROVE  s <= session
        BY <1>2 DEF ToldBySession
      <3>1. CASE y = x
        BY <1>2, <2>1, <2>6, <3>1
      <3>2. CASE y \in DOMAIN log
        BY <2>6, <3>2 DEF ToldInv, ToldBySession
      <3> QED
        BY <2>6, <3>1, <3>2
    <2>11. RecordsFirst'
      <3> SUFFICES ASSUME NEW j \in DOMAIN tasks',
                          tasks'[j].pc = "replying", tasks'[j].answer = "complete",
                          heard'[tasks'[j].channel].id = tasks'[j].start
                   PROVE  session \in log'[tasks'[j].entry.ex.id].recorded
        BY <1>2 DEF RecordsFirst
      <3>1. j \in DOMAIN tasks /\ tasks'[j] = tasks[j]
        BY <2>5, <2>7
      <3>2. tasks[j].start # x
        BY <2>6, <3>1 DEF ToldInv, StartsKnown
      <3>3. tasks[j].channel \in Channels /\ tasks[j].channel # c
        BY <2>4, <3>1, <3>2, TaskAt
      <3>4. tasks[j].entry.ex.id \in DOMAIN log
        BY <3>1, Logged
      <3> QED
        BY <2>4, <2>6, <3>1, <3>3, <3>4 DEF ToldInv, RecordsFirst
    <2>12. LeftAlone'
      <3> SUFFICES ASSUME polite, mech \in OneRound
                   PROVE  LeftAlone'
        BY <1>2 DEF LeftAlone
      <3>1. r.step = "complete"
        BY <1>6, <1>9 DEF Ready, OneRound, Challenging
      <3>2. \A b \in Channels : heard'[b].state # "continue"
        BY <2>4, <3>1 DEF ToldInv, LeftAlone
      <3>3. \A j \in DOMAIN tasks' : tasks'[j].kind = "open" /\ tasks'[j].pc # "replying"
        BY <2>5, <2>7 DEF ToldInv, LeftAlone
      <3>4. ASSUME NEW b \in Channels, table'[b].state = "settled",
                   session \in log'[table'[b].ex.id].told
            PROVE  b \in used'
        <4>1. CASE b = c
          BY <1>2, <4>1
        <4>2. CASE b # c
          BY <1>2, <2>6, <2>8, <3>4, <4>2, Logged DEF ToldInv, LeftAlone
        <4> QED
          BY <4>1, <4>2
      <3> QED
        BY <1>2, <3>2, <3>3, <3>4 DEF LeftAlone
    <2>13. ToldIsRecorded'
      <3> SUFFICES ASSUME NEW y \in DOMAIN log', session \in log'[y].told,
                          session \notin log'[y].recorded
                   PROVE  /\ mech \in OneRound
                          /\ polite => \E j \in DOMAIN tasks' : Recording(j, y)'
        BY <1>2 DEF ToldIsRecorded
      <3>1. CASE y = x
        <4>1. r.step = "complete"
          BY <2>1, <2>6, <3>1
        <4>2. mech \in OneRound
          BY <1>1, <1>4, <1>5, <4>1, FirstStep DEF SaslInv, TypeOK
        <4>3. Recording(k, x)'
          BY <2>3, <2>5, <2>7, <2>8, <4>1 DEF Recording, At
        <4> QED
          BY <2>7, <3>1, <4>2, <4>3
      <3>2. CASE y \in DOMAIN log
        <4>1. session \in log[y].told /\ session \notin log[y].recorded
          BY <2>6, <3>2
        <4>2. mech \in OneRound
          BY <3>2, <4>1 DEF ToldInv, ToldIsRecorded
        <4>3. ASSUME polite
              PROVE  \E j \in DOMAIN tasks' : Recording(j, y)'
          <5>1. PICK j \in DOMAIN tasks : Recording(j, y)
            BY <3>2, <4>1, <4>3 DEF ToldInv, ToldIsRecorded
          <5>2. j \in DOMAIN tasks' /\ tasks'[j] = tasks[j] /\ tasks[j].channel \in Channels
            BY <2>7, TaskAt
          <5>3. CASE tasks[j].pc = "authenticating"
            BY <5>1, <5>2, <5>3 DEF Recording, At
          <5>4. CASE tasks[j].pc = "spawned"
            <6>1. /\ table[tasks[j].channel].state = "settled"
                  /\ table[tasks[j].channel].ex.id = y
              BY <5>1, <5>4 DEF Recording, At
            <6>2. tasks[j].channel # c
              BY <1>2, <4>1, <4>2, <4>3, <5>2, <6>1 DEF ToldInv, LeftAlone
            <6>3. table'[tasks[j].channel] = table[tasks[j].channel]
              BY <2>8, <5>2, <6>2
            <6> QED
              BY <5>1, <5>2, <5>4, <6>1, <6>3 DEF Recording, At
          <5> QED
            BY <5>1, <5>3, <5>4 DEF Recording, At
        <4> QED
          BY <4>2, <4>3
      <3> QED
        BY <2>6, <3>1, <3>2
    <2> QED
      BY <2>9, <2>10, <2>11, <2>12, <2>13 DEF ToldInv
  <1> QED
    BY <1>8, <1>9

LEMMA StutterTold ==
    ASSUME ToldInv, UNCHANGED vars
    PROVE  ToldInv'
  BY DEF vars, ToldInv, StartsKnown, ToldBySession, RecordsFirst, LeftAlone, ToldIsRecorded,
         Recording, At

LEMMA NextTold == SaslInv /\ ToldInv /\ [Next]_vars => ToldInv'
  <1> SUFFICES ASSUME SaslInv, ToldInv, [Next]_vars
               PROVE  ToldInv'
    OBVIOUS
  <1>1. ASSUME NEW c \in Channels, NEW d \in Offers, Accept(c, d)
        PROVE  ToldInv'
    BY <1>1, AcceptTold
  <1>2. ASSUME NEW c \in Channels, NEW d \in Blobs, Deliver(c, d)
        PROVE  ToldInv'
    BY <1>2, DeliverTold
  <1>3. ASSUME NEW c \in Channels, Close(c)
        PROVE  ToldInv'
    BY <1>3, CloseTold
  <1>4. CASE Swap
    BY <1>4, SwapTold
  <1>5. ASSUME NEW i \in DOMAIN tasks, Run(i)
        PROVE  ToldInv'
    <2>1. CASE OnOpen(i)
      BY <2>1, OnOpenTold
    <2>2. CASE HandleTake(i)
      BY <2>2, HandleTakeTold
    <2>3. CASE HandleNothing(i)
      BY <2>3, HandleNothingTold
    <2>4. CASE HandleEnds(i)
      BY <2>4, HandleEndsTold
    <2>5. CASE HandleStep(i)
      BY <2>5, HandleStepTold
    <2>6. CASE Authenticate(i)
      BY <2>6, AuthenticateTold
    <2>7. CASE Reply(i)
      BY <2>7, ReplyTold
    <2> QED
      BY <1>5, <2>1, <2>2, <2>3, <2>4, <2>5, <2>6, <2>7 DEF Run
  <1>6. CASE UNCHANGED vars
    BY <1>6, StutterTold
  <1> QED
    BY <1>1, <1>2, <1>3, <1>4, <1>5, <1>6 DEF Next

-----------------------------------------------------------------------------
(* The theorems.                                                           *)

(* Every step of the driver, of a task and of the peer keeps the invariant.*)
LEMMA NextInv == SaslInv /\ [Next]_vars => SaslInv'
  <1> SUFFICES ASSUME SaslInv, [Next]_vars
               PROVE  SaslInv'
    OBVIOUS
  <1>1. ASSUME NEW c \in Channels, NEW d \in Offers, Accept(c, d)
        PROVE  SaslInv'
    BY <1>1, AcceptInv
  <1>2. ASSUME NEW c \in Channels, NEW d \in Blobs, Deliver(c, d)
        PROVE  SaslInv'
    BY <1>2, DeliverInv
  <1>3. ASSUME NEW c \in Channels, Close(c)
        PROVE  SaslInv'
    BY <1>3, CloseInv
  <1>4. CASE Swap
    BY <1>4, SwapInv
  <1>5. ASSUME NEW i \in DOMAIN tasks, Run(i)
        PROVE  SaslInv'
    <2>1. CASE OnOpen(i)
      BY <2>1, OnOpenInv
    <2>2. CASE HandleTake(i)
      BY <2>2, HandleTakeInv
    <2>3. CASE HandleNothing(i)
      BY <2>3, HandleNothingInv
    <2>4. CASE HandleEnds(i)
      BY <2>4, HandleEndsInv
    <2>5. CASE HandleStep(i)
      BY <2>5, HandleStepInv
    <2>6. CASE Authenticate(i)
      BY <2>6, AuthenticateInv
    <2>7. CASE Reply(i)
      BY <2>7, ReplyInv
    <2> QED
      BY <1>5, <2>1, <2>2, <2>3, <2>4, <2>5, <2>6, <2>7 DEF Run
  <1>6. CASE UNCHANGED vars
    BY <1>6, StutterInv
  <1> QED
    BY <1>1, <1>2, <1>3, <1>4, <1>5, <1>6 DEF Next

(* In every reachable state each exchange that can still be stepped is in  *)
(* one place, and every entry is as good as the log says.                  *)
THEOREM Inductive == Spec => []SaslInv
  BY InitInv, NextInv, PTL DEF Spec

(* The table, the tasks and the session are always well formed.            *)
THEOREM TypeCorrect == Spec => []TypeOK
  <1>1. SaslInv => TypeOK
    BY DEF SaslInv
  <1> QED
    BY <1>1, Inductive, PTL

(* Whoever Command::Authenticate records was proved by the exchange that   *)
(* recorded it, for every mechanism, any number of channels, exchanges and *)
(* blobs in flight, and every order in which their tasks run.              *)
THEOREM Authenticity == Spec => []ProofFits
  <1>1. SaslInv => ProofFits
    <2> SUFFICES ASSUME SaslInv, authenticated # NoIdentity
                 PROVE  /\ Proved(authenticated.id)
                        /\ authenticated.who = AskedFor(authenticated.id)
      BY DEF ProofFits
    <2>1. PICK user \in Users \cup {None}, authz \in Users \cup {None} :
            LET ex == [Begin(authenticated.id) EXCEPT !.user = user, !.authz = authz]
            IN  Won(ex) /\ authenticated.who = Effective(ex)
      BY DEF SaslInv, RecordedWon
    <2> DEFINE ex == [Begin(authenticated.id) EXCEPT !.user = user, !.authz = authz]
               line == log[authenticated.id]
    <2>2. ex.id = authenticated.id /\ ex.user = user /\ ex.authz = authz
      BY DEF Begin
    <2>3. /\ line.outcome = "complete"
          /\ Grants(ex, line.proof) /\ Remembers(ex, line.first)
          /\ authenticated.who = IF authz # None THEN authz ELSE user
      BY <2>1, <2>2 DEF Won, Effective
    <2> HIDE DEF ex
    <2>4. Proved(authenticated.id)
      BY <2>2, <2>3 DEF Grants, Remembers, Proved
    <2>5. CASE mech = "SCRAM-SHA-256"
      BY <2>2, <2>3, <2>4, <2>5 DEF Remembers, AskedFor
    <2>6. CASE mech \in {"PLAIN", "DIGEST-MD5"}
      BY <2>2, <2>3, <2>4, <2>6 DEF Grants, AskedFor
    <2>7. CASE mech \in {"ANONYMOUS", "EXTERNAL", "CRAM-MD5"}
      BY <2>2, <2>3, <2>4, <2>7 DEF Grants, AskedFor
    <2>8. mech \in OneRound \cup Challenging
      BY SaslAssumption DEF SaslInv, TypeOK
    <2> QED
      BY <2>5, <2>6, <2>7, <2>8 DEF OneRound, Challenging
  <1> QED
    BY <1>1, Inductive, PTL

(* A peer told that it is authenticated is recorded on its session: before *)
(* it is told, where handle answers a blob, and by an on_open task still   *)
(* to run, where accept answered the start of a peer that waits.  It holds *)
(* for any number of channels, exchanges, blobs in flight and swaps.       *)
THEOREM ToldRecorded == Spec => []ToldIsRecorded
  <1>1. ToldInv => ToldIsRecorded
    BY DEF ToldInv
  <1> QED
    BY <1>1, ToldInit, NextTold, Inductive, PTL DEF Spec

(* SaslProfile::handle takes the entry out of the table before it steps    *)
(* it, so that no exchange ever weighs a second proof, however the blobs   *)
(* of a channel and of its successors are interleaved.                     *)
THEOREM GuessedOnce == Spec => []OneGuess
  <1>1. SaslInv => OneGuess
    BY DEF SaslInv
  <1> QED
    BY <1>1, Inductive, PTL

(* No blob reaches an exchange that completed, failed or was given up.     *)
THEOREM NeverStepped == Spec => []OverIsOver
  <1>1. SaslInv => OverIsOver
    <2> SUFFICES ASSUME SaslInv, NEW x \in Live
                 PROVE  log[x].outcome = "open"
      BY DEF OverIsOver
    <2>1. ASSUME NEW c \in Channels, table[c].state = "in flight", table[c].ex.id = x
          PROVE  log[x].outcome = "open"
      BY <2>1 DEF SaslInv, EntriesSound, Sound, Pending
    <2>2. ASSUME NEW i \in DOMAIN tasks,
                 tasks[i].entry.state = "in flight", tasks[i].entry.ex.id = x
          PROVE  log[x].outcome = "open"
      BY <2>2 DEF SaslInv, EntriesSound, Sound, Pending
    <2> QED
      BY <2>1, <2>2 DEF Live
  <1> QED
    BY <1>1, Inductive, PTL
=============================================================================

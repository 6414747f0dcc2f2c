-------------------------- MODULE BotBackendProofs --------------------------
(***************************************************************************)
(* Theorems about BotBackend for every set of calling goroutines, every    *)
(* number of retries and every number of uploads.                          *)
(***************************************************************************)
EXTENDS BotBackend, FiniteSetTheorems, TLAPS

-----------------------------------------------------------------------------
(* Type correctness *)

CallState ==
    [op : Operation \cup {"none"}, ref : Nat, pc : RequestStep \cup {"idle", "done"},
     attempt : 0..MaxRetry, body : {"whole", "spent"}, reply : Outcome \cup {"none"},
     producer : {"none", "writing", "done", "failed"}, live : BOOLEAN, there : BOOLEAN,
     others : BOOLEAN, answer : Answer \cup {"none"}]

\* A Put that Telegram has answered with the message it made.
Holding(r) ==
    /\ r.op = "put"
    /\ \/ r.pc \in {"wait", "join"} /\ r.reply = "ok"
       \/ r.pc = "done" /\ r.answer = "ok"

\* Which operation is at which step; the one attempt of a Put; a reply is only there
\* when it has come; a producer writes until the pipe is closed.
WellFormed(r) ==
    /\ r \in CallState
    /\ r.pc \in RequestStep \cup {"done"} => r.op \in Operation
    /\ r.pc \in {"streaming", "join"} => r.op = "put"
    /\ r.pc = "download" => r.op = "get"
    /\ r.pc = "backoff" => r.op # "put" /\ r.attempt < MaxRetry
    /\ r.op = "put" => r.attempt = 0
    /\ r.op \in {"get", "exists", "delete"} => r.ref # 0
    /\ r.pc = "join" => r.reply \in Outcome
    /\ r.pc \in {"attempt", "streaming", "backoff"} => r.reply = "none"
    /\ r.producer = "writing" => r.op = "put" /\ r.pc \in {"attempt", "streaming", "join"}
    /\ Holding(r) => r.ref # 0

CallsTyped ==
    /\ call \in [Call -> CallState]
    /\ \A c \in Call : WellFormed(call[c]) /\ call[c].ref <= sent

TelegramTyped ==
    /\ sent \in Nat /\ channel \subseteq 1..sent /\ known \subseteq 1..sent
    /\ strayDeletes \subseteq 1..sent

\* The calls of Put whose upload may still arrive while somebody waits for it.
Uploading(r) ==
    /\ r.op = "put"
    /\ r.pc \in {"attempt", "streaming"} \/ (r.pc = "wait" /\ r.reply = "none")

Uploads == {c \in Call : Uploading(call[c])}

\* Every call of Put accounts for one message at most: sent, astray, or on its way.
Counted ==
    /\ IsFiniteSet(Uploads)
    /\ puts \in 0..MaxPuts /\ strayPuts \in Nat
    /\ sent + strayPuts + Cardinality(Uploads) <= puts

TypeInv == CallsTyped /\ TelegramTyped /\ Counted

LEMMA TypeInvImplies == TypeInv => TypeOK /\ OneMessagePerPut
<1> SUFFICES ASSUME TypeInv PROVE TypeOK /\ OneMessagePerPut
  OBVIOUS
<1>1. Cardinality(Uploads) \in Nat
  BY FS_CardinalityType DEF TypeInv, Counted
<1>2. OneMessagePerPut /\ strayPuts \in 0..MaxPuts
  BY <1>1, BotAssumption DEF TypeInv, Counted, TelegramTyped, OneMessagePerPut
<1>3. \A c \in Call : call[c].ref \in 0..sent
  BY DEF TypeInv, CallsTyped, TelegramTyped, CallState
<1> QED
  BY <1>2, <1>3 DEF TypeInv, Counted, TelegramTyped, CallsTyped, TypeOK, CallState, WellFormed

\* A call that answers.
LEMMA AnsweredTyped ==
    ASSUME NEW r \in CallState, r.op \in Operation, r.op = "put" => r.attempt = 0,
           r.op \in {"get", "exists", "delete"} => r.ref # 0,
           r.producer # "writing", NEW a \in Answer, r.op = "put" /\ a = "ok" => r.ref # 0
    PROVE  /\ WellFormed(Answered(r, a)) /\ Answered(r, a).ref = r.ref
           /\ ~Uploading(Answered(r, a))
  BY DEF Answered, WellFormed, CallState, RequestStep, Uploading, Holding

LEMMA AnswersTyped ==
    ASSUME NEW o \in Outcome
    PROVE  {Classify(o), ExistsAnswer(o), DeleteAnswer(o)} \subseteq Answer
  BY DEF Outcome, Classify, ExistsAnswer, DeleteAnswer, Answer

\* callWithRetry returns, for any call that is in it.
LEMMA ReturnedTyped ==
    ASSUME NEW r \in CallState, r.op \in Operation, r.op = "put" => r.attempt = 0,
           r.op \in {"get", "exists", "delete"} => r.ref # 0,
           r.reply = "none", r.producer = "writing" => r.op = "put", NEW o \in Outcome,
           r.op = "put" /\ o = "ok" => r.ref # 0
    PROVE  WellFormed(Returned(r, o)) /\ Returned(r, o).ref = r.ref /\ ~Uploading(Returned(r, o))
<1>1. CASE r.op = "put"
  BY <1>1 DEF Returned, WellFormed, CallState, RequestStep, Uploading, Holding
<1>2. CASE r.op = "get" /\ o = "ok"
  BY <1>2 DEF Returned, WellFormed, CallState, RequestStep, Uploading, Holding, Operation
<1>3. CASE r.op = "get" /\ o # "ok"
  BY <1>3, AnsweredTyped, AnswersTyped DEF Returned
<1>4. CASE r.op = "exists"
  BY <1>4, AnsweredTyped, AnswersTyped DEF Returned
<1>5. CASE r.op = "delete"
  BY <1>5, AnsweredTyped, AnswersTyped DEF Returned
<1> QED
  BY <1>1, <1>2, <1>3, <1>4, <1>5 DEF Operation

\* callOnce returns, for any call that is in it.
LEMMA AfterAttemptTyped ==
    ASSUME NEW r \in CallState, r.op \in Operation, r.op = "put" => r.attempt = 0,
           r.op \in {"get", "exists", "delete"} => r.ref # 0,
           r.producer = "writing" => r.op = "put", NEW o \in Outcome,
           r.op = "put" /\ o = "ok" => r.ref # 0
    PROVE  /\ WellFormed(AfterAttempt(r, o)) /\ AfterAttempt(r, o).ref = r.ref
           /\ ~Uploading(AfterAttempt(r, o))
<1>1. CASE IsRetryable(o) /\ r.op # "put" /\ r.attempt < MaxRetry
  BY <1>1 DEF AfterAttempt, WellFormed, CallState, RequestStep, Uploading, Holding
<1>2. CASE ~(IsRetryable(o) /\ r.op # "put" /\ r.attempt < MaxRetry)
  <2> DEFINE q == [r EXCEPT !.reply = "none"]
  <2>1. q \in CallState /\ q.op = r.op /\ q.ref = r.ref /\ q.reply = "none"
        /\ q.attempt = r.attempt /\ q.producer = r.producer
    BY DEF CallState
  <2>2. WellFormed(Returned(q, o)) /\ Returned(q, o).ref = q.ref /\ ~Uploading(Returned(q, o))
    BY <2>1, ReturnedTyped
  <2>3. AfterAttempt(r, o) = Returned(q, o)
    BY <1>2 DEF AfterAttempt
  <2> QED
    BY <2>1, <2>2, <2>3
<1> QED
  BY <1>1, <1>2

-----------------------------------------------------------------------------
(* Counting uploads *)

\* The step of one call adds it to the uploads under way, takes it away, or neither.
LEMMA UploadsStep ==
    ASSUME TypeInv, NEW c \in Call, NEW q \in CallState, call' = [call EXCEPT ![c] = q]
    PROVE  /\ IsFiniteSet(Uploads') /\ Cardinality(Uploads') \in Nat
           /\ Cardinality(Uploads) \in Nat
           /\ (Uploading(q) <=> Uploading(call[c])) =>
                  Cardinality(Uploads') = Cardinality(Uploads)
           /\ Uploading(q) /\ ~Uploading(call[c]) =>
                  Cardinality(Uploads') = Cardinality(Uploads) + 1
           /\ ~Uploading(q) /\ Uploading(call[c]) =>
                  Cardinality(Uploads') = Cardinality(Uploads) - 1
<1>1. IsFiniteSet(Uploads)
  BY DEF TypeInv, Counted
<1>2. \A d \in Call : call'[d] = IF d = c THEN q ELSE call[d]
  BY DEF TypeInv, CallsTyped
<1>3. CASE Uploading(q) <=> Uploading(call[c])
  <2>1. Uploads' = Uploads
    BY <1>2, <1>3 DEF Uploads
  <2> QED
    BY <1>1, <1>3, <2>1, FS_CardinalityType
<1>4. CASE Uploading(q) /\ ~Uploading(call[c])
  <2>1. Uploads' = Uploads \cup {c} /\ c \notin Uploads
    BY <1>2, <1>4 DEF Uploads
  <2> QED
    BY <1>1, <1>4, <2>1, FS_AddElement, FS_CardinalityType
<1>5. CASE ~Uploading(q) /\ Uploading(call[c])
  <2>1. Uploads' = Uploads \ {c} /\ c \in Uploads
    BY <1>2, <1>5 DEF Uploads
  <2> QED
    BY <1>1, <1>5, <2>1, FS_RemoveElement, FS_CardinalityType
<1> QED
  BY <1>3, <1>4, <1>5 DEF Uploading

\* A step of a call that brings no upload nearer to the channel.
LEMMA CallStep ==
    ASSUME TypeInv, NEW c \in Call, NEW q, WellFormed(q), q.ref <= sent,
           call' = [call EXCEPT ![c] = q], Uploading(q) => Uploading(call[c]),
           UNCHANGED <<sent, strayPuts, puts>>, TelegramTyped'
    PROVE  TypeInv'
<1>1. CallsTyped'
  BY DEF TypeInv, CallsTyped, WellFormed
<1>2. Cardinality(Uploads') <= Cardinality(Uploads) /\ IsFiniteSet(Uploads')
      /\ Cardinality(Uploads') \in Nat /\ Cardinality(Uploads) \in Nat
  <2>1. q \in CallState
    BY DEF WellFormed
  <2>2. IsFiniteSet(Uploads') /\ Cardinality(Uploads') \in Nat /\ Cardinality(Uploads) \in Nat
    BY <2>1, UploadsStep
  <2>3. CASE Uploading(q) <=> Uploading(call[c])
    <3>1. Cardinality(Uploads') = Cardinality(Uploads)
      BY <2>1, <2>3, UploadsStep
    <3> QED
      BY <2>2, <3>1
  <2>4. CASE ~Uploading(q) /\ Uploading(call[c])
    <3>1. Cardinality(Uploads') = Cardinality(Uploads) - 1
      BY <2>1, <2>4, UploadsStep
    <3> QED
      BY <2>2, <3>1
  <2> QED
    BY <2>3, <2>4
<1>3. Counted'
  BY <1>2, BotAssumption DEF TypeInv, Counted, TelegramTyped
<1> QED
  BY <1>1, <1>3 DEF TypeInv

\* A step between a call and its locals.
LEMMA LocalStep ==
    ASSUME TypeInv, NEW c \in Call, NEW q, WellFormed(q), q.ref = call[c].ref,
           call' = [call EXCEPT ![c] = q], Uploading(q) => Uploading(call[c]),
           UNCHANGED <<telegram, known, puts>>
    PROVE  TypeInv'
<1>1. TelegramTyped' /\ UNCHANGED <<sent, strayPuts, puts>> /\ q.ref <= sent
  BY DEF telegram, TypeInv, TelegramTyped, CallsTyped
<1> QED
  BY <1>1, CallStep

LEMMA OneLess ==
    ASSUME NEW m \in Nat, NEW n \in Nat, NEW a \in Nat, NEW s \in Nat, NEW p \in Nat,
           NEW i \in Nat, NEW j \in Nat, i + j <= s + p + 1, s + p + m <= a, n = m - 1
    PROVE  i + j + n <= a
  OBVIOUS

\* A step of a call whose upload arrives, or goes astray.
LEMMA UploadStep ==
    ASSUME TypeInv, NEW c \in Call, NEW q, WellFormed(q), q.ref <= sent',
           call' = [call EXCEPT ![c] = q], ~Uploading(q), Uploading(call[c]),
           sent' \in Nat, sent <= sent', strayPuts' \in Nat,
           sent' + strayPuts' <= sent + strayPuts + 1, UNCHANGED puts, TelegramTyped'
    PROVE  TypeInv'
<1>0. q \in CallState /\ sent \in Nat /\ strayPuts \in Nat
  BY DEF WellFormed, TypeInv, TelegramTyped, Counted
<1>1. CallsTyped'
  <2>1. \A d \in Call : call[d].ref \in Nat /\ call[d].ref <= sent'
    BY <1>0 DEF TypeInv, CallsTyped, CallState
  <2> QED
    BY <2>1, <1>0 DEF TypeInv, CallsTyped
<1>2. Cardinality(Uploads') = Cardinality(Uploads) - 1
  BY <1>0, UploadsStep
<1>3. IsFiniteSet(Uploads') /\ Cardinality(Uploads') \in Nat /\ Cardinality(Uploads) \in Nat
  BY <1>0, UploadsStep
<1>4. sent + strayPuts + Cardinality(Uploads) <= puts /\ puts \in Nat /\ puts' = puts
  BY BotAssumption DEF TypeInv, Counted
<1>5. sent' + strayPuts' + Cardinality(Uploads') <= puts'
  <2> HIDE DEF Uploads
  <2>1. puts \in Nat /\ puts' = puts
    BY <1>4
  <2>2. sent + strayPuts + Cardinality(Uploads) <= puts
    BY <1>4
  <2>3. sent' + strayPuts' + Cardinality(Uploads') <= puts
    BY <1>0, <1>2, <1>3, <2>1, <2>2, OneLess
  <2> QED
    BY <2>1, <2>3
<1>6. Counted'
  BY <1>3, <1>4, <1>5, BotAssumption DEF TypeInv, Counted
<1> QED
  BY <1>1, <1>6 DEF TypeInv

-----------------------------------------------------------------------------
(* The invariant is kept *)

LEMMA TypeInit == Init => TypeInv
<1> SUFFICES ASSUME Init PROVE TypeInv
  OBVIOUS
<1>1. Uploads = {}
  BY DEF Init, Idle, Uploads, Uploading
<1>2. WellFormed(Idle)
  BY BotAssumption DEF Idle, WellFormed, CallState, RequestStep, Holding
<1>3. IsFiniteSet(Uploads) /\ Cardinality(Uploads) = 0
  BY <1>1, FS_EmptySet
<1>4. Counted
  BY <1>3, BotAssumption DEF Init, Counted
<1>5. CallsTyped /\ TelegramTyped
  BY <1>2 DEF Init, CallsTyped, TelegramTyped, WellFormed, Idle
<1> QED
  BY <1>4, <1>5 DEF TypeInv

LEMMA IdleTyped == WellFormed(Idle) /\ Idle.ref = 0 /\ ~Uploading(Idle)
  BY BotAssumption DEF Idle, WellFormed, CallState, RequestStep, Uploading, Holding

\* A call that has been asked for the message m.
Asking(op, m, there) == [Idle EXCEPT !.op = op, !.ref = m, !.pc = "attempt", !.there = there]

LEMMA WithRefTyped ==
    ASSUME NEW op \in {"get", "exists", "delete"}, NEW m \in Nat \ {0}, NEW there \in BOOLEAN
    PROVE  /\ WellFormed(Asking(op, m, there)) /\ Asking(op, m, there).ref = m
           /\ ~Uploading(Asking(op, m, there))
<1> DEFINE q == Asking(op, m, there)
<1>1. Idle \in CallState
  BY IdleTyped DEF WellFormed
<1>2. q \in CallState
  BY <1>1 DEF Asking, CallState, RequestStep, Operation
<1>3. /\ q.op = op /\ q.ref = m /\ q.pc = "attempt" /\ q.attempt = Idle.attempt
      /\ q.reply = Idle.reply /\ q.producer = Idle.producer
  BY <1>1 DEF Asking, CallState
<1>4. Idle.reply = "none" /\ Idle.producer = "none"
  BY DEF Idle
<1> HIDE DEF q
<1>5. WellFormed(q) /\ q.ref = m /\ ~Uploading(q)
  BY <1>2, <1>3, <1>4 DEF WellFormed, Uploading, Holding, Operation
<1> QED
  BY <1>5 DEF q

LEMMA TypeBegin ==
    ASSUME TypeInv, NEW c \in Call, BeginPut(c) \/ BeginWithRef(c) \/ Cancel(c)
    PROVE  TypeInv'
<1>1. CASE BeginPut(c)
  <2>1. CASE /\ puts < MaxPuts /\ puts' = puts + 1
             /\ call' = [call EXCEPT ![c] =
                   [Idle EXCEPT !.op = "put", !.pc = "attempt", !.producer = "writing"]]
    <3> DEFINE q == [Idle EXCEPT !.op = "put", !.pc = "attempt", !.producer = "writing"]
    <3>1. WellFormed(q) /\ q.ref = 0 /\ Uploading(q) /\ q \in CallState
      BY IdleTyped DEF Idle, WellFormed, CallState, RequestStep, Uploading, Holding, Operation
    <3>2. ~Uploading(call[c])
      BY <1>1 DEF BeginPut, Uploading, Idle
    <3>3. call' = [call EXCEPT ![c] = q]
      BY <2>1
    <3> HIDE DEF q
    <3>4. Cardinality(Uploads') = Cardinality(Uploads) + 1
      BY <3>1, <3>2, <3>3, UploadsStep
    <3>5. IsFiniteSet(Uploads') /\ Cardinality(Uploads') \in Nat /\ Cardinality(Uploads) \in Nat
      BY <3>1, <3>3, UploadsStep
    <3>6. Counted'
      <4>1. sent' = sent /\ strayPuts' = strayPuts /\ puts' = puts + 1 /\ puts' \in 0..MaxPuts
        BY <1>1, <2>1, BotAssumption DEF BeginPut, telegram, TypeInv, Counted
      <4> QED
        BY <3>4, <3>5, <4>1 DEF TypeInv, Counted, TelegramTyped
    <3>7. CallsTyped' /\ TelegramTyped'
      BY <1>1, <3>1, <3>3 DEF BeginPut, telegram, TypeInv, CallsTyped, TelegramTyped
    <3> QED
      BY <3>6, <3>7 DEF TypeInv
  <2>2. CASE /\ call' = [call EXCEPT ![c] = Answered([Idle EXCEPT !.op = "put"], "tooLarge")]
             /\ UNCHANGED puts
    <3> DEFINE q == Answered([Idle EXCEPT !.op = "put"], "tooLarge")
    <3> DEFINE p == [Idle EXCEPT !.op = "put"]
    <3>0. p \in CallState /\ p.op = "put" /\ p.attempt = 0 /\ p.producer = "none" /\ p.ref = 0
      BY IdleTyped DEF Idle, WellFormed, CallState, Operation
    <3>1. WellFormed(q) /\ q.ref = 0 /\ ~Uploading(q)
      BY <3>0, AnsweredTyped DEF Operation, Answer
    <3>2. call' = [call EXCEPT ![c] = q]
      BY <2>2
    <3> HIDE DEF q
    <3>3. TelegramTyped' /\ UNCHANGED <<sent, strayPuts, puts>> /\ q.ref <= sent
      BY <1>1, <2>2, <3>1 DEF BeginPut, telegram, TypeInv, TelegramTyped
    <3> QED
      BY <3>1, <3>2, <3>3, CallStep
  <2> QED
    BY <1>1, <2>1, <2>2 DEF BeginPut
<1>2. CASE BeginWithRef(c)
  <2>1. PICK op \in Operation \ {"put"}, m \in known :
           call' = [call EXCEPT ![c] = [Idle EXCEPT !.op = op, !.ref = m, !.pc = "attempt",
                                                    !.there = (m \in channel)]]
    BY <1>2 DEF BeginWithRef
  <2> DEFINE q == [Idle EXCEPT !.op = op, !.ref = m, !.pc = "attempt", !.there = (m \in channel)]
  <2>2. m \in Nat \ {0} /\ m <= sent
    BY DEF TypeInv, TelegramTyped
  <2>0. op \in {"get", "exists", "delete"}
    BY DEF Operation
  <2>3. WellFormed(q) /\ q.ref = m /\ ~Uploading(q)
    <3>1. m \in Nat \ {0}
      BY <2>2
    <3> DEFINE there == m \in channel
    <3>2. there \in BOOLEAN /\ q = Asking(op, m, there)
      BY DEF Asking
    <3> HIDE DEF q, there
    <3> QED
      BY <2>0, <3>1, <3>2, WithRefTyped
  <2>4. TelegramTyped' /\ UNCHANGED <<sent, strayPuts, puts>>
    BY <1>2 DEF BeginWithRef, telegram, TypeInv, TelegramTyped
  <2>5. call' = [call EXCEPT ![c] = q]
    BY <2>1
  <2> HIDE DEF q
  <2> QED
    BY <2>2, <2>3, <2>4, <2>5, CallStep
<1>3. CASE Cancel(c)
  <2> DEFINE q == [call[c] EXCEPT !.live = FALSE]
  <2>1. WellFormed(q) /\ q.ref <= sent /\ (Uploading(q) => Uploading(call[c]))
    <3>1. WellFormed(call[c]) /\ call[c].ref <= sent
      BY DEF TypeInv, CallsTyped
    <3>2. call[c] \in CallState
      BY <3>1 DEF WellFormed
    <3>3. q \in CallState
      BY <3>2 DEF CallState
    <3>4. /\ q.op = call[c].op /\ q.ref = call[c].ref /\ q.pc = call[c].pc
          /\ q.attempt = call[c].attempt /\ q.reply = call[c].reply
          /\ q.producer = call[c].producer /\ q.answer = call[c].answer
      BY <3>2 DEF CallState
    <3> HIDE DEF q
    <3> QED
      BY <3>1, <3>3, <3>4 DEF WellFormed, Uploading, Holding
  <2>2. call' = [call EXCEPT ![c] = q]
    BY <1>3 DEF Cancel, TypeInv, CallsTyped
  <2>3. TelegramTyped' /\ UNCHANGED <<sent, strayPuts, puts>>
    BY <1>3 DEF Cancel, telegram, TypeInv, TelegramTyped
  <2> HIDE DEF q
  <2> QED
    BY <2>1, <2>2, <2>3, CallStep
<1> QED
  BY <1>1, <1>2, <1>3

LEMMA TypeCall ==
    ASSUME TypeInv, NEW c \in Call,
           Send(c) \/ Receive(c) \/ Backoff(c) \/ Stream(c) \/ SourceFails(c) \/ BreakOff(c)
               \/ ProducerStops(c) \/ Join(c) \/ Download(c)
    PROVE  TypeInv'
<1>0. /\ WellFormed(call[c]) /\ call[c] \in CallState
      /\ call[c].op \in {"get", "exists", "delete"} => call[c].ref # 0
  BY DEF TypeInv, CallsTyped, WellFormed
<1>1. CASE Send(c)
  <2> DEFINE q == [call[c] EXCEPT !.pc = IF call[c].op = "put" THEN "streaming" ELSE "wait"]
  <2>1. WellFormed(q) /\ q.ref = call[c].ref /\ (Uploading(q) => Uploading(call[c]))
    BY <1>0, <1>1 DEF Send, WellFormed, CallState, Uploading, RequestStep, Holding
  <2>2. call' = [call EXCEPT ![c] = q] /\ UNCHANGED <<telegram, known, puts>>
    BY <1>1 DEF Send, TypeInv, CallsTyped
  <2> HIDE DEF q
  <2> QED
    BY <2>1, <2>2, LocalStep
<1>2. CASE Receive(c)
  <2> DEFINE q == AfterAttempt(call[c], call[c].reply)
  <2>1. call[c].reply \in Outcome /\ call[c].op \in Operation
    BY <1>0, <1>2 DEF Receive, WellFormed, CallState, RequestStep
  <2>4. call[c].op = "put" /\ call[c].reply = "ok" => call[c].ref # 0
    BY <1>0, <1>2 DEF Receive, WellFormed, Holding
  <2>2. WellFormed(q) /\ q.ref = call[c].ref /\ ~Uploading(q)
    BY <1>0, <2>1, <2>4, AfterAttemptTyped DEF WellFormed
  <2>3. call' = [call EXCEPT ![c] = q] /\ UNCHANGED <<telegram, known, puts>>
    BY <1>2 DEF Receive
  <2> HIDE DEF q
  <2> QED
    BY <2>2, <2>3, LocalStep
<1>3. CASE Backoff(c)
  <2>1. CASE call' = [call EXCEPT ![c].pc = "attempt", ![c].attempt = @ + 1]
    <3> DEFINE q == [call[c] EXCEPT !.pc = "attempt", !.attempt = call[c].attempt + 1]
    <3>0. call[c].op # "put" /\ call[c].attempt + 1 \in 0..MaxRetry /\ call[c].op \in Operation
      BY <1>0, <1>3, BotAssumption DEF Backoff, WellFormed, CallState, RequestStep
    <3>1. WellFormed(q) /\ q.ref = call[c].ref /\ (Uploading(q) => Uploading(call[c]))
      BY <1>0, <1>3, <3>0 DEF Backoff, WellFormed, CallState, Uploading, RequestStep, Holding
    <3>2. call' = [call EXCEPT ![c] = q] /\ UNCHANGED <<telegram, known, puts>>
      BY <1>3, <2>1 DEF Backoff, TypeInv, CallsTyped
    <3> HIDE DEF q
    <3> QED
      BY <3>1, <3>2, LocalStep
  <2>2. CASE call' = [call EXCEPT ![c] = Returned(call[c], "lost")]
    <3> DEFINE q == Returned(call[c], "lost")
    <3>1. call[c].op \in Operation /\ call[c].reply = "none" /\ "lost" \in Outcome
      BY <1>0, <1>3 DEF Backoff, WellFormed, RequestStep, Outcome
    <3>2. WellFormed(q) /\ q.ref = call[c].ref /\ ~Uploading(q)
      BY <1>0, <3>1, ReturnedTyped DEF WellFormed
    <3>3. call' = [call EXCEPT ![c] = q] /\ UNCHANGED <<telegram, known, puts>>
      BY <1>3, <2>2 DEF Backoff
    <3> HIDE DEF q
    <3> QED
      BY <3>2, <3>3, LocalStep
  <2> QED
    BY <1>3, <2>1, <2>2 DEF Backoff
<1>4. CASE Stream(c)
  <2> DEFINE q == [call[c] EXCEPT !.pc = "wait", !.producer = "done"]
  <2>1. WellFormed(q) /\ q.ref = call[c].ref /\ (Uploading(q) => Uploading(call[c]))
    BY <1>0, <1>4 DEF Stream, WellFormed, CallState, Uploading, RequestStep, Holding
  <2>2. call' = [call EXCEPT ![c] = q] /\ UNCHANGED <<telegram, known, puts>>
    BY <1>4 DEF Stream, TypeInv, CallsTyped
  <2> HIDE DEF q
  <2> QED
    BY <2>1, <2>2, LocalStep
<1>5. CASE SourceFails(c)
  <2> DEFINE r == [call[c] EXCEPT !.producer = "failed", !.others = TRUE]
             q == AfterAttempt(r, "lost")
  <2>1. /\ r \in CallState /\ r.op = call[c].op /\ r.attempt = call[c].attempt
        /\ r.producer = "failed" /\ r.ref = call[c].ref
    BY <1>0 DEF CallState
  <2>2. call[c].op \in Operation /\ (call[c].op = "put" => call[c].attempt = 0)
        /\ "lost" \in Outcome
    BY <1>0, <1>5 DEF SourceFails, WellFormed, RequestStep, Outcome
  <2>3. call' = [call EXCEPT ![c] = q] /\ UNCHANGED <<telegram, known, puts>>
    BY <1>5 DEF SourceFails
  <2> HIDE DEF r
  <2>4. WellFormed(q) /\ q.ref = call[c].ref /\ ~Uploading(q)
    BY <1>0, <2>1, <2>2, AfterAttemptTyped
  <2> HIDE DEF q
  <2> QED
    BY <2>3, <2>4, LocalStep
<1>6. CASE BreakOff(c)
  <2>1. PICK o \in {"flood", "server", "refused", "lost"} :
           call' = [call EXCEPT ![c] =
              AfterAttempt([call[c] EXCEPT !.others = @ \/ o \in {"refused", "lost"}], o)]
    BY <1>6 DEF BreakOff
  <2> DEFINE r == [call[c] EXCEPT !.others = @ \/ o \in {"refused", "lost"}]
             q == AfterAttempt(r, o)
  <2>2. /\ r \in CallState /\ r.op = call[c].op /\ r.attempt = call[c].attempt
        /\ r.producer = call[c].producer /\ r.ref = call[c].ref
    BY <1>0 DEF CallState
  <2>3. call[c].op = "put" /\ call[c].op \in Operation /\ call[c].attempt = 0 /\ o \in Outcome
    BY <1>0, <1>6 DEF BreakOff, WellFormed, RequestStep, Outcome, Operation
  <2>4. call' = [call EXCEPT ![c] = q] /\ UNCHANGED <<telegram, known, puts>>
    BY <1>6, <2>1 DEF BreakOff
  <2> HIDE DEF r
  <2>5. WellFormed(q) /\ q.ref = call[c].ref /\ ~Uploading(q)
    BY <1>0, <2>2, <2>3, AfterAttemptTyped
  <2> HIDE DEF q
  <2> QED
    BY <2>4, <2>5, LocalStep
<1>7. CASE ProducerStops(c)
  <2> DEFINE q == [call[c] EXCEPT !.producer = "failed"]
  <2>1. WellFormed(q) /\ q.ref = call[c].ref /\ (Uploading(q) => Uploading(call[c]))
    BY <1>0, <1>7 DEF ProducerStops, WellFormed, CallState, Uploading, RequestStep, Holding
  <2>2. call' = [call EXCEPT ![c] = q] /\ UNCHANGED <<telegram, known, puts>>
    BY <1>7 DEF ProducerStops, TypeInv, CallsTyped
  <2> HIDE DEF q
  <2> QED
    BY <2>1, <2>2, LocalStep
<1>8. CASE Join(c)
  <2> DEFINE a == IF call[c].reply # "ok" THEN Classify(call[c].reply)
                  ELSE IF call[c].producer = "failed" THEN "error" ELSE "ok"
             q == Answered(call[c], a)
  <2>1. call[c].reply \in Outcome /\ call[c].op \in Operation /\ call[c].producer # "writing"
    BY <1>0, <1>8 DEF Join, WellFormed, RequestStep
  <2>2. a \in Answer
    BY <2>1, AnswersTyped DEF Answer
  <2>3. call' = [call EXCEPT ![c] = q] /\ UNCHANGED <<telegram, known, puts>>
    BY <1>8 DEF Join
  <2>5. a = "ok" => call[c].ref # 0
    <3>1. a = "ok" => call[c].reply = "ok"
      BY DEF Classify
    <3> HIDE DEF a
    <3> QED
      BY <1>0, <1>8, <3>1 DEF Join, WellFormed, Holding
  <2> HIDE DEF a
  <2>4. WellFormed(q) /\ q.ref = call[c].ref /\ ~Uploading(q)
    BY <1>0, <2>1, <2>2, <2>5, AnsweredTyped DEF WellFormed
  <2> HIDE DEF q
  <2> QED
    BY <2>3, <2>4, LocalStep
<1>9. CASE Download(c)
  <2>1. PICK a \in {"ok", "missing", "throttled", "unavailable", "error"} :
           call' = [call EXCEPT ![c] = Answered([call[c] EXCEPT !.others = @ \/ a = "error"], a)]
    BY <1>9 DEF Download
  <2> DEFINE r == [call[c] EXCEPT !.others = @ \/ a = "error"]
             q == Answered(r, a)
  <2>2. /\ r \in CallState /\ r.op = call[c].op /\ r.attempt = call[c].attempt
        /\ r.producer = call[c].producer /\ r.ref = call[c].ref
    BY <1>0 DEF CallState
  <2>3. call[c].op = "get" /\ call[c].op \in Operation /\ a \in Answer
        /\ call[c].producer # "writing"
    BY <1>0, <1>9 DEF Download, WellFormed, RequestStep, Answer, Operation
  <2>4. call' = [call EXCEPT ![c] = q] /\ UNCHANGED <<telegram, known, puts>>
    BY <1>9, <2>1 DEF Download
  <2> HIDE DEF r
  <2>5. WellFormed(q) /\ q.ref = call[c].ref /\ ~Uploading(q)
    BY <1>0, <2>2, <2>3, AnsweredTyped
  <2> HIDE DEF q
  <2> QED
    BY <2>4, <2>5, LocalStep
<1> QED
  BY <1>1, <1>2, <1>3, <1>4, <1>5, <1>6, <1>7, <1>8, <1>9

LEMMA TypeServe ==
    ASSUME TypeInv, NEW c \in Call, Serve(c)
    PROVE  TypeInv'
<1>0. /\ WellFormed(call[c]) /\ call[c] \in CallState /\ call[c].op \in Operation
      /\ call[c].pc = "wait" /\ call[c].reply = "none" /\ sent \in Nat /\ call[c].ref <= sent
  BY DEF TypeInv, CallsTyped, TelegramTyped, WellFormed, Serve, RequestStep
<1>1. CASE call[c].op = "put" /\ Handled(c)
  <2> DEFINE q == [call[c] EXCEPT !.reply = "ok", !.ref = sent + 1]
  <2>0. sent + 1 \in Nat /\ "ok" \in Outcome /\ call[c].attempt = 0
    BY <1>0, <1>1 DEF Outcome, WellFormed
  <2>1. /\ q \in CallState /\ q.ref = sent + 1 /\ q.pc = "wait" /\ q.op = "put" /\ q.reply = "ok"
        /\ q.attempt = 0 /\ q.producer = call[c].producer
    BY <1>0, <1>1, <2>0 DEF CallState
  <2> HIDE DEF q
  <2>7. WellFormed(q) /\ ~Uploading(q)
    BY <1>0, <1>1, <2>1 DEF WellFormed, Uploading, RequestStep, Holding
  <2>8. Uploading(call[c])
    BY <1>0, <1>1 DEF Uploading
  <2>2. /\ call' = [call EXCEPT ![c].reply = "ok", ![c].ref = sent + 1]
        /\ sent' = sent + 1 /\ channel' = channel \cup {sent + 1}
    BY <1>1 DEF Handled
  <2>3. call' = [call EXCEPT ![c] = q]
    BY <2>2 DEF TypeInv, CallsTyped, q
  <2>4. UNCHANGED <<strayPuts, strayDeletes, known, puts>>
    BY DEF Serve
  <2>5. TelegramTyped'
    BY <1>0, <2>2, <2>4 DEF TypeInv, TelegramTyped
  <2>6. /\ sent' \in Nat /\ sent <= sent' /\ strayPuts' \in Nat
        /\ sent' + strayPuts' <= sent + strayPuts + 1 /\ q.ref <= sent' /\ puts' = puts
    BY <1>0, <2>1, <2>2, <2>4 DEF TypeInv, Counted
  <2> QED
    BY <2>3, <2>5, <2>6, <2>7, <2>8, UploadStep
<1>2. CASE call[c].op # "put" /\ Handled(c)
  <2>1. CASE call[c].ref \notin channel
    <3> DEFINE q == [call[c] EXCEPT !.reply = "gone", !.others = TRUE, !.body = "spent"]
    <3>1. WellFormed(q) /\ q.ref = call[c].ref /\ ~Uploading(q)
      BY <1>0, <1>2 DEF WellFormed, CallState, Uploading, Outcome, RequestStep, Holding
    <3>2. /\ call' = [call EXCEPT ![c].reply = "gone", ![c].others = TRUE, ![c].body = "spent"]
          /\ UNCHANGED <<channel, sent>>
      BY <1>2, <2>1 DEF Handled
    <3>3. call' = [call EXCEPT ![c] = q]
      BY <3>2 DEF TypeInv, CallsTyped
    <3>4. UNCHANGED <<telegram, known, puts>>
      BY <3>2 DEF Serve, telegram
    <3> HIDE DEF q
    <3> QED
      BY <3>1, <3>3, <3>4, LocalStep
  <2>2. CASE call[c].ref \in channel
    <3> DEFINE q == [call[c] EXCEPT !.reply = "ok", !.body = "spent"]
    <3>1. WellFormed(q) /\ q.ref = call[c].ref /\ ~Uploading(q)
      BY <1>0, <1>2 DEF WellFormed, CallState, Uploading, Outcome, RequestStep, Holding
    <3>2. /\ call' = [call EXCEPT ![c].reply = "ok", ![c].body = "spent"]
          /\ channel' \subseteq channel /\ sent' = sent
      BY <1>2, <2>2 DEF Handled
    <3>3. call' = [call EXCEPT ![c] = q]
      BY <3>2 DEF TypeInv, CallsTyped
    <3>4. TelegramTyped' /\ UNCHANGED <<sent, strayPuts, puts>> /\ q.ref <= sent
      BY <1>0, <3>1, <3>2 DEF Serve, TypeInv, TelegramTyped
    <3> HIDE DEF q
    <3> QED
      BY <3>1, <3>3, <3>4, CallStep
  <2> QED
    BY <2>1, <2>2
<1>3. CASE call' = [call EXCEPT ![c].reply = "refused"] /\ UNCHANGED <<channel, sent>>
  <2> DEFINE q == [call[c] EXCEPT !.reply = "refused"]
  <2>1. WellFormed(q) /\ q.ref = call[c].ref /\ ~Uploading(q)
    BY <1>0 DEF WellFormed, CallState, Uploading, Outcome, RequestStep, Holding
  <2>2. call' = [call EXCEPT ![c] = q] /\ UNCHANGED <<telegram, known, puts>>
    BY <1>3 DEF Serve, telegram, TypeInv, CallsTyped
  <2> HIDE DEF q
  <2> QED
    BY <2>1, <2>2, LocalStep
<1>4. CASE \E o \in {"flood", "server"} :
              call' = [call EXCEPT ![c].reply = o, ![c].body = "spent"]
           /\ UNCHANGED <<channel, sent>>
  <2>1. PICK o \in {"flood", "server"} :
           call' = [call EXCEPT ![c].reply = o, ![c].body = "spent"]
    BY <1>4
  <2> DEFINE q == [call[c] EXCEPT !.reply = o, !.body = "spent"]
  <2>2. WellFormed(q) /\ q.ref = call[c].ref /\ ~Uploading(q)
    BY <1>0 DEF WellFormed, CallState, Uploading, Outcome, RequestStep, Holding
  <2>3. call' = [call EXCEPT ![c] = q] /\ UNCHANGED <<telegram, known, puts>>
    BY <1>4, <2>1 DEF Serve, telegram, TypeInv, CallsTyped
  <2> HIDE DEF q
  <2> QED
    BY <2>2, <2>3, LocalStep
<1> QED
  BY <1>1, <1>2, <1>3, <1>4 DEF Serve

LEMMA TypeLose ==
    ASSUME TypeInv, NEW c \in Call, Lose(c)
    PROVE  TypeInv'
<1>0. /\ WellFormed(call[c]) /\ call[c] \in CallState /\ call[c].op \in Operation
      /\ call[c].ref <= sent
  BY DEF TypeInv, CallsTyped, WellFormed, Lose, RequestStep
<1>1. PICK body \in {"whole", "spent"} :
         /\ call' = [call EXCEPT ![c] =
               AfterAttempt([call[c] EXCEPT !.body = body, !.others = TRUE], "lost")]
         /\ IF body = "spent" /\ call[c].pc = "wait" THEN Astray(call[c])
            ELSE UNCHANGED <<strayPuts, strayDeletes>>
  BY DEF Lose
<1> DEFINE r == [call[c] EXCEPT !.body = body, !.others = TRUE]
           q == AfterAttempt(r, "lost")
<1>2. /\ r \in CallState /\ r.op = call[c].op /\ r.attempt = call[c].attempt
      /\ r.producer = call[c].producer /\ r.ref = call[c].ref
  BY <1>0 DEF CallState
<1>3. call' = [call EXCEPT ![c] = q]
  BY <1>1
<1> HIDE DEF r
<1>4. WellFormed(q) /\ q.ref = call[c].ref /\ ~Uploading(q)
  BY <1>0, <1>2, AfterAttemptTyped DEF WellFormed, Outcome
<1> HIDE DEF q
<1>5. CASE UNCHANGED <<strayPuts, strayDeletes>>
  BY <1>3, <1>4, <1>5, LocalStep DEF Lose, telegram
<1>6. CASE /\ call[c].pc = "wait" /\ call[c].reply = "none"
           /\ strayPuts' = strayPuts + (IF call[c].op = "put" THEN 1 ELSE 0)
           /\ strayDeletes' = strayDeletes \cup (IF call[c].op = "delete" THEN {call[c].ref}
                                                 ELSE {})
  <2>1. UNCHANGED <<channel, sent, known, puts>>
    BY DEF Lose
  <2>2. CASE call[c].op = "put"
    <3>1. Uploading(call[c])
      BY <1>6, <2>2 DEF Uploading
    <3>2. TelegramTyped' /\ sent \in Nat /\ sent' = sent /\ puts' = puts
      BY <1>6, <2>1, <2>2 DEF TypeInv, TelegramTyped
    <3>3. strayPuts \in Nat /\ strayPuts' = strayPuts + 1
      BY <1>6, <2>2 DEF TypeInv, Counted
    <3>4. /\ sent' \in Nat /\ sent <= sent' /\ strayPuts' \in Nat
          /\ sent' + strayPuts' <= sent + strayPuts + 1 /\ q.ref <= sent'
      BY <1>0, <1>4, <3>2, <3>3
    <3> QED
      BY <1>3, <1>4, <3>1, <3>2, <3>4, UploadStep
  <2>3. CASE call[c].op = "delete"
    <3>1. UNCHANGED <<sent, strayPuts, puts>> /\ q.ref <= sent
      BY <1>0, <1>4, <1>6, <2>1, <2>3 DEF TypeInv, Counted
    <3>2. call[c].ref \in Nat /\ call[c].ref # 0 /\ sent \in Nat
      BY <1>0, <2>3 DEF CallState, WellFormed, TypeInv, TelegramTyped
    <3>3. call[c].ref \in 1..sent
      BY <1>0, <3>2
    <3>4. TelegramTyped'
      BY <1>6, <2>1, <3>3 DEF TypeInv, TelegramTyped
    <3> QED
      BY <1>3, <1>4, <3>1, <3>4, CallStep
  <2>4. CASE call[c].op \notin {"put", "delete"}
    <3>1. UNCHANGED <<strayPuts, strayDeletes>>
      BY <1>6, <2>4 DEF TypeInv, Counted
    <3> QED
      BY <1>5, <3>1
  <2> QED
    BY <2>2, <2>3, <2>4
<1> QED
  BY <1>1, <1>5, <1>6 DEF Astray

LEMMA TypeFinish ==
    ASSUME TypeInv, NEW c \in Call, Finish(c)
    PROVE  TypeInv'
<1>1. call[c].pc = "done" /\ call[c].ref \in Nat /\ call[c].ref <= sent /\ sent \in Nat
  BY DEF Finish, TypeInv, CallsTyped, TelegramTyped, CallState
<1>2. call' = [call EXCEPT ![c] = Idle] /\ UNCHANGED <<telegram, puts>>
  BY DEF Finish
<1>3. call[c].op = "put" /\ call[c].answer = "ok" => call[c].ref \in 1..sent
  <2>1. call[c].op = "put" /\ call[c].answer = "ok" => call[c].ref # 0
    BY <1>1 DEF TypeInv, CallsTyped, WellFormed, Holding
  <2> QED
    BY <1>1, <2>1
<1>4. known' \subseteq 1..sent
  BY <1>1, <1>3 DEF Finish, TypeInv, TelegramTyped
<1>5. TelegramTyped' /\ UNCHANGED <<sent, strayPuts, puts>> /\ Idle.ref <= sent
  BY <1>1, <1>2, <1>4, IdleTyped DEF telegram, TypeInv, TelegramTyped
<1> QED
  BY <1>2, <1>5, IdleTyped, CallStep

LEMMA TypeStray ==
    ASSUME TypeInv, StrayPut \/ StrayDelete
    PROVE  TypeInv'
<1>0. UNCHANGED <<call, puts, known>>
  BY DEF StrayPut, StrayDelete
<1>1. Uploads' = Uploads
  BY <1>0 DEF Uploads
<1>2. CASE StrayPut
  <2>1. strayPuts \in Nat /\ strayPuts > 0 /\ strayPuts' = strayPuts - 1 /\ sent \in Nat
    BY <1>2 DEF StrayPut, TypeInv, Counted, TelegramTyped
  <2>2. sent' = sent \/ sent' = sent + 1
    BY <1>2 DEF StrayPut
  <2>3. Cardinality(Uploads) \in Nat /\ IsFiniteSet(Uploads) /\ puts \in 0..MaxPuts
    BY FS_CardinalityType DEF TypeInv, Counted
  <2>4. sent + strayPuts + Cardinality(Uploads) <= puts
    BY DEF TypeInv, Counted
  <2> HIDE DEF Uploads
  <2>5. strayPuts' \in Nat /\ sent' \in Nat /\ sent <= sent'
    BY <2>1, <2>2
  <2>6. sent' + strayPuts' + Cardinality(Uploads) <= puts
    <3>1. CASE sent' = sent
      BY <2>1, <2>3, <2>4, <3>1, BotAssumption
    <3>2. CASE sent' = sent + 1
      BY <2>1, <2>3, <2>4, <3>2, BotAssumption
    <3> QED
      BY <2>2, <3>1, <3>2
  <2>7. Counted'
    <3>1. IsFiniteSet(Uploads') /\ puts' \in 0..MaxPuts
      BY <1>0, <1>1, <2>3
    <3>2. sent' + strayPuts' + Cardinality(Uploads') <= puts'
      BY <1>0, <1>1, <2>6
    <3> QED
      BY <2>5, <3>1, <3>2 DEF Counted
  <2>8. TelegramTyped'
    <3>1. CASE sent' = sent /\ channel' = channel
      BY <1>0, <1>2, <3>1 DEF StrayPut, TypeInv, TelegramTyped
    <3>2. CASE sent' = sent + 1 /\ channel' = channel \cup {sent + 1}
      BY <1>0, <1>2, <2>1, <3>2 DEF StrayPut, TypeInv, TelegramTyped
    <3> QED
      BY <1>2, <3>1, <3>2 DEF StrayPut
  <2>9. CallsTyped'
    <3>1. \A d \in Call : call[d].ref \in Nat /\ call[d].ref <= sent
      BY DEF TypeInv, CallsTyped, CallState
    <3>2. \A d \in Call : call[d].ref <= sent'
      BY <2>1, <2>5, <3>1
    <3> QED
      BY <1>0, <3>2 DEF TypeInv, CallsTyped
  <2> QED
    BY <2>7, <2>8, <2>9 DEF TypeInv
<1>3. CASE StrayDelete
  <2>1. UNCHANGED <<sent, strayPuts>> /\ channel' \subseteq channel
        /\ strayDeletes' \subseteq strayDeletes
    BY <1>3 DEF StrayDelete
  <2> QED
    BY <1>0, <1>1, <2>1 DEF TypeInv, Counted, TelegramTyped, CallsTyped
<1> QED
  BY <1>2, <1>3

LEMMA TypeNext == TypeInv /\ [Next]_vars => TypeInv'
<1> SUFFICES ASSUME TypeInv, [Next]_vars PROVE TypeInv'
  OBVIOUS
<1>1. CASE UNCHANGED vars
  BY <1>1 DEF vars, telegram, TypeInv, CallsTyped, TelegramTyped, Counted, Uploads
<1>2. CASE StrayPut \/ StrayDelete
  BY <1>2, TypeStray
<1>3. ASSUME NEW c \in Call, BeginPut(c) \/ BeginWithRef(c) \/ Cancel(c) \/ Step(c)
      PROVE  TypeInv'
  BY <1>3, TypeBegin, TypeCall, TypeServe, TypeLose, TypeFinish DEF Step
<1> QED
  BY <1>1, <1>2, <1>3 DEF Next

LEMMA TypeAlways == Spec => []TypeInv
  BY TypeInit, TypeNext, PTL DEF Spec

\* Every variable keeps its type, whatever requests and replies are lost; no call is
\* sent more often than maxRetry allows, an upload once, and Put does not return while
\* its producer goroutine still writes.
THEOREM TypeCorrect == Spec => []TypeOK
  BY TypeAlways, TypeInvImplies, PTL

\* A call of Put leaves at most one message in the channel, also one that fails or whose
\* caller has gone: an upload gets one attempt, and what is still on its way is counted.
THEOREM OneMessage == Spec => []OneMessagePerPut
  BY TypeAlways, TypeInvImplies, PTL

-----------------------------------------------------------------------------
(* Answers *)

\* What a call has learnt is true of the channel ch and of the messages kn that an
\* earlier Put has answered with: the message of a Put is there, and nobody else can
\* name it yet; the message of another call was there if it has been found, and will
\* not come back once it is gone.
Told(r, ch, kn) ==
    /\ Holding(r) => r.ref \in ch /\ r.ref \notin kn
    /\ r.op \in {"get", "exists", "delete"} =>
          /\ r.ref \in kn
          /\ r.ref \in ch => r.there
          /\ r.pc = "wait" /\ r.reply = "ok" =>
                r.there /\ (r.op = "delete" => r.ref \notin ch)
          /\ r.pc = "wait" /\ r.reply = "gone" => r.ref \notin ch
          /\ r.pc = "done" /\ r.op = "delete" /\ r.answer = "ok" => r.ref \notin ch
          /\ r.pc = "done" /\ r.op # "delete" /\ r.answer = "ok" => r.there
          /\ r.pc = "done" /\ r.answer \in {"no", "missing"} => r.ref \notin ch

\* Two Puts never hold the same message, and only known messages are deleted.
Apart(f) ==
    \A c, d \in Call : Holding(f[c]) /\ Holding(f[d]) /\ f[c].ref = f[d].ref => c = d

Truth ==
    /\ \A c \in Call : Told(call[c], channel, known)
    /\ Apart(call)
    /\ strayDeletes \subseteq known

LEMMA TruthImplies == TypeInv /\ Truth => AnswersTrue
<1> SUFFICES ASSUME TypeInv, Truth, NEW c \in Call, call[c].pc = "done"
             PROVE  CASE call[c].op = "put"    -> call[c].answer = "ok" => call[c].ref \in channel
                      [] call[c].op = "delete" ->
                            call[c].answer = "ok" => call[c].ref \notin channel
                      [] OTHER -> /\ call[c].answer = "ok" => call[c].there
                                  /\ call[c].answer \in {"no", "missing"} =>
                                         call[c].ref \notin channel
  BY DEF AnswersTrue
<1>1. Told(call[c], channel, known) /\ call[c].op \in Operation
  BY DEF Truth, TypeInv, CallsTyped, WellFormed
<1>2. CASE call[c].op = "put"
  BY <1>1, <1>2 DEF Told, Holding
<1>3. CASE call[c].op = "delete"
  BY <1>1, <1>3 DEF Told
<1>4. CASE call[c].op \in {"get", "exists"}
  BY <1>1, <1>4 DEF Told
<1> QED
  BY <1>1, <1>2, <1>3, <1>4 DEF Operation

\* A message that is not there stays away, and what is held is neither deleted nor known.
LEMMA ToldStays ==
    ASSUME NEW r, NEW ch, NEW kn, NEW ch2, NEW kn2, Told(r, ch, kn), kn \subseteq kn2,
           r.op \in {"get", "exists", "delete"} /\ r.ref \in ch2 => r.ref \in ch,
           Holding(r) => r.ref \in ch2 /\ r.ref \notin kn2
    PROVE  Told(r, ch2, kn2)
  BY DEF Told, Holding

\* A call that holds a message after its step held that message before.
LEMMA ApartStep ==
    ASSUME TypeInv, Apart(call), NEW c \in Call, NEW q, call' = [call EXCEPT ![c] = q],
           Holding(q) => Holding(call[c]) /\ q.ref = call[c].ref
    PROVE  Apart(call')
<1>1. \A d \in Call : call'[d] = IF d = c THEN q ELSE call[d]
  BY DEF TypeInv, CallsTyped
<1> QED
  BY <1>1 DEF Apart

\* A step between a call and its locals.
LEMMA LocalTruth ==
    ASSUME TypeInv, Truth, NEW c \in Call, NEW q, call' = [call EXCEPT ![c] = q],
           Told(q, channel, known), Holding(q) => Holding(call[c]) /\ q.ref = call[c].ref,
           UNCHANGED <<channel, known>>, strayDeletes' \subseteq known
    PROVE  Truth'
<1>1. \A d \in Call : call'[d] = IF d = c THEN q ELSE call[d]
  BY DEF TypeInv, CallsTyped
<1>2. Apart(call')
  BY ApartStep DEF Truth
<1> QED
  BY <1>1, <1>2 DEF Truth

\* callWithRetry has returned the outcome of the last attempt.
LEMMA ReturnedTold ==
    ASSUME NEW r \in CallState, r.op \in Operation, NEW o \in Outcome, NEW ch, NEW kn,
           r.op = "put" /\ o = "ok" => r.ref \in ch /\ r.ref \notin kn,
           r.op # "put" => /\ r.ref \in kn /\ (r.ref \in ch => r.there)
                           /\ o = "ok" => r.there /\ (r.op = "delete" => r.ref \notin ch)
                           /\ o = "gone" => r.ref \notin ch,
           NEW q, q = Returned(r, o)
    PROVE  /\ Told(q, ch, kn)
           /\ Holding(q) => r.op = "put" /\ o = "ok" /\ q.ref = r.ref
<1>1. CASE r.op = "put"
  <2>1. q = [r EXCEPT !.pc = "join", !.reply = o]
    BY <1>1 DEF Returned
  <2>2. q.op = "put" /\ q.pc = "join" /\ q.reply = o /\ q.ref = r.ref
    BY <1>1, <2>1 DEF CallState
  <2> QED
    BY <1>1, <2>2 DEF Told, Holding
<1>2. CASE r.op = "get" /\ o = "ok"
  <2>1. q = [r EXCEPT !.pc = "download"]
    BY <1>2 DEF Returned
  <2>2. q.op = "get" /\ q.pc = "download" /\ q.ref = r.ref /\ q.there = r.there
    BY <1>2, <2>1 DEF CallState
  <2> QED
    BY <1>2, <2>2 DEF Told, Holding
<1>3. ASSUME NEW a, q = Answered(r, a), r.op # "put", a # "missing",
             a = "no" => o = "gone", a = "ok" /\ r.op # "delete" => o = "ok",
             a = "ok" /\ r.op = "delete" => o \in {"ok", "gone"}
      PROVE  Told(q, ch, kn) /\ ~Holding(q)
  <2>1. q.op = r.op /\ q.pc = "done" /\ q.ref = r.ref /\ q.there = r.there /\ q.answer = a
    BY <1>3 DEF Answered, CallState
  <2> QED
    BY <1>3, <2>1 DEF Told, Holding
<1>4. CASE r.op = "get" /\ o # "ok"
  <2>1. q = Answered(r, Classify(o)) /\ r.op # "put"
    BY <1>4 DEF Returned
  <2>2. Classify(o) \notin {"missing", "no", "ok"}
    BY DEF Classify
  <2> QED
    BY <1>3, <1>4, <2>1, <2>2
<1>5. CASE r.op = "exists"
  <2>1. q = Answered(r, ExistsAnswer(o)) /\ r.op # "put"
    BY <1>5 DEF Returned
  <2>2. /\ ExistsAnswer(o) # "missing" /\ (ExistsAnswer(o) = "no" => o = "gone")
        /\ ExistsAnswer(o) = "ok" => o = "ok"
    BY DEF ExistsAnswer
  <2> QED
    BY <1>3, <1>5, <2>1, <2>2
<1>6. CASE r.op = "delete"
  <2>1. q = Answered(r, DeleteAnswer(o)) /\ r.op # "put"
    BY <1>6 DEF Returned
  <2>2. /\ DeleteAnswer(o) \notin {"missing", "no"}
        /\ DeleteAnswer(o) = "ok" => o \in {"ok", "gone"}
    BY DEF DeleteAnswer
  <2> QED
    BY <1>3, <1>6, <2>1, <2>2
<1> QED
  BY <1>1, <1>2, <1>4, <1>5, <1>6 DEF Operation

\* callOnce has returned.
LEMMA AfterAttemptTold ==
    ASSUME NEW r \in CallState, r.op \in Operation, NEW o \in Outcome, NEW ch, NEW kn,
           r.op = "put" /\ o = "ok" => r.ref \in ch /\ r.ref \notin kn,
           r.op # "put" => /\ r.ref \in kn /\ (r.ref \in ch => r.there)
                           /\ o = "ok" => r.there /\ (r.op = "delete" => r.ref \notin ch)
                           /\ o = "gone" => r.ref \notin ch,
           NEW q, q = AfterAttempt(r, o)
    PROVE  /\ Told(q, ch, kn)
           /\ Holding(q) => r.op = "put" /\ o = "ok" /\ q.ref = r.ref
<1>1. CASE IsRetryable(o) /\ r.op # "put" /\ r.attempt < MaxRetry
  <2>1. q = [r EXCEPT !.pc = "backoff", !.reply = "none"]
    BY <1>1 DEF AfterAttempt
  <2>2. q.op = r.op /\ q.pc = "backoff" /\ q.ref = r.ref /\ q.there = r.there
    BY <2>1 DEF CallState
  <2> QED
    BY <1>1, <2>2 DEF Told, Holding
<1>2. CASE ~(IsRetryable(o) /\ r.op # "put" /\ r.attempt < MaxRetry)
  <2> DEFINE p == [r EXCEPT !.reply = "none"]
  <2>1. p \in CallState /\ p.op = r.op /\ p.ref = r.ref /\ p.there = r.there
    BY DEF CallState
  <2>2. q = Returned(p, o)
    BY <1>2 DEF AfterAttempt
  <2> HIDE DEF p
  <2> QED
    BY <2>1, <2>2, ReturnedTold
<1> QED
  BY <1>1, <1>2

LEMMA TruthInit == Init => Truth
<1> SUFFICES ASSUME Init PROVE Truth
  OBVIOUS
<1>1. \A c \in Call : call[c].op = "none" /\ call[c].pc = "idle"
  BY DEF Init, Idle
<1> QED
  BY <1>1 DEF Init, Truth, Apart, Told, Holding

LEMMA IdleTold == ASSUME NEW ch, NEW kn PROVE Told(Idle, ch, kn) /\ ~Holding(Idle)
  BY DEF Idle, Told, Holding

LEMMA TruthBegin ==
    ASSUME TypeInv, Truth, NEW c \in Call, BeginPut(c) \/ BeginWithRef(c) \/ Cancel(c)
    PROVE  Truth'
<1>0. UNCHANGED <<channel, known, strayDeletes>> /\ strayDeletes \subseteq known
  BY DEF BeginPut, BeginWithRef, Cancel, telegram, Truth
<1>1. CASE BeginPut(c)
  <2>1. PICK q : /\ call' = [call EXCEPT ![c] = q]
                 /\ \/ q = [Idle EXCEPT !.op = "put", !.pc = "attempt", !.producer = "writing"]
                    \/ q = Answered([Idle EXCEPT !.op = "put"], "tooLarge")
    BY <1>1 DEF BeginPut
  <2>2. q.op = "put" /\ ~Holding(q)
    BY <2>1 DEF Idle, Answered, Holding
  <2>3. Told(q, channel, known)
    BY <2>2 DEF Told
  <2> QED
    BY <1>0, <2>1, <2>2, <2>3, LocalTruth
<1>2. CASE BeginWithRef(c)
  <2>1. PICK op \in Operation \ {"put"}, m \in known :
           call' = [call EXCEPT ![c] = [Idle EXCEPT !.op = op, !.ref = m, !.pc = "attempt",
                                                    !.there = (m \in channel)]]
    BY <1>2 DEF BeginWithRef
  <2> DEFINE q == [Idle EXCEPT !.op = op, !.ref = m, !.pc = "attempt", !.there = (m \in channel)]
  <2>2. q.op = op /\ q.pc = "attempt" /\ q.ref = m /\ (m \in channel => q.there)
    BY DEF Idle
  <2>3. call' = [call EXCEPT ![c] = q]
    BY <2>1
  <2> HIDE DEF q
  <2>4. Told(q, channel, known) /\ ~Holding(q)
    BY <2>2 DEF Told, Holding, Operation
  <2> QED
    BY <1>0, <2>3, <2>4, LocalTruth
<1>3. CASE Cancel(c)
  <2> DEFINE q == [call[c] EXCEPT !.live = FALSE]
  <2>1. call[c] \in CallState /\ Told(call[c], channel, known)
    BY DEF TypeInv, CallsTyped, Truth
  <2>2. /\ q.op = call[c].op /\ q.pc = call[c].pc /\ q.ref = call[c].ref
        /\ q.reply = call[c].reply /\ q.there = call[c].there /\ q.answer = call[c].answer
    BY <2>1 DEF CallState
  <2>3. call' = [call EXCEPT ![c] = q]
    BY <1>3 DEF Cancel, TypeInv, CallsTyped
  <2> HIDE DEF q
  <2>4. Told(q, channel, known) /\ (Holding(q) => Holding(call[c]))
    BY <2>1, <2>2 DEF Told, Holding
  <2> QED
    BY <1>0, <2>2, <2>3, <2>4, LocalTruth
<1> QED
  BY <1>1, <1>2, <1>3

LEMMA TruthCall ==
    ASSUME TypeInv, Truth, NEW c \in Call,
           \/ Send(c) \/ Receive(c) \/ Backoff(c) \/ Stream(c) \/ SourceFails(c)
           \/ BreakOff(c) \/ ProducerStops(c) \/ Join(c) \/ Download(c)
    PROVE  Truth'
<1>0. /\ UNCHANGED <<channel, known, strayDeletes>> /\ strayDeletes \subseteq known
      /\ call[c] \in CallState /\ WellFormed(call[c]) /\ Told(call[c], channel, known)
      /\ call[c].op \in Operation
  BY DEF Send, Receive, Backoff, Stream, SourceFails, BreakOff, ProducerStops, Join,
         Download, telegram, Truth, TypeInv, CallsTyped, WellFormed, RequestStep
<1>1. ASSUME NEW q, call' = [call EXCEPT ![c] = q], q.op = call[c].op, q.ref = call[c].ref,
             q.there = call[c].there,
             q.pc \in {"attempt", "streaming"} \/ (q.pc = "wait" /\ q.reply = "none")
      PROVE  Truth'
  <2>1. Told(q, channel, known) /\ ~Holding(q)
    BY <1>0, <1>1 DEF Told, Holding
  <2> QED
    BY <1>0, <1>1, <2>1, LocalTruth
<1>2. CASE Send(c)
  <2> DEFINE q == [call[c] EXCEPT !.pc = IF call[c].op = "put" THEN "streaming" ELSE "wait"]
  <2>1. /\ q.op = call[c].op /\ q.ref = call[c].ref /\ q.there = call[c].there
        /\ q.pc = "streaming" \/ (q.pc = "wait" /\ q.reply = "none")
    BY <1>0, <1>2 DEF Send, WellFormed, CallState
  <2>2. call' = [call EXCEPT ![c] = q]
    BY <1>2 DEF Send, TypeInv, CallsTyped
  <2> HIDE DEF q
  <2> QED
    BY <1>1, <2>1, <2>2
<1>3. CASE Receive(c)
  <2> DEFINE q == AfterAttempt(call[c], call[c].reply)
  <2>1. call' = [call EXCEPT ![c] = q] /\ call[c].pc = "wait" /\ call[c].reply \in Outcome
    BY <1>0, <1>3 DEF Receive, CallState
  <2> HIDE DEF q
  <2>2. /\ call[c].op = "put" /\ call[c].reply = "ok" =>
              Holding(call[c]) /\ call[c].ref \in channel /\ call[c].ref \notin known
        /\ call[c].op # "put" =>
              /\ call[c].ref \in known /\ (call[c].ref \in channel => call[c].there)
              /\ call[c].reply = "ok" =>
                    call[c].there /\ (call[c].op = "delete" => call[c].ref \notin channel)
              /\ call[c].reply = "gone" => call[c].ref \notin channel
    BY <1>0, <2>1 DEF Told, Holding, Operation
  <2>3. /\ Told(q, channel, known)
        /\ Holding(q) => Holding(call[c]) /\ q.ref = call[c].ref
    BY <1>0, <2>1, <2>2, AfterAttemptTold DEF q
  <2> QED
    BY <1>0, <2>1, <2>3, LocalTruth
<1>4. CASE Backoff(c)
  <2>1. CASE call' = [call EXCEPT ![c].pc = "attempt", ![c].attempt = @ + 1]
    <3> DEFINE q == [call[c] EXCEPT !.pc = "attempt", !.attempt = call[c].attempt + 1]
    <3>1. q.op = call[c].op /\ q.ref = call[c].ref /\ q.there = call[c].there /\ q.pc = "attempt"
      BY <1>0 DEF CallState
    <3>2. call' = [call EXCEPT ![c] = q]
      BY <2>1 DEF TypeInv, CallsTyped
    <3> HIDE DEF q
    <3>3. q.pc \in {"attempt", "streaming"} \/ (q.pc = "wait" /\ q.reply = "none")
      BY <3>1
    <3> QED
      BY <1>1, <3>1, <3>2, <3>3
  <2>2. CASE call' = [call EXCEPT ![c] = Returned(call[c], "lost")]
    <3>1. call[c].op # "put" /\ "lost" \in Outcome
      BY <1>0, <1>4 DEF Backoff, WellFormed, Outcome
    <3>2. call[c].ref \in known /\ (call[c].ref \in channel => call[c].there)
      BY <1>0, <3>1 DEF Told, Operation
    <3> DEFINE q == Returned(call[c], "lost")
    <3>4. q = Returned(call[c], "lost")
      OBVIOUS
    <3> HIDE DEF q
    <3>3. Told(q, channel, known) /\ ~Holding(q)
      BY <1>0, <3>1, <3>2, <3>4, ReturnedTold
    <3> QED
      BY <1>0, <2>2, <3>3, <3>4, LocalTruth
  <2> QED
    BY <1>4, <2>1, <2>2 DEF Backoff
<1>5. CASE Stream(c)
  <2> DEFINE q == [call[c] EXCEPT !.pc = "wait", !.producer = "done"]
  <2>1. /\ q.op = call[c].op /\ q.ref = call[c].ref /\ q.there = call[c].there
        /\ q.pc = "wait" /\ q.reply = "none"
    BY <1>0, <1>5 DEF Stream, WellFormed, CallState
  <2>2. call' = [call EXCEPT ![c] = q]
    BY <1>5 DEF Stream, TypeInv, CallsTyped
  <2> HIDE DEF q
  <2> QED
    BY <1>1, <2>1, <2>2
<1>6. ASSUME NEW r \in CallState, NEW o \in Outcome, r.op = "put", o # "ok",
             call' = [call EXCEPT ![c] = AfterAttempt(r, o)]
      PROVE  Truth'
  <2>1. Told(AfterAttempt(r, o), channel, known) /\ ~Holding(AfterAttempt(r, o))
    BY <1>6, AfterAttemptTold DEF Operation
  <2> QED
    BY <1>0, <1>6, <2>1, LocalTruth
<1>7. CASE SourceFails(c)
  <2> DEFINE r == [call[c] EXCEPT !.producer = "failed", !.others = TRUE]
  <2>1. r \in CallState /\ r.op = "put" /\ "lost" \in Outcome
    BY <1>0, <1>7 DEF SourceFails, WellFormed, CallState, Outcome
  <2>2. call' = [call EXCEPT ![c] = AfterAttempt(r, "lost")]
    BY <1>7 DEF SourceFails
  <2> HIDE DEF r
  <2> QED
    BY <1>6, <2>1, <2>2
<1>8. CASE BreakOff(c)
  <2>1. PICK o \in {"flood", "server", "refused", "lost"} :
           call' = [call EXCEPT ![c] =
              AfterAttempt([call[c] EXCEPT !.others = @ \/ o \in {"refused", "lost"}], o)]
    BY <1>8 DEF BreakOff
  <2> DEFINE r == [call[c] EXCEPT !.others = @ \/ o \in {"refused", "lost"}]
  <2>2. r \in CallState /\ r.op = call[c].op
    BY <1>0 DEF CallState
  <2>3. call[c].op = "put" /\ o \in Outcome /\ o # "ok"
    BY <1>0, <1>8 DEF BreakOff, WellFormed, Outcome
  <2>4. call' = [call EXCEPT ![c] = AfterAttempt(r, o)]
    BY <2>1
  <2> HIDE DEF r
  <2> QED
    BY <1>6, <2>2, <2>3, <2>4
<1>9. CASE ProducerStops(c)
  <2> DEFINE q == [call[c] EXCEPT !.producer = "failed"]
  <2>1. /\ q.op = call[c].op /\ q.pc = call[c].pc /\ q.ref = call[c].ref
        /\ q.reply = call[c].reply /\ q.there = call[c].there /\ q.answer = call[c].answer
    BY <1>0 DEF CallState
  <2>2. call' = [call EXCEPT ![c] = q]
    BY <1>9 DEF ProducerStops, TypeInv, CallsTyped
  <2> HIDE DEF q
  <2>3. Told(q, channel, known) /\ (Holding(q) => Holding(call[c]))
    BY <1>0, <2>1 DEF Told, Holding
  <2> QED
    BY <1>0, <2>1, <2>2, <2>3, LocalTruth
<1>10. CASE Join(c)
  <2> DEFINE a == IF call[c].reply # "ok" THEN Classify(call[c].reply)
                  ELSE IF call[c].producer = "failed" THEN "error" ELSE "ok"
             q == Answered(call[c], a)
  <2>1. call' = [call EXCEPT ![c] = q] /\ call[c].pc = "join" /\ call[c].op = "put"
    BY <1>0, <1>10 DEF Join, WellFormed
  <2>2. a = "ok" => Holding(call[c])
    <3>1. a = "ok" => call[c].reply = "ok"
      BY DEF Classify
    <3> HIDE DEF a
    <3> QED
      BY <2>1, <3>1 DEF Holding
  <2> HIDE DEF a
  <2>3. q.op = "put" /\ q.pc = "done" /\ q.ref = call[c].ref /\ q.answer = a
    BY <1>0, <2>1 DEF Answered, CallState
  <2> HIDE DEF q
  <2>4. Told(q, channel, known) /\ (Holding(q) => Holding(call[c]))
    BY <1>0, <2>2, <2>3 DEF Told, Holding
  <2> QED
    BY <1>0, <2>1, <2>3, <2>4, LocalTruth
<1>11. CASE Download(c)
  <2>1. PICK a \in {"ok", "missing", "throttled", "unavailable", "error"} :
           /\ a = "ok" => call[c].live /\ call[c].ref \in channel
           /\ a = "missing" => call[c].ref \notin channel
           /\ call' = [call EXCEPT ![c] =
                 Answered([call[c] EXCEPT !.others = @ \/ a = "error"], a)]
    BY <1>11 DEF Download
  <2> DEFINE q == Answered([call[c] EXCEPT !.others = @ \/ a = "error"], a)
  <2>2. /\ q.op = call[c].op /\ q.pc = "done" /\ q.ref = call[c].ref /\ q.answer = a
        /\ q.there = call[c].there
    BY <1>0 DEF Answered, CallState
  <2>3. call' = [call EXCEPT ![c] = q] /\ call[c].op = "get"
    BY <1>0, <1>11, <2>1 DEF Download, WellFormed
  <2> HIDE DEF q
  <2>4. Told(q, channel, known) /\ ~Holding(q)
    BY <1>0, <2>1, <2>2, <2>3 DEF Told, Holding
  <2> QED
    BY <1>0, <2>3, <2>4, LocalTruth
<1> QED
  BY <1>2, <1>3, <1>4, <1>5, <1>7, <1>8, <1>9, <1>10, <1>11

\* Telegram handles a request of a caller: other calls keep what they have learnt.
LEMMA ServedTruth ==
    ASSUME TypeInv, Truth, NEW c \in Call, NEW q, call' = [call EXCEPT ![c] = q],
           known' = known, strayDeletes' = strayDeletes, Told(q, channel', known),
           \A d \in Call : d # c /\ Holding(call[d]) => call[d].ref \in channel',
           \A d \in Call : d # c /\ Holding(call[d]) /\ Holding(q) => call[d].ref # q.ref,
           \A m \in known : m \in channel' => m \in channel
    PROVE  Truth'
<1>1. \A d \in Call : call'[d] = IF d = c THEN q ELSE call[d]
  BY DEF TypeInv, CallsTyped
<1>2. ASSUME NEW d \in Call, d # c PROVE Told(call[d], channel', known)
  <2>1. Told(call[d], channel, known)
    BY DEF Truth
  <2>2. call[d].op \in {"get", "exists", "delete"} => call[d].ref \in known
    BY <2>1 DEF Told
  <2>3. Holding(call[d]) => call[d].ref \in channel' /\ call[d].ref \notin known
    BY <1>2, <2>1 DEF Told
  <2> QED
    BY <2>1, <2>2, <2>3, ToldStays
<1>3. Apart(call')
  BY <1>1 DEF Truth, Apart
<1>4. \A d \in Call : Told(call'[d], channel', known)
  BY <1>1, <1>2
<1> QED
  BY <1>3, <1>4 DEF Truth

LEMMA TruthServe ==
    ASSUME TypeInv, Truth, NEW c \in Call, Serve(c)
    PROVE  Truth'
<1>0. /\ call[c] \in CallState /\ WellFormed(call[c]) /\ Told(call[c], channel, known)
      /\ call[c].op \in Operation /\ call[c].pc = "wait" /\ call[c].reply = "none"
      /\ known' = known /\ strayDeletes' = strayDeletes
  BY DEF Serve, Truth, TypeInv, CallsTyped, WellFormed, RequestStep
<1>1. sent \in Nat /\ channel \subseteq 1..sent /\ known \subseteq 1..sent
  BY DEF TypeInv, TelegramTyped
<1>2. \A d \in Call : Holding(call[d]) => call[d].ref \in channel /\ call[d].ref \notin known
  BY DEF Truth, Told
<1>3. CASE call[c].op = "put" /\ Handled(c)
  <2> DEFINE q == [call[c] EXCEPT !.reply = "ok", !.ref = sent + 1]
  <2>1. q.op = "put" /\ q.ref = sent + 1
    BY <1>0, <1>3 DEF CallState
  <2>2. /\ call' = [call EXCEPT ![c].reply = "ok", ![c].ref = sent + 1]
        /\ channel' = channel \cup {sent + 1}
    BY <1>3 DEF Handled
  <2>3. call' = [call EXCEPT ![c] = q]
    BY <2>2 DEF TypeInv, CallsTyped
  <2> HIDE DEF q
  <2>4. sent + 1 \notin known /\ sent + 1 \notin channel
    BY <1>1
  <2>5. Told(q, channel', known)
    BY <2>1, <2>2, <2>4 DEF Told
  <2>6. \A d \in Call : Holding(call[d]) => call[d].ref \in channel' /\ call[d].ref # q.ref
    BY <1>2, <2>1, <2>2, <2>4
  <2>7. \A m \in known : m \in channel' => m \in channel
    BY <2>2, <2>4
  <2> QED
    BY <1>0, <2>3, <2>5, <2>6, <2>7, ServedTruth
<1>4. CASE call[c].op # "put" /\ Handled(c)
  <2>1. call[c].ref \in known /\ (call[c].ref \in channel => call[c].there)
    BY <1>0, <1>4 DEF Told, Operation
  <2>2. CASE call[c].ref \notin channel
    <3> DEFINE q == [call[c] EXCEPT !.reply = "gone", !.others = TRUE, !.body = "spent"]
    <3>1. /\ q.op = call[c].op /\ q.pc = "wait" /\ q.ref = call[c].ref
          /\ q.reply = "gone" /\ q.there = call[c].there
      BY <1>0 DEF CallState
    <3>2. /\ call' = [call EXCEPT ![c].reply = "gone", ![c].others = TRUE, ![c].body = "spent"]
          /\ channel' = channel
      BY <1>4, <2>2 DEF Handled
    <3>3. call' = [call EXCEPT ![c] = q]
      BY <3>2 DEF TypeInv, CallsTyped
    <3> HIDE DEF q
    <3>4. Told(q, channel, known) /\ ~Holding(q)
      BY <1>4, <2>1, <2>2, <3>1 DEF Told, Holding
    <3> QED
      BY <1>0, <1>2, <3>2, <3>3, <3>4, ServedTruth
  <2>3. CASE call[c].ref \in channel
    <3> DEFINE q == [call[c] EXCEPT !.reply = "ok", !.body = "spent"]
    <3>1. /\ q.op = call[c].op /\ q.pc = "wait" /\ q.ref = call[c].ref
          /\ q.reply = "ok" /\ q.there = call[c].there
      BY <1>0 DEF CallState
    <3>2. /\ call' = [call EXCEPT ![c].reply = "ok", ![c].body = "spent"]
          /\ channel' = IF call[c].op = "delete" THEN channel \ {call[c].ref} ELSE channel
      BY <1>4, <2>3 DEF Handled
    <3>3. call' = [call EXCEPT ![c] = q]
      BY <3>2 DEF TypeInv, CallsTyped
    <3> HIDE DEF q
    <3>4. Told(q, channel', known) /\ ~Holding(q)
      BY <1>4, <2>1, <2>3, <3>1, <3>2 DEF Told, Holding
    <3>5. \A d \in Call : Holding(call[d]) => call[d].ref \in channel'
      BY <1>2, <2>1, <3>2
    <3> QED
      BY <1>0, <3>2, <3>3, <3>4, <3>5, ServedTruth
  <2> QED
    BY <2>2, <2>3
<1>5. ASSUME NEW o \in {"refused", "flood", "server"}, NEW q, q.op = call[c].op, q.pc = "wait",
             q.reply = o, q.ref = call[c].ref, q.there = call[c].there,
             call' = [call EXCEPT ![c] = q], channel' = channel
      PROVE  Truth'
  <2>1. Told(q, channel, known) /\ ~Holding(q)
    BY <1>0, <1>5 DEF Told, Holding
  <2> QED
    BY <1>0, <1>2, <1>5, <2>1, ServedTruth
<1>6. CASE call' = [call EXCEPT ![c].reply = "refused"] /\ UNCHANGED <<channel, sent>>
  <2> DEFINE q == [call[c] EXCEPT !.reply = "refused"]
  <2>1. /\ q.op = call[c].op /\ q.pc = "wait" /\ q.reply = "refused"
        /\ q.ref = call[c].ref /\ q.there = call[c].there
    BY <1>0 DEF CallState
  <2>2. call' = [call EXCEPT ![c] = q]
    BY <1>6 DEF TypeInv, CallsTyped
  <2> HIDE DEF q
  <2> QED
    BY <1>5, <1>6, <2>1, <2>2
<1>7. CASE \E o \in {"flood", "server"} :
              call' = [call EXCEPT ![c].reply = o, ![c].body = "spent"]
           /\ UNCHANGED <<channel, sent>>
  <2>1. PICK o \in {"flood", "server"} :
           call' = [call EXCEPT ![c].reply = o, ![c].body = "spent"]
    BY <1>7
  <2> DEFINE q == [call[c] EXCEPT !.reply = o, !.body = "spent"]
  <2>2. /\ q.op = call[c].op /\ q.pc = "wait" /\ q.reply = o
        /\ q.ref = call[c].ref /\ q.there = call[c].there
    BY <1>0 DEF CallState
  <2>3. call' = [call EXCEPT ![c] = q]
    BY <2>1 DEF TypeInv, CallsTyped
  <2> HIDE DEF q
  <2> QED
    BY <1>5, <1>7, <2>2, <2>3
<1> QED
  BY <1>3, <1>4, <1>6, <1>7 DEF Serve

LEMMA TruthLose ==
    ASSUME TypeInv, Truth, NEW c \in Call, Lose(c)
    PROVE  Truth'
<1>0. /\ WellFormed(call[c]) /\ call[c] \in CallState /\ call[c].op \in Operation
      /\ Told(call[c], channel, known) /\ strayDeletes \subseteq known
      /\ UNCHANGED <<channel, known>>
  BY DEF TypeInv, CallsTyped, WellFormed, Lose, RequestStep, Truth
<1>1. PICK body \in {"whole", "spent"} :
         /\ call' = [call EXCEPT ![c] =
               AfterAttempt([call[c] EXCEPT !.body = body, !.others = TRUE], "lost")]
         /\ IF body = "spent" /\ call[c].pc = "wait" THEN Astray(call[c])
            ELSE UNCHANGED <<strayPuts, strayDeletes>>
  BY DEF Lose
<1> DEFINE r == [call[c] EXCEPT !.body = body, !.others = TRUE]
           q == AfterAttempt(r, "lost")
<1>2. r \in CallState /\ r.op = call[c].op /\ r.ref = call[c].ref /\ r.there = call[c].there
  BY <1>0 DEF CallState
<1>3. call' = [call EXCEPT ![c] = q] /\ "lost" \in Outcome
  BY <1>1 DEF Outcome
<1> HIDE DEF r
<1>4. call[c].op # "put" =>
          call[c].ref \in known /\ (call[c].ref \in channel => call[c].there)
  BY <1>0 DEF Told, Operation
<1>5. Told(q, channel, known) /\ ~Holding(q)
  <2>1. q = AfterAttempt(r, "lost")
    OBVIOUS
  <2> HIDE DEF q
  <2> QED
    BY <1>0, <1>2, <1>3, <1>4, <2>1, AfterAttemptTold
<1> HIDE DEF q
<1>6. strayDeletes' \subseteq known
  BY <1>0, <1>1, <1>4 DEF Astray
<1> QED
  BY <1>0, <1>3, <1>5, <1>6, LocalTruth

LEMMA TruthFinish ==
    ASSUME TypeInv, Truth, NEW c \in Call, Finish(c)
    PROVE  Truth'
<1>1. /\ \A d \in Call : call'[d] = IF d = c THEN Idle ELSE call[d]
      /\ UNCHANGED <<channel, strayDeletes>>
  BY DEF Finish, TypeInv, CallsTyped, telegram
<1>2. known' = known \/ (Holding(call[c]) /\ known' = known \cup {call[c].ref})
  BY DEF Finish, Holding
<1>3. ASSUME NEW d \in Call, d # c PROVE Told(call[d], channel, known')
  <2>1. Told(call[d], channel, known)
    BY DEF Truth
  <2>2. Holding(call[d]) => call[d].ref \in channel /\ call[d].ref \notin known'
    BY <1>2, <1>3, <2>1 DEF Told, Truth, Apart
  <2>3. known \subseteq known'
    BY <1>2
  <2> QED
    BY <2>1, <2>2, <2>3, ToldStays
<1>4. \A d \in Call : Told(call'[d], channel, known')
  BY <1>1, <1>3, IdleTold
<1>5. Apart(call')
  BY <1>1, IdleTold DEF Truth, Apart
<1> QED
  BY <1>1, <1>2, <1>4, <1>5 DEF Truth

LEMMA TruthStray ==
    ASSUME TypeInv, Truth, StrayPut \/ StrayDelete
    PROVE  Truth'
<1>0. UNCHANGED <<call, known>> /\ strayDeletes' \subseteq known
  BY DEF StrayPut, StrayDelete, Truth
<1>1. \A m \in known : m \in channel' => m \in channel
  BY DEF StrayPut, StrayDelete, TypeInv, TelegramTyped
<1>2. \A m \in channel : m \notin known => m \in channel'
  BY DEF StrayPut, StrayDelete, Truth
<1>3. ASSUME NEW d \in Call PROVE Told(call[d], channel', known)
  <2>1. Told(call[d], channel, known)
    BY DEF Truth
  <2>2. call[d].op \in {"get", "exists", "delete"} => call[d].ref \in known
    BY <2>1 DEF Told
  <2>3. Holding(call[d]) => call[d].ref \in channel' /\ call[d].ref \notin known
    BY <1>2, <2>1 DEF Told
  <2> QED
    BY <1>1, <2>1, <2>2, <2>3, ToldStays
<1> QED
  BY <1>0, <1>3 DEF Truth

LEMMA TruthNext == TypeInv /\ Truth /\ [Next]_vars => Truth'
<1> SUFFICES ASSUME TypeInv, Truth, [Next]_vars PROVE Truth'
  OBVIOUS
<1>1. CASE UNCHANGED vars
  BY <1>1 DEF vars, telegram, Truth, Apart
<1>2. CASE StrayPut \/ StrayDelete
  BY <1>2, TruthStray
<1>3. ASSUME NEW c \in Call, BeginPut(c) \/ BeginWithRef(c) \/ Cancel(c) \/ Step(c)
      PROVE  Truth'
  BY <1>3, TruthBegin, TruthCall, TruthServe, TruthLose, TruthFinish DEF Step
<1> QED
  BY <1>1, <1>2, <1>3 DEF Next

\* What Put, Get, Exists and Delete answer is the truth about the message, although a
\* request that was lost, given up or retried may still arrive: a Put that succeeds has
\* its message in the channel and nobody else has deleted it, after a Delete it is gone,
\* and what Get or Exists has not found is not there.
THEOREM Truthful == Spec => []AnswersTrue
<1>1. Init => TypeInv /\ Truth
  BY TypeInit, TruthInit
<1>2. TypeInv /\ Truth /\ [Next]_vars => (TypeInv /\ Truth)'
  BY TypeNext, TruthNext
<1> QED
  BY <1>1, <1>2, TruthImplies, PTL DEF Spec
=============================================================================

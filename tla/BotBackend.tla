----------------------------- MODULE BotBackend -----------------------------
(***************************************************************************)
(* The Bot API backend, internal/storage/bot/bot.go: calls that run side   *)
(* by side, each an HTTP request or several (callWithRetry), and Telegram  *)
(* behind a network that may lose a request or its reply.                  *)
(*                                                                         *)
(* A step is the sending of a request, its handling by Telegram, the       *)
(* return of callOnce or of the timer, or the end of Put's producer        *)
(* goroutine. A file id resolves as long as its message is in the channel. *)
(***************************************************************************)
EXTENDS Naturals, FiniteSets

CONSTANTS
    Call,      \* goroutines that call the backend
    MaxRetry,  \* Backend.maxRetry
    MaxPuts    \* bound: calls of Put

ASSUME BotAssumption == MaxRetry \in Nat /\ MaxPuts \in Nat

VARIABLES
    call,          \* per goroutine: the call it is in
    channel,       \* messages in the channel
    sent,          \* messages ever sent to it, which are numbered from 1
    known,         \* history: messages that a Put has answered with
    puts,          \* calls of Put that went past the size check
    strayPuts,     \* uploads nobody waits for any more, still on their way
    strayDeletes   \* messages with a deletion on its way that nobody waits for

telegram == <<channel, sent, strayPuts, strayDeletes>>
vars == <<call, telegram, known, puts>>

Operation == {"put", "get", "exists", "delete"}

\* How callOnce returns: nil; an APIError of 429, of 5xx, of a 400 that says
\* "not found" (or, of getFile, "invalid" or "wrong"), or any other; or an error
\* that is none, from the connection or from a reply that does not decode.
Outcome == {"ok", "flood", "server", "gone", "refused", "lost"}

\* "no" is Exists' false, "missing" ErrNotFound, "error" an error without sentinel.
Answer == {"ok", "no", "missing", "throttled", "unavailable", "tooLarge", "error"}

\* The locals of a call: the form in body is whole until a request has consumed the
\* reader; reply is what Telegram has answered, or callWithRetry returned. History:
\* there, the message was in the channel when the call began; others, a whole
\* request has met with something else than success, 429 and 5xx.
Idle ==
    [op |-> "none", ref |-> 0, pc |-> "idle", attempt |-> 0, body |-> "whole",
     reply |-> "none", producer |-> "none", live |-> TRUE, there |-> FALSE,
     others |-> FALSE, answer |-> "none"]
-----------------------------------------------------------------------------
(* The ends of the four operations *)

\* classify
Classify(o) ==
    CASE o = "flood"  -> "throttled"
      [] o = "server" -> "unavailable"
      [] OTHER        -> "error"

\* Mutant: any 400 is an absence.
ExistsAnswerAny400(o) ==
    CASE o = "ok" -> "ok" [] o \in {"gone", "refused"} -> "no" [] OTHER -> "error"

\* Two branches are left out: a reference without a file id, which Put never returns
\* (bot.go:242), and an ok of getFile without a file path (bot.go:250), which Telegram
\* does not give for a file that it resolves. Both answer false.
ExistsAnswer(o) == CASE o = "ok" -> "ok" [] o = "gone" -> "no" [] OTHER -> "error"

DeleteAnswer(o) == IF o \in {"ok", "gone"} THEN "ok" ELSE "error"

Answered(r, a) == [r EXCEPT !.pc = "done", !.answer = a]

\* callWithRetry has returned with outcome o: Get goes on to the download, and
\* Put to <-errCh, where the outcome is kept in reply.
Returned(r, o) ==
    CASE r.op = "put"               -> [r EXCEPT !.pc = "join", !.reply = o]
      [] r.op = "get" /\ o = "ok"   -> [r EXCEPT !.pc = "download"]
      [] r.op = "get" /\ o # "ok"   -> Answered(r, Classify(o))
      [] r.op = "exists"            -> Answered(r, ExistsAnswer(o))
      [] r.op = "delete"            -> Answered(r, DeleteAnswer(o))

IsRetryable(o) == o \in {"flood", "server", "lost"}

\* Mutant: an upload is tried again as well, by a new producer.
AfterAttemptAny(r, o) ==
    IF IsRetryable(o) /\ r.attempt < MaxRetry
    THEN [r EXCEPT !.pc = "backoff", !.reply = "none", !.body = "whole",
                   !.producer = IF r.op = "put" THEN "writing" ELSE "none"]
    ELSE Returned([r EXCEPT !.reply = "none"], o)

\* callOnce has returned: another attempt, or the end of callWithRetry. The body
\* of a Put is a pipe and gets one attempt.
AfterAttempt(r, o) ==
    IF IsRetryable(o) /\ r.op # "put" /\ r.attempt < MaxRetry
    THEN [r EXCEPT !.pc = "backoff", !.reply = "none"]
    ELSE Returned([r EXCEPT !.reply = "none"], o)
-----------------------------------------------------------------------------
(* The caller *)

\* A call starts; a Put starts its producer, unless the object is too large.
BeginPut(c) ==
    /\ call[c] = Idle
    /\ \/ /\ puts < MaxPuts
          /\ puts' = puts + 1
          /\ call' = [call EXCEPT ![c] =
                [Idle EXCEPT !.op = "put", !.pc = "attempt", !.producer = "writing"]]
       \/ /\ call' = [call EXCEPT ![c] = Answered([Idle EXCEPT !.op = "put"], "tooLarge")]
          /\ UNCHANGED puts
    /\ UNCHANGED <<telegram, known>>

\* The other calls are given a reference that a Put has returned.
BeginWithRef(c) ==
    /\ call[c] = Idle
    /\ \E op \in Operation \ {"put"}, m \in known :
          call' = [call EXCEPT ![c] = [Idle EXCEPT !.op = op, !.ref = m, !.pc = "attempt",
                                                   !.there = (m \in channel)]]
    /\ UNCHANGED <<telegram, known, puts>>

\* The caller's context is cancelled.
Cancel(c) ==
    /\ call[c].pc \notin {"idle", "done"}
    /\ call[c].live
    /\ call' = [call EXCEPT ![c].live = FALSE]
    /\ UNCHANGED <<telegram, known, puts>>

Finish(c) ==
    /\ call[c].pc = "done"
    /\ known' = known \cup {m \in {call[c].ref} : call[c].op = "put" /\ call[c].answer = "ok"}
    /\ call' = [call EXCEPT ![c] = Idle]
    /\ UNCHANGED <<telegram, puts>>
-----------------------------------------------------------------------------
(* callOnce *)

\* http.Client.Do sends the request; that of a Put as its producer writes it.
Send(c) ==
    /\ call[c].pc = "attempt"
    /\ call[c].live
    /\ call' = [call EXCEPT ![c].pc = IF call[c].op = "put" THEN "streaming" ELSE "wait"]
    /\ UNCHANGED <<telegram, known, puts>>

\* What Telegram makes of a whole request.
Handled(c) ==
    LET r == call[c] IN
    CASE r.op = "put" ->
            /\ sent' = sent + 1
            /\ channel' = channel \cup {sent + 1}
            /\ call' = [call EXCEPT ![c].reply = "ok", ![c].ref = sent + 1]
      [] r.op # "put" /\ r.ref \notin channel ->
            /\ call' = [call EXCEPT ![c].reply = "gone", ![c].others = TRUE, ![c].body = "spent"]
            /\ UNCHANGED <<channel, sent>>
      [] r.op # "put" /\ r.ref \in channel ->
            /\ call' = [call EXCEPT ![c].reply = "ok", ![c].body = "spent"]
            /\ channel' = IF r.op = "delete" THEN channel \ {r.ref} ELSE channel
            /\ UNCHANGED sent

\* Telegram handles a request, or turns it down for the moment. One with an empty
\* form it refuses. The request has consumed the reader that is the body.
Serve(c) ==
    /\ call[c].pc = "wait"
    /\ call[c].reply = "none"
    /\ \/ call[c].body = "whole" /\ Handled(c)
       \/ /\ call[c].body = "spent"
          /\ call' = [call EXCEPT ![c].reply = "refused"]
          /\ UNCHANGED <<channel, sent>>
       \/ /\ \E o \in {"flood", "server"} :
                call' = [call EXCEPT ![c].reply = o, ![c].body = "spent"]
          /\ UNCHANGED <<channel, sent>>
    /\ UNCHANGED <<strayPuts, strayDeletes, known, puts>>

Receive(c) ==
    /\ call[c].pc = "wait"
    /\ call[c].reply # "none"
    /\ call' = [call EXCEPT ![c] = AfterAttempt(call[c], call[c].reply)]
    /\ UNCHANGED <<telegram, known, puts>>

\* A request on its way is given up: it never left, is lost, or still arrives.
Astray(r) ==
    \/ UNCHANGED <<strayPuts, strayDeletes>>
    \/ /\ r.reply = "none" /\ r.body = "whole"
       /\ strayPuts' = strayPuts + (IF r.op = "put" THEN 1 ELSE 0)
       /\ strayDeletes' = strayDeletes \cup (IF r.op = "delete" THEN {r.ref} ELSE {})

\* The connection breaks, or the context ends, before a reply has come. The
\* reader has been consumed unless the request never left.
Lose(c) ==
    LET r == call[c] IN
    /\ r.pc = "wait" \/ (r.pc = "attempt" /\ ~r.live)
    /\ \E body \in {"whole", "spent"} :
          /\ body = "whole" => r.body = "whole"
          /\ r.pc = "attempt" => body = r.body
          /\ call' = [call EXCEPT ![c] =
                AfterAttempt([r EXCEPT !.body = body, !.others = TRUE], "lost")]
          /\ IF body = "spent" /\ r.pc = "wait" THEN Astray(r)
             ELSE UNCHANGED <<strayPuts, strayDeletes>>
    /\ UNCHANGED <<channel, sent, known, puts>>

\* Mutant: the attempt is not counted.
BackoffUncounted(c) ==
    /\ call[c].pc = "backoff"
    /\ \/ call' = [call EXCEPT ![c].pc = "attempt"]
       \/ ~call[c].live /\ call' = [call EXCEPT ![c] = Returned(call[c], "lost")]
    /\ UNCHANGED <<telegram, known, puts>>

\* The wait of callWithRetry: the timer, or the end of the context.
Backoff(c) ==
    /\ call[c].pc = "backoff"
    /\ \/ call' = [call EXCEPT ![c].pc = "attempt", ![c].attempt = @ + 1]
       \/ ~call[c].live /\ call' = [call EXCEPT ![c] = Returned(call[c], "lost")]
    /\ UNCHANGED <<telegram, known, puts>>
-----------------------------------------------------------------------------
(* Put: the producer goroutine and its pipe *)

\* All of the body is written and read.
Stream(c) ==
    /\ call[c].pc = "streaming"
    /\ call' = [call EXCEPT ![c].pc = "wait", ![c].producer = "done"]
    /\ UNCHANGED <<telegram, known, puts>>

\* The source fails or is short: CloseWithError, and the request breaks off.
SourceFails(c) ==
    /\ call[c].pc = "streaming"
    /\ call' = [call EXCEPT ![c] =
          AfterAttempt([call[c] EXCEPT !.producer = "failed", !.others = TRUE], "lost")]
    /\ UNCHANGED <<telegram, known, puts>>

\* Telegram answers before it has all of the body, or the connection breaks: the
\* transport closes the pipe.
BreakOff(c) ==
    /\ call[c].pc = "streaming"
    /\ \E o \in {"flood", "server", "refused", "lost"} :
          call' = [call EXCEPT ![c] =
             AfterAttempt([call[c] EXCEPT !.others = @ \/ o \in {"refused", "lost"}], o)]
    /\ UNCHANGED <<telegram, known, puts>>

\* The producer, once its source gives it more or fails, finds the pipe closed.
ProducerStops(c) ==
    /\ call[c].producer = "writing"
    /\ call[c].pc = "join"
    /\ call' = [call EXCEPT ![c].producer = "failed"]
    /\ UNCHANGED <<telegram, known, puts>>

\* Mutant: Put returns without waiting for its producer.
JoinAtOnce(c) ==
    /\ call[c].pc = "join"
    /\ call' = [call EXCEPT ![c] =
          Answered(call[c], IF call[c].reply # "ok" THEN Classify(call[c].reply) ELSE "ok")]
    /\ UNCHANGED <<telegram, known, puts>>

\* <-errCh
Join(c) ==
    /\ call[c].pc = "join"
    /\ call[c].producer # "writing"
    /\ call' = [call EXCEPT ![c] =
          Answered(call[c],
                   IF call[c].reply # "ok" THEN Classify(call[c].reply)
                   ELSE IF call[c].producer = "failed" THEN "error" ELSE "ok")]
    /\ UNCHANGED <<telegram, known, puts>>
-----------------------------------------------------------------------------
\* Get: the file that getFile has resolved is downloaded, in one attempt.
Download(c) ==
    /\ call[c].pc = "download"
    /\ \E a \in {"ok", "missing", "throttled", "unavailable", "error"} :
          /\ a = "ok" => call[c].live /\ call[c].ref \in channel
          /\ a = "missing" => call[c].ref \notin channel
          /\ call' = [call EXCEPT ![c] = Answered([call[c] EXCEPT !.others = @ \/ a = "error"], a)]
    /\ UNCHANGED <<telegram, known, puts>>

\* A request that nobody waits for arrives, or is lost after all.
StrayPut ==
    /\ strayPuts > 0
    /\ strayPuts' = strayPuts - 1
    /\ \/ sent' = sent + 1 /\ channel' = channel \cup {sent + 1}
       \/ UNCHANGED <<sent, channel>>
    /\ UNCHANGED <<call, strayDeletes, known, puts>>

StrayDelete ==
    /\ \E m \in strayDeletes :
          /\ strayDeletes' = strayDeletes \ {m}
          /\ channel' \in {channel, channel \ {m}}
    /\ UNCHANGED <<call, sent, strayPuts, known, puts>>
-----------------------------------------------------------------------------
Init ==
    /\ call = [c \in Call |-> Idle]
    /\ channel = {} /\ sent = 0 /\ known = {} /\ puts = 0
    /\ strayPuts = 0 /\ strayDeletes = {}

Step(c) ==
    \/ Send(c) \/ Serve(c) \/ Receive(c) \/ Lose(c) \/ Backoff(c)
    \/ Stream(c) \/ SourceFails(c) \/ BreakOff(c) \/ ProducerStops(c) \/ Join(c)
    \/ Download(c) \/ Finish(c)

Next ==
    \/ \E c \in Call : BeginPut(c) \/ BeginWithRef(c) \/ Cancel(c) \/ Step(c)
    \/ StrayPut \/ StrayDelete

\* A request is answered or its connection breaks, a timer expires, and the source
\* of an upload goes on or fails: the client has a body to send or disconnects.
Spec == Init /\ [][Next]_vars /\ \A c \in Call : WF_vars(Step(c))
-----------------------------------------------------------------------------
(* Properties *)

RequestStep == {"attempt", "wait", "streaming", "backoff", "join", "download"}

\* Every variable keeps its type; no call makes more attempts than maxRetry allows, a
\* Put only one, and Put does not return while its producer still writes.
TypeOK ==
    /\ call \in [Call ->
          [op : Operation \cup {"none"}, ref : 0..sent, pc : RequestStep \cup {"idle", "done"},
           attempt : 0..MaxRetry, body : {"whole", "spent"}, reply : Outcome \cup {"none"},
           producer : {"none", "writing", "done", "failed"}, live : BOOLEAN, there : BOOLEAN,
           others : BOOLEAN, answer : Answer \cup {"none"}]]
    /\ \A c \in Call :
          /\ call[c].op = "put" => call[c].attempt = 0
          /\ call[c].pc = "done" => call[c].producer # "writing"
    /\ puts \in 0..MaxPuts /\ sent \in Nat
    /\ channel \subseteq 1..sent /\ known \subseteq 1..sent
    /\ strayPuts \in 0..MaxPuts /\ strayDeletes \subseteq 1..sent

\* storage.go:43-59: an answer is the truth about the message, whatever was lost or
\* retried on the way. A Put that succeeds has its message in the channel; after a
\* Delete it is gone; what Get returns was there, and what Exists denies or Get
\* does not find is not.
AnswersTrue ==
    \A c \in Call :
        LET r == call[c] IN
        r.pc = "done" =>
            CASE r.op = "put"    -> r.answer = "ok" => r.ref \in channel
              [] r.op = "delete" -> r.answer = "ok" => r.ref \notin channel
              [] OTHER           -> /\ r.answer = "ok" => r.there
                                    /\ r.answer \in {"no", "missing"} => r.ref \notin channel

\* "as a single Telegram message" (storage.go:43): a Put, also one that fails,
\* leaves at most one message, however its attempts end.
OneMessagePerPut == sent + strayPuts <= puts

\* "When the retries run out the request answers 503 SlowDown" (setup.md:418): a Put
\* or Get that has met with nothing but 429 and 5xx is not answered with another error.
FloodsAnswerSlowDown ==
    \A c \in Call :
        LET r == call[c] IN
        r.pc = "done" /\ r.op \in {"put", "get"} /\ r.live /\ r.answer = "error" => r.others

\* "so the client sees the failure rather than a stall" (setup.md:419): every call
\* returns, and with it Put's producer.
CallsEnd == \A c \in Call : call[c].pc # "idle" ~> call[c].pc = "idle"
=============================================================================

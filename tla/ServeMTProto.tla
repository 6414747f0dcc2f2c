---------------------------- MODULE ServeMTProto ----------------------------
(***************************************************************************)
(* The life of `telang serve` in MTProto mode: cmd/telang/main.go over     *)
(* internal/storage/mtproto/mtproto.go.                                    *)
(*                                                                         *)
(* Four kinds of goroutines meet here:                                     *)
(*   - serve() itself: it opens the backend, starts the listener, waits    *)
(*     for a signal, shuts the server down and closes the backend;         *)
(*   - the client, in which telegram.Client.Run calls back once it has a   *)
(*     connection and then keeps it until its context is done;             *)
(*   - the listener, in which ListenAndServe blocks;                       *)
(*   - handlers, each with one call of the backend, and for a Get with the *)
(*     goroutine that streams the document into a pipe.                    *)
(* The context of the client derives from the one a signal cancels, those  *)
(* of the handlers from their connections. What handlers do besides their  *)
(* call of the backend is the matter of ObjectService.                     *)
(***************************************************************************)
EXTENDS Naturals

CONSTANTS
    Handler,      \* handlers that may run at the same time
    Blocks,       \* blocks of a document: it is streamed one by one
    Faults,       \* what may go wrong, a subset of Fault
    MaxMessages   \* bound: messages ever sent to the channel

\* connect: Run gives up before it calls back; auth: the session is not
\* authorised, or its state cannot be asked for; session: the connection is lost
\* for good; telegram: a call fails; startup: keys.toml or the cache cannot be
\* opened; listen: the port is taken, or accepting fails; cancel: a client of the
\* HTTP server disconnects.
Fault == {"connect", "auth", "session", "telegram", "startup", "listen", "cancel"}

ASSUME ServeFaultsAssumption == Faults \subseteq Fault
ASSUME ServeBoundAssumption == Blocks \in Nat /\ MaxMessages \in Nat

Message == 1..MaxMessages
NoMessage == 0
None == "none"

VARIABLES
    serve,        \* where serve() is
    signalled,    \* SIGINT or SIGTERM has come: the context of NotifyContext is done
    client,       \* where the goroutine of the client is
    cancelled,    \* b.cancel has been called
    ready,        \* what the channel ready holds: nothing, "nil" or "error"
    readyClosed,  \* it is closed
    runDone,      \* the channel runDone holds Run's result
    api,          \* b.api and what is made of it are set
    listener,     \* where the goroutine of the listener is
    errCh,        \* what the channel errCh holds
    handler,      \* the request each handler is serving
    stream,       \* the goroutine that streams to a handler's pipe
    posted,       \* messages now in the Telegram channel
    nextMessage,  \* next message id of the channel
    expired       \* history: the 30 seconds of the shutdown have passed

clientVars == <<client, ready, readyClosed, runDone, api>>
httpVars == <<handler, stream, posted, nextMessage>>
serveVars == <<serve, signalled, cancelled, listener, errCh, expired, clientVars, httpVars>>

\* msg is the message the request asks for, or the one it has sent; got counts the
\* blocks that were read. "panic": the handler has used the client of a backend that
\* never had one; "cut": the body ended with an error.
HandlerState ==
    [pc : {"idle", "upload", "send", "resolve", "read", "delete", "answered"},
     op : {None, "put", "get", "exists", "delete"}, msg : Message \cup {NoMessage},
     got : 0..Blocks, live : BOOLEAN,
     answer : {None, "ok", "no", "missing", "error", "cut", "panic"}]

IdleHandler ==
    [pc |-> "idle", op |-> None, msg |-> NoMessage, got |-> 0, live |-> TRUE, answer |-> None]

InFlight(h) == handler[h].pc \notin {"idle", "answered"}

\* The context of the client, a child of the one that the signal cancels.
ClientStopped == signalled \/ cancelled

-----------------------------------------------------------------------------
(* The client: the goroutine that Open starts *)

\* Run has a connection and calls back, or gives up.
Connect ==
    /\ client = "connecting" /\ ~ClientStopped
    /\ client' = "status"
    /\ UNCHANGED <<ready, readyClosed, runDone, api>>

ConnectFails ==
    /\ client = "connecting"
    /\ ClientStopped \/ "connect" \in Faults
    /\ client' = "returning"
    /\ UNCHANGED <<ready, readyClosed, runDone, api>>

\* The session is not authorised, or Auth().Status fails.
StatusFails ==
    /\ client = "status"
    /\ ClientStopped \/ "auth" \in Faults
    /\ ready' = "error"
    /\ client' = "returning"
    /\ UNCHANGED <<readyClosed, runDone, api>>

\* The session is authorised: b.api, b.up, b.dl, b.channel and b.peer are set.
SetUp ==
    /\ client = "status"
    /\ api' = TRUE
    /\ client' = "announce"
    /\ UNCHANGED <<ready, readyClosed, runDone>>

Announce ==
    /\ client = "announce"
    /\ ready' = "nil"
    /\ client' = "connected"
    /\ UNCHANGED <<readyClosed, runDone, api>>

\* The callback returns when its context is done, which Run also cancels when it
\* loses the connection for good.
Disconnect ==
    /\ client = "connected"
    /\ ClientStopped \/ "session" \in Faults
    /\ client' = "returning"
    /\ UNCHANGED <<ready, readyClosed, runDone, api>>

RunReturns ==
    /\ client = "returning"
    /\ runDone' = TRUE
    /\ client' = "closing"
    /\ UNCHANGED <<ready, readyClosed, api>>

CloseReady ==
    /\ client = "closing"
    /\ readyClosed' = TRUE
    /\ client' = "gone"
    /\ UNCHANGED <<ready, runDone, api>>

ClientStep ==
    /\ serve # "exited"
    /\ \/ Connect \/ ConnectFails \/ StatusFails \/ SetUp \/ Announce
       \/ Disconnect \/ RunReturns \/ CloseReady
    /\ UNCHANGED <<serve, signalled, cancelled, listener, errCh, expired, httpVars>>

-----------------------------------------------------------------------------
(* serve() *)

\* Open takes what ready gives: the nil of the callback, its error, or the nil of a
\* channel that is closed and empty.
OpenReturns ==
    /\ serve = "opening"
    /\ ready # None \/ readyClosed
    /\ ready' = None
    /\ IF ready = "error"
       THEN serve' = "abandoning" /\ cancelled' = TRUE
       ELSE serve' = "starting" /\ UNCHANGED cancelled
    /\ UNCHANGED <<signalled, client, readyClosed, runDone, api, listener, errCh, expired,
                   httpVars>>

\* The other branch of its select.
OpenInterrupted ==
    /\ serve = "opening" /\ signalled
    /\ serve' = "abandoning"
    /\ cancelled' = TRUE
    /\ UNCHANGED <<signalled, listener, errCh, expired, clientVars, httpVars>>

\* serve returns; what is left of the process ends with it.
Return ==
    /\ serve' = "exited"
    /\ handler' = [h \in Handler |-> IdleHandler]
    /\ stream' = [h \in Handler |-> None]
    /\ listener' = "off"
    /\ UNCHANGED <<signalled, client, cancelled, ready, readyClosed, api, errCh, expired,
                   posted, nextMessage>>

\* <-b.runDone, of an Open that fails and of Close.
JoinClient ==
    /\ serve \in {"abandoning", "closing"}
    /\ runDone
    /\ runDone' = FALSE
    /\ Return

\* keys.Load, cache.Open and the start of the listener.
Start ==
    /\ serve = "starting"
    /\ \/ serve' = "serving" /\ listener' = "starting" /\ UNCHANGED cancelled
       \/ /\ "startup" \in Faults
          /\ serve' = "closing" /\ cancelled' = TRUE /\ UNCHANGED listener
    /\ UNCHANGED <<signalled, errCh, expired, clientVars, httpVars>>

\* Mutant: srv.Close, which waits for no handler.
ShutDownAtOnce ==
    /\ serve = "serving" /\ signalled
    /\ serve' = "awaitListener"
    /\ UNCHANGED <<signalled, cancelled, listener, errCh, expired, clientVars, httpVars>>

\* The select of serve: a signal starts the shutdown, ...
ShutDown ==
    /\ serve = "serving" /\ signalled
    /\ serve' = "draining"
    /\ UNCHANGED <<signalled, cancelled, listener, errCh, expired, clientVars, httpVars>>

\* ... and a listener that has ended ends serve, at once.
ListenerEnded ==
    /\ serve \in {"serving", "awaitListener"}
    /\ errCh # None
    /\ serve' = "closing"
    /\ cancelled' = TRUE
    /\ UNCHANGED <<signalled, listener, errCh, expired, clientVars, httpVars>>

\* srv.Shutdown returns when no connection is active, ...
Drained ==
    /\ serve = "draining"
    /\ \A h \in Handler : ~InFlight(h)
    /\ serve' = "awaitListener"
    /\ UNCHANGED <<signalled, cancelled, listener, errCh, expired, clientVars, httpVars>>

\* Mutant: the shutdown waits for its handlers for as long as they take.
ExpireNever ==
    /\ serve = "draining"
    /\ \A h \in Handler : ~InFlight(h)
    /\ expired' = TRUE
    /\ serve' = "closing"
    /\ cancelled' = TRUE
    /\ UNCHANGED <<signalled, listener, errCh, clientVars, httpVars>>

\* ... or with an error when 30 seconds have passed.
Expire ==
    /\ serve = "draining"
    /\ expired' = TRUE
    /\ serve' = "closing"
    /\ cancelled' = TRUE
    /\ UNCHANGED <<signalled, listener, errCh, clientVars, httpVars>>

ServeStep ==
    \/ OpenReturns \/ OpenInterrupted \/ JoinClient \/ Start
    \/ ShutDown \/ ListenerEnded \/ Drained \/ Expire

\* ListenAndServe listens, until it fails, ...
Listen ==
    /\ serve # "exited"
    /\ \/ /\ listener = "starting" /\ serve = "serving"
          /\ listener' = "on" /\ UNCHANGED errCh
       \/ /\ listener \in {"starting", "on"} /\ "listen" \in Faults
          /\ listener' = "off" /\ errCh' = "error"
    /\ UNCHANGED <<serve, signalled, cancelled, expired, clientVars, httpVars>>

\* ... or the server is shut down, which it notices before it listens as well.
StopListening ==
    /\ listener \in {"starting", "on"}
    /\ serve \in {"draining", "awaitListener", "closing"}
    /\ listener' = "off" /\ errCh' = "nil"
    /\ UNCHANGED <<serve, signalled, cancelled, expired, clientVars, httpVars>>

Signal ==
    /\ serve # "exited" /\ ~signalled
    /\ signalled' = TRUE
    /\ UNCHANGED <<serve, cancelled, listener, errCh, expired, clientVars, httpVars>>

-----------------------------------------------------------------------------
(* Handlers and their calls of the backend *)

Become(h, state) == handler' = [handler EXCEPT ![h] = state]
Goto(h, pc) == Become(h, [handler[h] EXCEPT !.pc = pc])
Reply(h, answer) == Become(h, [handler[h] EXCEPT !.pc = "answered", !.answer = answer])

\* A remote call: it may succeed for as long as the client is connected, and fails
\* with its context or the client's. Without b.api it panics, which net/http recovers.
CallWorks(h) == api /\ client = "connected" /\ handler[h].live
CallFails(h) == /\ api
                /\ \/ ~handler[h].live \/ ClientStopped \/ client # "connected"
                   \/ "telegram" \in Faults
CallLost == ClientStopped \/ {"telegram", "cancel"} \cap Faults # {}
NoCall(h) == \/ CallFails(h) /\ Reply(h, "error")
             \/ ~api /\ Reply(h, "panic")

FirstStep(op) == CASE op = "put"                -> "upload"
                   [] op \in {"get", "exists"} -> "resolve"
                   [] op = "delete"             -> "delete"

\* The server hands a request to a handler. A reference is that of a message some
\* Put has sent.
Accept(h) ==
    /\ handler[h] = IdleHandler
    /\ listener = "on" /\ serve = "serving"
    /\ \E op \in {"put", "get", "exists", "delete"}, m \in 0..(nextMessage - 1) :
          /\ op = "put" <=> m = NoMessage
          /\ Become(h, [IdleHandler EXCEPT !.pc = FirstStep(op), !.op = op, !.msg = m])
    /\ UNCHANGED <<stream, posted, nextMessage>>

Disconnected(h) ==
    /\ "cancel" \in Faults
    /\ InFlight(h) /\ handler[h].live
    /\ Become(h, [handler[h] EXCEPT !.live = FALSE])
    /\ UNCHANGED <<stream, posted, nextMessage>>

\* Put: the size check, the upload of the parts of the file, ...
Upload(h) ==
    /\ handler[h].pc = "upload"
    /\ \/ CallWorks(h) /\ Goto(h, "send")
       \/ Reply(h, "error")
       \/ NoCall(h)
    /\ UNCHANGED <<stream, posted, nextMessage>>

\* ... and MessagesSendMedia, whose reply may be lost or hold no document.
SendMedia(h) ==
    /\ handler[h].pc = "send"
    /\ \/ /\ CallWorks(h) /\ nextMessage \in Message
          /\ posted' = posted \cup {nextMessage}
          /\ nextMessage' = nextMessage + 1
          /\ \/ Become(h, [handler[h] EXCEPT !.pc = "answered", !.answer = "ok",
                                             !.msg = nextMessage])
             \/ CallLost /\ Reply(h, "error")
       \/ CallFails(h) /\ Reply(h, "error") /\ UNCHANGED <<posted, nextMessage>>
    /\ UNCHANGED stream

\* Mutant: Exists streams the document as well, to nobody.
ResolveStreaming(h) ==
    /\ handler[h].pc = "resolve"
    /\ \/ /\ CallWorks(h) /\ handler[h].msg \in posted
          /\ IF handler[h].op = "get" THEN Goto(h, "read") ELSE Reply(h, "ok")
          /\ stream' = [stream EXCEPT ![h] = "running"]
       \/ NoCall(h) /\ UNCHANGED stream
    /\ UNCHANGED <<posted, nextMessage>>

\* resolveDocument; Get goes on to stream the document.
Resolve(h) ==
    LET there == handler[h].msg \in posted
        get == handler[h].op = "get"
    IN
    /\ handler[h].pc = "resolve"
    /\ \/ /\ CallWorks(h) /\ there /\ get
          /\ Goto(h, "read")
          /\ stream' = [stream EXCEPT ![h] = "running"]
       \/ /\ CallWorks(h) /\ ~(there /\ get)
          /\ Reply(h, IF get THEN "missing" ELSE IF there THEN "ok" ELSE "no")
          /\ UNCHANGED stream
       \/ NoCall(h) /\ UNCHANGED stream
    /\ UNCHANGED <<posted, nextMessage>>

\* A block goes through the pipe, which holds none: Write waits for Read.
StreamBlock(h) ==
    /\ handler[h].pc = "read" /\ stream[h] = "running"
    /\ handler[h].got < Blocks /\ CallWorks(h)
    /\ Become(h, [handler[h] EXCEPT !.got = @ + 1])
    /\ UNCHANGED <<stream, posted, nextMessage>>

\* Mutant: pw.Close, whatever Stream has returned.
StreamReturnsQuietly(h) ==
    /\ handler[h].pc = "read" /\ stream[h] = "running"
    /\ handler[h].got = Blocks \/ CallFails(h) \/ handler[h].msg \notin posted
    /\ stream' = [stream EXCEPT ![h] = "eof"]
    /\ UNCHANGED <<handler, posted, nextMessage>>

\* Stream returns, and pw.CloseWithError passes what it returned to the reader. A
\* document whose message has been deleted may be refused half way.
StreamReturns(h) ==
    /\ handler[h].pc = "read" /\ stream[h] = "running"
    /\ \/ /\ handler[h].got = Blocks
          /\ stream' = [stream EXCEPT ![h] = "eof"]
       \/ /\ CallFails(h) \/ handler[h].msg \notin posted
          /\ stream' = [stream EXCEPT ![h] = "broken"]
    /\ UNCHANGED <<handler, posted, nextMessage>>

\* The handler has read to the end.
ReadEnds(h) ==
    /\ handler[h].pc = "read" /\ stream[h] \in {"eof", "broken"}
    /\ Reply(h, IF stream[h] = "eof" THEN "ok" ELSE "cut")
    /\ stream' = [stream EXCEPT ![h] = None]
    /\ UNCHANGED <<posted, nextMessage>>

\* The handler stops reading (its client is gone, or a frame does not open) and
\* closes the reader.
ReadStops(h) ==
    /\ handler[h].pc = "read" /\ stream[h] = "running"
    /\ Reply(h, "cut")
    /\ UNCHANGED <<stream, posted, nextMessage>>

\* Mutant: the reader is left open, so that only the context ends the stream.
StreamStopsUnclosed(h) ==
    /\ stream[h] = "running" /\ handler[h].pc = "answered" /\ ~handler[h].live
    /\ stream' = [stream EXCEPT ![h] = None]
    /\ UNCHANGED <<serve, signalled, cancelled, listener, errCh, expired, clientVars, handler,
                   posted, nextMessage>>

\* A Write to a pipe whose reader is closed fails, and Stream with it.
StreamStops(h) ==
    /\ stream[h] = "running" /\ handler[h].pc = "answered"
    /\ stream' = [stream EXCEPT ![h] = None]
    /\ UNCHANGED <<serve, signalled, cancelled, listener, errCh, expired, clientVars, handler,
                   posted, nextMessage>>

Delete(h) ==
    /\ handler[h].pc = "delete"
    /\ \/ /\ CallWorks(h)
          /\ posted' = posted \ {handler[h].msg}
          /\ \/ Reply(h, "ok")
             \/ CallLost /\ Reply(h, "error")
       \/ NoCall(h) /\ UNCHANGED posted
    /\ UNCHANGED <<stream, nextMessage>>

\* The handler returns. Its place is taken again once its stream has ended.
HandlerReturns(h) ==
    /\ handler[h].pc = "answered" /\ stream[h] = None
    /\ Become(h, IdleHandler)
    /\ UNCHANGED <<stream, posted, nextMessage>>

HandlerStep(h) ==
    /\ serve # "exited"
    /\ \/ Accept(h) \/ Disconnected(h) \/ Upload(h) \/ SendMedia(h) \/ Resolve(h)
       \/ StreamBlock(h) \/ StreamReturns(h) \/ ReadEnds(h) \/ ReadStops(h)
       \/ Delete(h) \/ HandlerReturns(h)
    /\ UNCHANGED <<serve, signalled, cancelled, listener, errCh, expired, clientVars>>

-----------------------------------------------------------------------------
\* The channel holds what earlier daemons have put.
ServeInit ==
    /\ serve = "opening" /\ signalled = FALSE
    /\ client = "connecting" /\ cancelled = FALSE
    /\ ready = None /\ readyClosed = FALSE /\ runDone = FALSE /\ api = FALSE
    /\ listener = "off" /\ errCh = None /\ expired = FALSE
    /\ handler = [h \in Handler |-> IdleHandler]
    /\ stream = [h \in Handler |-> None]
    /\ \E sent \in 0..MaxMessages : posted = 1..sent /\ nextMessage = sent + 1

ServeNext ==
    \/ ClientStep
    \/ ServeStep
    \/ Listen \/ StopListening
    \/ Signal
    \/ \E h \in Handler : HandlerStep(h) \/ StreamStops(h)

\* serve() and the listener go on when they can, a client whose context is done
\* comes to its end, and so does a stream whose reader is closed: its next Write fails,
\* and net/http has cancelled the context of its calls. Nothing is assumed of the
\* connection to Telegram or of how long handlers take.
Fairness ==
    /\ WF_serveVars(ServeStep) /\ WF_serveVars(StopListening)
    /\ WF_serveVars(ClientStopped /\ ClientStep)
    /\ \A h \in Handler : WF_serveVars(StreamStops(h))

ServeSpec == ServeInit /\ [][ServeNext]_serveVars /\ Fairness
-----------------------------------------------------------------------------
(* Properties *)

ServeTypeOK ==
    /\ serve \in {"opening", "abandoning", "starting", "serving", "draining",
                  "awaitListener", "closing", "exited"}
    /\ client \in {"connecting", "status", "announce", "connected", "returning", "closing",
                   "gone"}
    /\ listener \in {"off", "starting", "on"}
    /\ ready \in {None, "nil", "error"} /\ errCh \in {None, "nil", "error"}
    /\ {signalled, cancelled, readyClosed, runDone, api, expired} \subseteq BOOLEAN
    /\ handler \in [Handler -> HandlerState]
    /\ stream \in [Handler -> {None, "running", "eof", "broken"}]
    /\ posted \subseteq Message /\ nextMessage \in 1..(MaxMessages + 1)
    /\ \A h \in Handler :
          /\ handler[h].pc \in {"resolve", "read", "delete"} => handler[h].msg \in Message
          /\ stream[h] # None => handler[h].op = "get"

\* "block daemon operations until the connection reports ready" (mtproto.go:8-9): what
\* Open hands out to serve is connected, authorised and set up.
OpenWaits ==
    serve \in {"starting", "serving", "draining", "awaitListener", "closing"} => api

\* The backend and the database are not closed under a request, except when the
\* shutdown has taken its 30 seconds or the listener has failed; and serve does not
\* return while the goroutine of the client is still in Run (on Close "we cancel the
\* run context and wait for the goroutine to settle", mtproto.go:10-11), however it
\* comes to its end: interrupted in Open, failing later, or shut down.
ClosedInOrder ==
    /\ serve = "closing" /\ (\E h \in Handler : InFlight(h)) => expired \/ errCh = "error"
    /\ serve = "exited" => client \in {"closing", "gone"}

\* A document that is read to its end without an error is whole, whatever connection,
\* signal, deletion or failure comes in between: the pipe hands the error on.
StreamsWhole ==
    \A h \in Handler :
        handler[h].op = "get" /\ handler[h].answer = "ok" => handler[h].got = Blocks

\* A signal ends the process, whatever Telegram and the handlers do.
SignalEnds == signalled ~> serve = "exited"

\* The goroutine behind a Get ends once the reader is closed, also when the handler
\* has stopped half way.
StreamsEnd ==
    \A h \in Handler :
        handler[h].pc = "answered" /\ stream[h] = "running" ~> stream[h] # "running"
=============================================================================

------------------------- MODULE ServeMTProtoProofs -------------------------
(***************************************************************************)
(* Theorems about ServeMTProto for every number of handlers, blocks of a   *)
(* document and messages, and whatever goes wrong.                         *)
(***************************************************************************)
EXTENDS ServeMTProto, TLAPS

lifecycle == <<serve, signalled, cancelled, listener, errCh, expired, clientVars>>

-----------------------------------------------------------------------------
(* The inductive invariant *)

\* A request r and the goroutine s that streams to it: which operation is at which
\* step, a stream belongs to a Get, and one that has ended without an error has
\* passed all of the document on.
Served(r, s) ==
    /\ r \in HandlerState /\ s \in {None, "running", "eof", "broken"}
    /\ r.pc \in {"resolve", "read", "delete"} => r.msg \in Message
    /\ r.pc \in {"upload", "send"} => r.op = "put"
    /\ r.pc = "resolve" => r.op \in {"get", "exists"}
    /\ r.pc = "read" => r.op = "get"
    /\ r.pc = "delete" => r.op = "delete"
    /\ r.pc # "answered" => r.answer = None
    /\ s # None => r.op = "get" /\ r.pc \in {"read", "answered"}
    /\ s = "eof" => r.pc = "read" /\ r.got = Blocks
    /\ r.op = "get" /\ r.answer = "ok" => r.got = Blocks

HandlersServed ==
    /\ handler \in [Handler -> HandlerState]
    /\ stream \in [Handler -> {None, "running", "eof", "broken"}]
    /\ \A h \in Handler : Served(handler[h], stream[h])

ChannelTyped == posted \subseteq Message /\ nextMessage \in 1..(MaxMessages + 1)

LifecycleTyped ==
    /\ serve \in {"opening", "abandoning", "starting", "serving", "draining",
                  "awaitListener", "closing", "exited"}
    /\ client \in {"connecting", "status", "announce", "connected", "returning", "closing",
                   "gone"}
    /\ listener \in {"off", "starting", "on"}
    /\ ready \in {None, "nil", "error"} /\ errCh \in {None, "nil", "error"}
    /\ signalled \in BOOLEAN /\ cancelled \in BOOLEAN /\ readyClosed \in BOOLEAN
    /\ runDone \in BOOLEAN /\ api \in BOOLEAN /\ expired \in BOOLEAN

Quiet == \A h \in Handler : ~InFlight(h)

\* What the client says about itself through its channels.
ClientHonest ==
    /\ ready = "nil" \/ client \in {"announce", "connected"} => api
    /\ readyClosed => client = "gone"
    /\ runDone => client \in {"closing", "gone"}

\* Where Run does not give up by itself, nothing but a signal keeps it from its callback,
\* which sets b.api or sends an error.
CalledBack ==
    "connect" \notin Faults /\ ~signalled =>
        /\ cancelled => serve \in {"abandoning", "closing", "exited"}
        /\ serve \notin {"abandoning", "exited"} /\ client \in {"returning", "closing", "gone"}
              => api \/ ready = "error"
        /\ OpenWaits

\* Requests are only in flight once there is a listener; a listener ends because it
\* fails or because serve has shut it down, and it ends once.
Ordered ==
    /\ serve \in {"opening", "abandoning", "starting"} =>
           listener = "off" /\ errCh = None /\ Quiet
    /\ serve = "serving" => errCh # "nil"
    /\ serve = "awaitListener" => Quiet
    /\ serve = "closing" => Quiet \/ expired \/ errCh = "error"
    /\ errCh = "error" => listener = "off"
    /\ serve = "exited" => client \in {"closing", "gone"}

Inv == LifecycleTyped /\ HandlersServed /\ ChannelTyped /\ ClientHonest /\ CalledBack /\ Ordered

LEMMA InvImplies == Inv => ServeTypeOK /\ ClosedInOrder /\ StreamsWhole
<1> SUFFICES ASSUME Inv PROVE ServeTypeOK /\ ClosedInOrder /\ StreamsWhole
  OBVIOUS
<1>1. ServeTypeOK
  BY DEF Inv, LifecycleTyped, HandlersServed, ChannelTyped, Served, ServeTypeOK
<1>2. ClosedInOrder
  BY DEF Inv, Ordered, Quiet, ClosedInOrder
<1>3. StreamsWhole
  BY DEF Inv, HandlersServed, Served, StreamsWhole
<1> QED
  BY <1>1, <1>2, <1>3

LEMMA IdleServed == Served(IdleHandler, None) /\ IdleHandler.pc = "idle"
  BY ServeBoundAssumption DEF IdleHandler, Served, HandlerState, None, NoMessage, Message

LEMMA InvInit == ServeInit => Inv
<1> SUFFICES ASSUME ServeInit PROVE Inv
  OBVIOUS
<1>1. LifecycleTyped
  BY DEF ServeInit, LifecycleTyped
<1>2. HandlersServed
  BY IdleServed DEF ServeInit, HandlersServed, Served
<1>3. ChannelTyped
  BY ServeBoundAssumption DEF ServeInit, ChannelTyped, Message
<1>4. Quiet
  BY IdleServed DEF ServeInit, Quiet, InFlight
<1>5. ClientHonest /\ CalledBack
  BY DEF ServeInit, ClientHonest, CalledBack, OpenWaits, None
<1>6. Ordered
  BY <1>4 DEF ServeInit, Ordered, None
<1> QED
  BY <1>1, <1>2, <1>3, <1>5, <1>6 DEF Inv

-----------------------------------------------------------------------------
(* The goroutine of the client *)

LEMMA InvClient == Inv /\ ClientStep => Inv'
<1> SUFFICES ASSUME Inv, ClientStep PROVE Inv'
  OBVIOUS
<1>1. UNCHANGED <<serve, signalled, cancelled, listener, errCh, expired, httpVars>>
      /\ serve # "exited"
  BY DEF ClientStep
<1>2. HandlersServed' /\ ChannelTyped' /\ (Quiet' <=> Quiet)
  BY <1>1 DEF Inv, HandlersServed, ChannelTyped, Served, httpVars, Quiet, InFlight
<1>3. Ordered'
  BY <1>1, <1>2 DEF Inv, Ordered
<1>4. LifecycleTyped'
  BY <1>1 DEF ClientStep, Connect, ConnectFails, StatusFails, SetUp, Announce, Disconnect,
              RunReturns, CloseReady, Inv, LifecycleTyped, None
<1>5. ClientHonest' /\ CalledBack'
  <2>1. CASE Connect \/ ConnectFails \/ StatusFails \/ Disconnect
    BY <1>1, <2>1 DEF Connect, ConnectFails, StatusFails, Disconnect, Inv, LifecycleTyped,
                      ClientHonest, CalledBack, OpenWaits, ClientStopped, None
  <2>2. CASE SetUp
    BY <1>1, <2>2 DEF SetUp, Inv, LifecycleTyped, ClientHonest, CalledBack, OpenWaits
  <2>3. CASE Announce
    BY <1>1, <2>3 DEF Announce, Inv, LifecycleTyped, ClientHonest, CalledBack, OpenWaits
  <2>4. CASE RunReturns
    BY <1>1, <2>4 DEF RunReturns, Inv, LifecycleTyped, ClientHonest, CalledBack, OpenWaits
  <2>5. CASE CloseReady
    BY <1>1, <2>5 DEF CloseReady, Inv, LifecycleTyped, ClientHonest, CalledBack, OpenWaits
  <2> QED
    BY <2>1, <2>2, <2>3, <2>4, <2>5 DEF ClientStep
<1> QED
  BY <1>2, <1>3, <1>4, <1>5 DEF Inv

-----------------------------------------------------------------------------
(* serve(), the listener and the signal *)

\* What no step but a handler's and the end of the process touches.
LEMMA HttpKept ==
    ASSUME Inv, UNCHANGED httpVars
    PROVE  HandlersServed' /\ ChannelTyped' /\ (Quiet' <=> Quiet)
  BY DEF Inv, HandlersServed, ChannelTyped, Served, httpVars, Quiet, InFlight

LEMMA InvOpen == Inv /\ (OpenReturns \/ OpenInterrupted \/ Start) => Inv'
<1> SUFFICES ASSUME Inv, OpenReturns \/ OpenInterrupted \/ Start PROVE Inv'
  OBVIOUS
<1>1. UNCHANGED httpVars
  BY DEF OpenReturns, OpenInterrupted, Start
<1>2. HandlersServed' /\ ChannelTyped' /\ (Quiet' <=> Quiet)
  BY <1>1, HttpKept
<1>3. CASE OpenReturns
  <2>1. LifecycleTyped'
    <3>1. /\ LifecycleTyped /\ ready' = None
          /\ UNCHANGED <<signalled, client, readyClosed, runDone, api, listener, errCh, expired>>
      BY <1>3 DEF OpenReturns, Inv
    <3>2. CASE serve' = "abandoning" /\ cancelled' = TRUE
      BY <3>1, <3>2 DEF LifecycleTyped
    <3>3. CASE serve' = "starting" /\ UNCHANGED cancelled
      BY <3>1, <3>3 DEF LifecycleTyped
    <3> QED
      BY <1>3, <3>2, <3>3 DEF OpenReturns
  <2>2. ClientHonest' /\ CalledBack'
    BY <1>3 DEF OpenReturns, Inv, LifecycleTyped, ClientHonest, CalledBack, OpenWaits, None
  <2>3. Ordered'
    BY <1>2, <1>3 DEF OpenReturns, Inv, Ordered
  <2> QED
    BY <1>2, <2>1, <2>2, <2>3 DEF Inv
<1>4. CASE OpenInterrupted
  <2>1. LifecycleTyped'
    BY <1>4 DEF OpenInterrupted, clientVars, Inv, LifecycleTyped
  <2>2. ClientHonest' /\ CalledBack'
    BY <1>4 DEF OpenInterrupted, clientVars, Inv, ClientHonest, CalledBack, OpenWaits
  <2>3. Ordered'
    BY <1>2, <1>4 DEF OpenInterrupted, clientVars, Inv, Ordered
  <2> QED
    BY <1>2, <2>1, <2>2, <2>3 DEF Inv
<1>5. CASE Start
  <2>1. LifecycleTyped'
    <3>1. LifecycleTyped /\ UNCHANGED <<signalled, errCh, expired, clientVars>>
      BY <1>5 DEF Start, Inv
    <3>2. CASE serve' = "serving" /\ listener' = "starting" /\ UNCHANGED cancelled
      BY <3>1, <3>2 DEF clientVars, LifecycleTyped
    <3>3. CASE serve' = "closing" /\ cancelled' = TRUE /\ UNCHANGED listener
      BY <3>1, <3>3 DEF clientVars, LifecycleTyped
    <3> QED
      BY <1>5, <3>2, <3>3 DEF Start
  <2>2. ClientHonest' /\ CalledBack'
    BY <1>5 DEF Start, clientVars, Inv, ClientHonest, CalledBack, OpenWaits
  <2>3. Ordered'
    BY <1>2, <1>5 DEF Start, clientVars, Inv, Ordered, None
  <2> QED
    BY <1>2, <2>1, <2>2, <2>3 DEF Inv
<1> QED
  BY <1>3, <1>4, <1>5

LEMMA InvEnd == Inv /\ (ShutDown \/ ListenerEnded \/ Drained \/ Expire) => Inv'
<1> SUFFICES ASSUME Inv, ShutDown \/ ListenerEnded \/ Drained \/ Expire PROVE Inv'
  OBVIOUS
<1>1. UNCHANGED <<signalled, listener, errCh, clientVars, httpVars>>
  BY DEF ShutDown, ListenerEnded, Drained, Expire
<1>2. HandlersServed' /\ ChannelTyped' /\ (Quiet' <=> Quiet)
  BY <1>1, HttpKept
<1>3. LifecycleTyped'
  <2>1. CASE ShutDown
    BY <1>1, <2>1 DEF ShutDown, clientVars, Inv, LifecycleTyped
  <2>2. CASE ListenerEnded
    BY <1>1, <2>2 DEF ListenerEnded, clientVars, Inv, LifecycleTyped
  <2>3. CASE Drained
    BY <1>1, <2>3 DEF Drained, clientVars, Inv, LifecycleTyped
  <2>4. CASE Expire
    BY <1>1, <2>4 DEF Expire, clientVars, Inv, LifecycleTyped
  <2> QED
    BY <2>1, <2>2, <2>3, <2>4
<1>4. ClientHonest' /\ CalledBack'
  BY <1>1 DEF ShutDown, ListenerEnded, Drained, Expire, clientVars, Inv, ClientHonest,
              CalledBack, OpenWaits
<1>5. Ordered'
  <2>1. CASE ShutDown
    BY <1>1, <1>2, <2>1 DEF ShutDown, clientVars, Inv, Ordered
  <2>2. CASE ListenerEnded
    BY <1>1, <1>2, <2>2 DEF ListenerEnded, clientVars, Inv, Ordered, LifecycleTyped
  <2>3. CASE Drained
    BY <1>1, <1>2, <2>3 DEF Drained, clientVars, Inv, Ordered, Quiet
  <2>4. CASE Expire
    BY <1>1, <1>2, <2>4 DEF Expire, clientVars, Inv, Ordered
  <2> QED
    BY <2>1, <2>2, <2>3, <2>4
<1> QED
  BY <1>2, <1>3, <1>4, <1>5 DEF Inv

LEMMA InvJoin == Inv /\ JoinClient => Inv'
<1> SUFFICES ASSUME Inv, JoinClient PROVE Inv'
  OBVIOUS
<1>1. HandlersServed'
  BY IdleServed DEF JoinClient, Return, HandlersServed, Served
<1>2. ChannelTyped'
  BY DEF JoinClient, Return, Inv, ChannelTyped
<1>3. LifecycleTyped'
  BY DEF JoinClient, Return, Inv, LifecycleTyped
<1>4. ClientHonest' /\ CalledBack'
  BY DEF JoinClient, Return, Inv, ClientHonest, CalledBack, OpenWaits
<1>5. Ordered'
  BY DEF JoinClient, Return, Inv, Ordered, ClientHonest
<1> QED
  BY <1>1, <1>2, <1>3, <1>4, <1>5 DEF Inv

LEMMA InvListener == Inv /\ (Listen \/ StopListening \/ Signal) => Inv'
<1> SUFFICES ASSUME Inv, Listen \/ StopListening \/ Signal PROVE Inv'
  OBVIOUS
<1>1. UNCHANGED <<serve, cancelled, expired, clientVars, httpVars>>
  BY DEF Listen, StopListening, Signal
<1>2. HandlersServed' /\ ChannelTyped' /\ (Quiet' <=> Quiet)
  BY <1>1, HttpKept
<1>3. LifecycleTyped'
  <2>1. CASE Listen
    BY <1>1, <2>1 DEF Listen, clientVars, Inv, LifecycleTyped
  <2>2. CASE StopListening
    BY <1>1, <2>2 DEF StopListening, clientVars, Inv, LifecycleTyped
  <2>3. CASE Signal
    BY <1>1, <2>3 DEF Signal, clientVars, Inv, LifecycleTyped
  <2> QED
    BY <2>1, <2>2, <2>3
<1>4. ClientHonest' /\ CalledBack'
  <2>1. signalled => signalled'
    BY DEF Listen, StopListening, Signal
  <2> QED
    BY <1>1, <2>1 DEF clientVars, Inv, ClientHonest, CalledBack, OpenWaits
<1>5. Ordered'
  <2>1. CASE Listen
    BY <1>1, <1>2, <2>1 DEF Listen, clientVars, Inv, Ordered
  <2>2. CASE StopListening
    BY <1>1, <1>2, <2>2 DEF StopListening, clientVars, Inv, Ordered
  <2>3. CASE Signal
    BY <1>1, <1>2, <2>3 DEF Signal, clientVars, Inv, Ordered
  <2> QED
    BY <2>1, <2>2, <2>3
<1> QED
  BY <1>2, <1>3, <1>4, <1>5 DEF Inv

-----------------------------------------------------------------------------
(* Handlers *)

\* What a handler's step has to show: its request and its stream are as they should be,
\* and unless the server is serving it does not put a request in flight.
LEMMA HandlerMoves ==
    ASSUME Inv, NEW h \in Handler, NEW q, NEW s, Served(q, s),
           handler' = [handler EXCEPT ![h] = q], stream' = [stream EXCEPT ![h] = s],
           UNCHANGED lifecycle, ChannelTyped',
           serve = "serving" \/ InFlight(h) \/ q.pc \in {"idle", "answered"}
    PROVE  Inv'
<1>1. \A g \in Handler : /\ handler'[g] = IF g = h THEN q ELSE handler[g]
                         /\ stream'[g] = IF g = h THEN s ELSE stream[g]
  BY DEF Inv, HandlersServed
<1>2. HandlersServed'
  BY <1>1 DEF Inv, HandlersServed, Served
<1>3. Quiet => Quiet' \/ serve = "serving"
  BY <1>1 DEF Quiet, InFlight
<1>4. LifecycleTyped' /\ ClientHonest' /\ CalledBack'
  BY DEF lifecycle, clientVars, Inv, LifecycleTyped, ClientHonest, CalledBack, OpenWaits
<1>5. Ordered'
  BY <1>3 DEF lifecycle, clientVars, Inv, Ordered
<1> QED
  BY <1>2, <1>4, <1>5 DEF Inv

\* The same for a step that leaves its stream alone.
LEMMA RequestMoves ==
    ASSUME Inv, NEW h \in Handler, NEW q, Served(q, stream[h]),
           handler' = [handler EXCEPT ![h] = q], UNCHANGED stream,
           UNCHANGED lifecycle, ChannelTyped',
           serve = "serving" \/ InFlight(h) \/ q.pc \in {"idle", "answered"}
    PROVE  Inv'
<1>1. stream' = [stream EXCEPT ![h] = stream[h]]
  BY DEF Inv, HandlersServed
<1> QED
  BY <1>1, HandlerMoves

\* A handler answers, while its stream has not ended without an error.
LEMMA AnswerServed ==
    ASSUME NEW r, NEW s, Served(r, s), s # "eof",
           NEW a \in {"ok", "no", "missing", "error", "cut", "panic"}, a = "ok" => r.op # "get",
           NEW q, q = [r EXCEPT !.pc = "answered", !.answer = a]
    PROVE  Served(q, s) /\ q.pc = "answered"
<1>1. /\ q \in HandlerState /\ q.pc = "answered" /\ q.answer = a
      /\ q.op = r.op /\ q.msg = r.msg /\ q.got = r.got
  BY DEF Served, HandlerState
<1> QED
  BY <1>1 DEF Served

LEMMA ReplyKeeps ==
    ASSUME Inv, NEW h \in Handler, NEW a, stream[h] # "eof",
           a \in {"ok", "no", "missing", "error", "cut", "panic"},
           a = "ok" => handler[h].op # "get",
           Reply(h, a), UNCHANGED stream, UNCHANGED lifecycle, ChannelTyped'
    PROVE  Inv'
<1> DEFINE q == [handler[h] EXCEPT !.pc = "answered", !.answer = a]
<1>1. handler' = [handler EXCEPT ![h] = q]
  BY DEF Reply, Become
<1>2. Served(handler[h], stream[h])
  BY DEF Inv, HandlersServed
<1>3. q = [handler[h] EXCEPT !.pc = "answered", !.answer = a]
  OBVIOUS
<1> HIDE DEF q
<1>4. Served(q, stream[h]) /\ q.pc = "answered"
  BY <1>2, <1>3, AnswerServed
<1> QED
  BY <1>1, <1>4, RequestMoves

LEMMA NoCallKeeps ==
    ASSUME Inv, NEW h \in Handler, stream[h] # "eof", NoCall(h), UNCHANGED stream,
           UNCHANGED lifecycle, ChannelTyped'
    PROVE  Inv'
  BY ReplyKeeps DEF NoCall

\* The next step of the same request.
LEMMA GotoKeeps ==
    ASSUME Inv, NEW h \in Handler, InFlight(h), NEW pc, Goto(h, pc),
           \/ handler[h].pc = "upload" /\ pc = "send" /\ UNCHANGED stream
           \/ /\ handler[h].pc = "resolve" /\ handler[h].op = "get" /\ pc = "read"
              /\ stream' = [stream EXCEPT ![h] = "running"],
           UNCHANGED lifecycle, ChannelTyped'
    PROVE  Inv'
<1> DEFINE q == [handler[h] EXCEPT !.pc = pc]
<1>1. handler' = [handler EXCEPT ![h] = q]
  BY DEF Goto, Become
<1>2. Served(handler[h], stream[h])
  BY DEF Inv, HandlersServed
<1>3. CASE handler[h].pc = "upload" /\ pc = "send" /\ UNCHANGED stream
  <2>1. Served(q, stream[h])
    BY <1>2, <1>3 DEF Served, HandlerState
  <2> HIDE DEF q
  <2> QED
    BY <1>1, <1>3, <2>1, RequestMoves
<1>4. CASE /\ handler[h].pc = "resolve" /\ handler[h].op = "get" /\ pc = "read"
           /\ stream' = [stream EXCEPT ![h] = "running"]
  <2>1. Served(q, "running")
    BY <1>2, <1>4 DEF Served, HandlerState
  <2> HIDE DEF q
  <2> QED
    BY <1>1, <1>4, <2>1, HandlerMoves
<1> QED
  BY <1>3, <1>4

\* A request that a handler takes up.
LEMMA AcceptedServed ==
    ASSUME NEW op, NEW pc, NEW m \in Message \cup {NoMessage}, op # "put" => m \in Message,
           \/ pc = "upload" /\ op = "put"
           \/ pc = "resolve" /\ op \in {"get", "exists"}
           \/ pc = "delete" /\ op = "delete",
           NEW q, q = [IdleHandler EXCEPT !.pc = pc, !.op = op, !.msg = m]
    PROVE  Served(q, None)
<1>1. IdleHandler \in HandlerState
  BY IdleServed DEF Served
<1>2. /\ pc \in {"upload", "resolve", "delete"} /\ op \in {"put", "get", "exists", "delete"}
  OBVIOUS
<1>3. q \in HandlerState
  BY <1>1, <1>2 DEF HandlerState
<1>4. q.pc = pc /\ q.op = op /\ q.msg = m /\ q.answer = IdleHandler.answer
  BY <1>1 DEF HandlerState
<1>5. IdleHandler.answer = None
  BY DEF IdleHandler
<1> QED
  BY <1>2, <1>3, <1>4, <1>5 DEF Served, None

LEMMA InvAccept ==
    ASSUME Inv, NEW h \in Handler, UNCHANGED lifecycle,
           Accept(h) \/ Disconnected(h) \/ HandlerReturns(h)
    PROVE  Inv'
<1>0. Served(handler[h], stream[h])
  BY DEF Inv, HandlersServed
<1>1. ChannelTyped' /\ UNCHANGED stream
  BY DEF Accept, Disconnected, HandlerReturns, Inv, ChannelTyped
<1>2. CASE Accept(h)
  <2>1. PICK op \in {"put", "get", "exists", "delete"}, m \in 0..(nextMessage - 1) :
           /\ op = "put" <=> m = NoMessage
           /\ Become(h, [IdleHandler EXCEPT !.pc = FirstStep(op), !.op = op, !.msg = m])
    BY <1>2 DEF Accept
  <2> DEFINE q == [IdleHandler EXCEPT !.pc = FirstStep(op), !.op = op, !.msg = m]
  <2>2. m \in Message \cup {NoMessage} /\ (op # "put" => m \in Message)
    <3>1. nextMessage \in 1..(MaxMessages + 1)
      BY DEF Inv, ChannelTyped
    <3>2. m \in 0..MaxMessages
      BY <3>1, ServeBoundAssumption
    <3>3. op # "put" => m # 0
      BY <2>1 DEF NoMessage
    <3> QED
      BY <3>2, <3>3, ServeBoundAssumption DEF Message, NoMessage
  <2>3. stream[h] = None
    <3>1. handler[h] = IdleHandler
      BY <1>2 DEF Accept
    <3>2. IdleHandler.op = "none"
      BY DEF IdleHandler, None
    <3> QED
      BY <1>0, <3>1, <3>2 DEF Served
  <2>4. q = [IdleHandler EXCEPT !.pc = FirstStep(op), !.op = op, !.msg = m]
    OBVIOUS
  <2> HIDE DEF q
  <2>5. \/ FirstStep(op) = "upload" /\ op = "put"
        \/ FirstStep(op) = "resolve" /\ op \in {"get", "exists"}
        \/ FirstStep(op) = "delete" /\ op = "delete"
    <3>1. CASE op = "put"
      BY <3>1 DEF FirstStep
    <3>2. CASE op = "get" \/ op = "exists"
      BY <3>2 DEF FirstStep
    <3>3. CASE op = "delete"
      BY <3>3 DEF FirstStep
    <3> QED
      BY <3>1, <3>2, <3>3
  <2>6. Served(q, stream[h])
    BY <2>2, <2>3, <2>4, <2>5, AcceptedServed
  <2>7. handler' = [handler EXCEPT ![h] = q] /\ serve = "serving"
    BY <1>2, <2>1 DEF Accept, Become, q
  <2> QED
    BY <1>1, <2>6, <2>7, RequestMoves
<1>3. CASE Disconnected(h)
  <2> DEFINE q == [handler[h] EXCEPT !.live = FALSE]
  <2>1. Served(q, stream[h])
    BY <1>0 DEF Served, HandlerState
  <2>2. handler' = [handler EXCEPT ![h] = q] /\ InFlight(h)
    BY <1>3 DEF Disconnected, Become
  <2> HIDE DEF q
  <2> QED
    BY <1>1, <2>1, <2>2, RequestMoves
<1>4. CASE HandlerReturns(h)
  <2>1. /\ handler' = [handler EXCEPT ![h] = IdleHandler]
        /\ Served(IdleHandler, stream[h]) /\ IdleHandler.pc = "idle"
    BY <1>4, IdleServed DEF HandlerReturns, Become
  <2> QED
    BY <1>1, <2>1, RequestMoves
<1> QED
  BY <1>2, <1>3, <1>4

LEMMA InvCalls ==
    ASSUME Inv, NEW h \in Handler, UNCHANGED lifecycle,
           Upload(h) \/ SendMedia(h) \/ Resolve(h) \/ Delete(h)
    PROVE  Inv'
<1>0. Served(handler[h], stream[h]) /\ stream[h] # "eof" /\ InFlight(h)
  BY DEF Inv, HandlersServed, Served, Upload, SendMedia, Resolve, Delete, InFlight
<1>1. ChannelTyped'
  BY ServeBoundAssumption DEF Upload, SendMedia, Resolve, Delete, Inv, ChannelTyped, Message
<1>2. CASE Upload(h)
  <2>1. UNCHANGED stream /\ handler[h].pc = "upload"
    BY <1>2 DEF Upload
  <2>2. CASE Goto(h, "send")
    BY <1>0, <1>1, <2>1, <2>2, GotoKeeps
  <2>3. CASE Reply(h, "error")
    BY <1>0, <1>1, <2>1, <2>3, ReplyKeeps
  <2>4. CASE NoCall(h)
    BY <1>0, <1>1, <2>1, <2>4, NoCallKeeps
  <2> QED
    BY <1>2, <2>2, <2>3, <2>4 DEF Upload
<1>3. CASE SendMedia(h)
  <2>1. UNCHANGED stream /\ handler[h].pc = "send" /\ handler[h].op = "put"
    BY <1>0, <1>3 DEF SendMedia, Served
  <2>2. CASE /\ Become(h, [handler[h] EXCEPT !.pc = "answered", !.answer = "ok",
                                             !.msg = nextMessage])
             /\ nextMessage \in Message
    <3> DEFINE q == [handler[h] EXCEPT !.pc = "answered", !.answer = "ok", !.msg = nextMessage]
    <3>1. Served(q, stream[h])
      BY <1>0, <2>1, <2>2 DEF Served, HandlerState
    <3>2. handler' = [handler EXCEPT ![h] = q]
      BY <2>2 DEF Become
    <3> HIDE DEF q
    <3> QED
      BY <1>0, <1>1, <2>1, <3>1, <3>2, RequestMoves
  <2>3. CASE Reply(h, "error")
    BY <1>0, <1>1, <2>1, <2>3, ReplyKeeps
  <2> QED
    BY <1>3, <2>2, <2>3 DEF SendMedia
<1>4. CASE Resolve(h)
  <2>1. handler[h].pc = "resolve"
    BY <1>4 DEF Resolve
  <2>2. CASE Goto(h, "read") /\ handler[h].op = "get" /\ stream' = [stream EXCEPT ![h] = "running"]
    BY <1>0, <1>1, <2>1, <2>2, GotoKeeps
  <2>3. CASE UNCHANGED stream /\ Reply(h, IF handler[h].op = "get" THEN "missing"
                                          ELSE IF handler[h].msg \in posted THEN "ok" ELSE "no")
    BY <1>0, <1>1, <2>3, ReplyKeeps
  <2>4. CASE NoCall(h) /\ UNCHANGED stream
    BY <1>0, <1>1, <2>4, NoCallKeeps
  <2> QED
    BY <1>4, <2>2, <2>3, <2>4 DEF Resolve
<1>5. CASE Delete(h)
  <2>1. UNCHANGED stream /\ handler[h].op # "get"
    BY <1>0, <1>5 DEF Delete, Served
  <2>2. CASE Reply(h, "ok") \/ Reply(h, "error")
    BY <1>0, <1>1, <2>1, <2>2, ReplyKeeps
  <2>3. CASE NoCall(h)
    BY <1>0, <1>1, <2>1, <2>3, NoCallKeeps
  <2> QED
    BY <1>5, <2>2, <2>3 DEF Delete
<1> QED
  BY <1>2, <1>3, <1>4, <1>5

LEMMA InvStreams ==
    ASSUME Inv, NEW h \in Handler, UNCHANGED lifecycle,
           \/ StreamBlock(h) \/ StreamReturns(h) \/ ReadEnds(h) \/ ReadStops(h) \/ StreamStops(h)
    PROVE  Inv'
<1>0. /\ Served(handler[h], stream[h]) /\ handler[h] \in HandlerState
      /\ handler = [handler EXCEPT ![h] = handler[h]]
  BY DEF Inv, HandlersServed
<1>1. ChannelTyped'
  BY DEF StreamBlock, StreamReturns, ReadEnds, ReadStops, StreamStops, Inv, ChannelTyped
<1>2. CASE StreamBlock(h)
  <2> DEFINE q == [handler[h] EXCEPT !.got = @ + 1]
  <2>1. handler[h].got + 1 \in 0..Blocks /\ stream[h] = "running" /\ InFlight(h)
        /\ handler[h].pc = "read"
    BY <1>0, <1>2, ServeBoundAssumption DEF StreamBlock, HandlerState, InFlight
  <2>2. Served(q, stream[h])
    BY <1>0, <2>1 DEF Served, HandlerState, None
  <2>3. handler' = [handler EXCEPT ![h] = q] /\ UNCHANGED stream
    BY <1>2 DEF StreamBlock, Become
  <2> HIDE DEF q
  <2> QED
    BY <1>1, <2>1, <2>2, <2>3, RequestMoves
<1>3. CASE StreamReturns(h)
  <2>1. PICK s \in {"eof", "broken"} : /\ s = "eof" => handler[h].got = Blocks
                                       /\ stream' = [stream EXCEPT ![h] = s]
    BY <1>3 DEF StreamReturns
  <2>2. Served(handler[h], s) /\ handler' = [handler EXCEPT ![h] = handler[h]] /\ InFlight(h)
    BY <1>0, <1>3, <2>1 DEF StreamReturns, Served, InFlight
  <2> QED
    BY <1>1, <2>1, <2>2, HandlerMoves
<1>4. CASE ReadEnds(h)
  <2> DEFINE a == IF stream[h] = "eof" THEN "ok" ELSE "cut"
             q == [handler[h] EXCEPT !.pc = "answered", !.answer = a]
  <2>1. a \in {"ok", "cut"} /\ (a = "ok" => stream[h] = "eof")
    OBVIOUS
  <2>2. handler' = [handler EXCEPT ![h] = q] /\ stream' = [stream EXCEPT ![h] = None]
    BY <1>4 DEF ReadEnds, Reply, Become
  <2> HIDE DEF a
  <2>3. Served(q, None) /\ q.pc = "answered"
    BY <1>0, <2>1 DEF Served, HandlerState, None
  <2> HIDE DEF q
  <2> QED
    BY <1>1, <2>2, <2>3, HandlerMoves
<1>5. CASE ReadStops(h)
  BY <1>1, <1>5, ReplyKeeps DEF ReadStops
<1>6. CASE StreamStops(h)
  <2>1. Served(handler[h], None) /\ handler' = [handler EXCEPT ![h] = handler[h]]
        /\ stream' = [stream EXCEPT ![h] = None] /\ handler[h].pc = "answered"
    BY <1>0, <1>6 DEF StreamStops, Served, None
  <2> QED
    BY <1>1, <2>1, HandlerMoves
<1> QED
  BY <1>2, <1>3, <1>4, <1>5, <1>6

LEMMA InvNext == Inv /\ [ServeNext]_serveVars => Inv'
<1> SUFFICES ASSUME Inv, [ServeNext]_serveVars PROVE Inv'
  OBVIOUS
<1>1. CASE UNCHANGED serveVars
  <2>1. HandlersServed' /\ ChannelTyped' /\ (Quiet' <=> Quiet)
    BY <1>1, HttpKept DEF serveVars
  <2> QED
    BY <1>1, <2>1 DEF serveVars, clientVars, Inv, LifecycleTyped, ClientHonest, CalledBack,
                      OpenWaits, Ordered
<1>2. CASE ClientStep
  BY <1>2, InvClient
<1>3. CASE ServeStep
  BY <1>3, InvOpen, InvEnd, InvJoin DEF ServeStep
<1>4. CASE Listen \/ StopListening \/ Signal
  BY <1>4, InvListener
<1>5. ASSUME NEW h \in Handler, HandlerStep(h) PROVE Inv'
  BY <1>5, InvAccept, InvCalls, InvStreams DEF HandlerStep, lifecycle
<1>6. ASSUME NEW h \in Handler, StreamStops(h) PROVE Inv'
  <2>1. UNCHANGED lifecycle
    BY <1>6 DEF StreamStops, lifecycle
  <2> QED
    BY <1>6, <2>1, InvStreams
<1> QED
  BY <1>1, <1>2, <1>3, <1>4, <1>5, <1>6 DEF ServeNext

-----------------------------------------------------------------------------
(* Theorems *)

LEMMA InvAlways == ServeSpec => []Inv
  BY InvInit, InvNext, PTL DEF ServeSpec

\* Every variable keeps its type; a handler that asks Telegram for a message names one
\* that a Put may have sent, and only a Get has a goroutine that streams.
THEOREM TypeCorrect == ServeSpec => []ServeTypeOK
  BY InvAlways, InvImplies, PTL

\* "block daemon operations until the connection reports ready" (mtproto.go:8-9) is true
\* of every way Open may go but two: a Run that gives up before it calls back, and a
\* signal that stops it there. No refused session, failed query, lost connection or order
\* of the callback, the channel and serve breaks it.
THEOREM OpenHandsOutReady ==
    ASSUME "connect" \notin Faults PROVE ServeSpec => [](OpenWaits \/ signalled)
<1>1. Inv => OpenWaits \/ signalled
  BY DEF Inv, CalledBack
<1> QED
  BY <1>1, InvAlways, PTL

\* The shutdown does not close the backend under a request unless its 30 seconds have
\* passed or the listener has failed, and serve does not return before the client has,
\* on every way out of it.
THEOREM ShutdownOrdered == ServeSpec => []ClosedInOrder
  BY InvAlways, InvImplies, PTL

\* A Get that reads to the end without an error has read all blocks of the document: the
\* pipe passes on how Stream has returned, and no other end looks like that one.
THEOREM DocumentsWhole == ServeSpec => []StreamsWhole
  BY InvAlways, InvImplies, PTL
=============================================================================

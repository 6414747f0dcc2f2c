------------------------ MODULE ObjectServiceProofs ------------------------
(***************************************************************************)
(* Theorems about ObjectService for every set of buckets, keys and         *)
(* requests, every workload, every set of faults and every bound.          *)
(***************************************************************************)
EXTENDS ObjectService, TLAPS

-----------------------------------------------------------------------------
(* Type correctness *)

HoldsCipher == {"upload", "commit", "fetch"}
HoldsMessage == {"commit", "rollback", "getCipher", "fetch", "evict", "deleteMessage"}

WellFormed(q) ==
    /\ q \in RequestState
    /\ q.pc \in Step => /\ q.op = OpOf(q.pc) /\ q.op \in Ops
                        /\ q.bucket \in Bucket
                        /\ q.op \in ObjectOp => q.key \in Key
    /\ q.pc \in HoldsCipher => q.cipher \in DataKey
    /\ q.pc \in HoldsMessage => q.msg \in Message
    /\ q.pc \in {"createUndo", "replied"} => q.answer \in Answer

ReqTyped ==
    /\ req \in [Request -> RequestState]
    /\ \A r \in Request : WellFormed(req[r])

StoreTyped ==
    /\ buckets \subseteq Bucket
    /\ objects \in [Bucket -> [Key -> Message \cup {NoMessage}]]
    /\ keyOf \in [Bucket -> DataKey \cup {NoKey}]
    /\ cipherCache \in [Bucket -> DataKey \cup {NoKey}]
    /\ cached \subseteq Message
    /\ channel \subseteq Message
    /\ sealedWith \in [Message -> DataKey \cup {NoKey}]
    /\ nextMessage \in 1..(MaxMessages + 1)
    /\ nextKey \in 1..(MaxDataKeys + 1)
    /\ seen \in [Request -> SUBSET (Message \cup {NoMessage})]

\* The type invariant is about the stores and, request by request, about the
\* state of the handlers.
LEMMA TypeSplit == TypeOK <=> StoreTyped /\ ReqTyped
  BY DEF TypeOK, StoreTyped, ReqTyped, WellFormed, InFlight, HoldsCipher, HoldsMessage

\* The operation each step belongs to.
LEMMA StepFacts ==
    /\ "createKey" \in Step /\ OpOf("createKey") = "createBucket"
    /\ "createRow" \in Step /\ OpOf("createRow") = "createBucket"
    /\ "createUndo" \in Step /\ OpOf("createUndo") = "createBucket"
    /\ "dropRow" \in Step /\ OpOf("dropRow") = "deleteBucket"
    /\ "dropKey" \in Step /\ OpOf("dropKey") = "deleteBucket"
    /\ "dropCipher" \in Step /\ OpOf("dropCipher") = "deleteBucket"
    /\ "putCheck" \in Step /\ OpOf("putCheck") = "putObject"
    /\ "putCipher" \in Step /\ OpOf("putCipher") = "putObject"
    /\ "upload" \in Step /\ OpOf("upload") = "putObject"
    /\ "commit" \in Step /\ OpOf("commit") = "putObject"
    /\ "rollback" \in Step /\ OpOf("rollback") = "putObject"
    /\ "getRow" \in Step /\ OpOf("getRow") = "getObject"
    /\ "getCipher" \in Step /\ OpOf("getCipher") = "getObject"
    /\ "fetch" \in Step /\ OpOf("fetch") = "getObject"
    /\ "deleteRow" \in Step /\ OpOf("deleteRow") = "deleteObject"
    /\ "evict" \in Step /\ OpOf("evict") = "deleteObject"
    /\ "deleteMessage" \in Step /\ OpOf("deleteMessage") = "deleteObject"
    /\ "idle" \notin Step /\ "replied" \notin Step
  BY DEF Step, CreateStep, DropStep, PutStep, GetStep, DeleteStep, OpOf

\* A step changes the state of one handler: the others stay well formed.
LEMMA BecomeTyped ==
    ASSUME ReqTyped, NEW r \in Request, NEW q, WellFormed(q), Become(r, q)
    PROVE  ReqTyped'
  BY DEF Become, WellFormed, ReqTyped

LEMMA ReplyTyped ==
    ASSUME ReqTyped, NEW r \in Request, NEW answer \in Answer, Reply(r, answer)
    PROVE  ReqTyped'
<1> DEFINE q == [req[r] EXCEPT !.pc = "replied", !.answer = answer,
                               !.cipher = NoKey, !.live = TRUE]
<1>1. WellFormed(q)
  BY StepFacts DEF ReqTyped, WellFormed, RequestState, HoldsCipher, HoldsMessage
<1> QED
  BY <1>1, BecomeTyped DEF Reply

LEMMA GotoTyped ==
    ASSUME ReqTyped, NEW r \in Request, InFlight(r), NEW step \in Step,
           step \in HoldsCipher => req[r].cipher \in DataKey,
           step \in HoldsMessage => req[r].msg \in Message,
           step # "createUndo", OpOf(step) = req[r].op,
           Goto(r, step)
    PROVE  ReqTyped'
<1> DEFINE q == [req[r] EXCEPT !.pc = step]
<1>1. WellFormed(q)
  BY StepFacts DEF ReqTyped, WellFormed, RequestState, InFlight
<1> QED
  BY <1>1, BecomeTyped DEF Goto

\* A handler moves on with a message that it has just been given.
LEMMA HoldTyped ==
    ASSUME ReqTyped, NEW r \in Request, InFlight(r), NEW step \in {"commit", "getCipher", "evict"},
           step = "commit" => req[r].cipher \in DataKey,
           OpOf(step) = req[r].op, NEW m \in Message
    PROVE  WellFormed([req[r] EXCEPT !.pc = step, !.msg = m])
<1> DEFINE q == [req[r] EXCEPT !.pc = step, !.msg = m]
<1>1. req[r] \in RequestState /\ WellFormed(req[r])
  BY DEF ReqTyped
<1>2. step \in Step
  BY StepFacts
<1>3. q \in RequestState
  BY <1>1, <1>2 DEF RequestState
<1>4. /\ q.pc = step /\ q.msg = m /\ q.op = req[r].op /\ q.cipher = req[r].cipher
      /\ q.bucket = req[r].bucket /\ q.key = req[r].key
  BY <1>1 DEF RequestState
<1> HIDE DEF q
<1>5. WellFormed(q)
  BY <1>1, <1>3, <1>4, StepFacts DEF WellFormed, InFlight, HoldsCipher, HoldsMessage
<1> QED
  BY <1>5 DEF q

LEMMA TypeInit == Init => TypeOK
<1> SUFFICES ASSUME Init PROVE TypeOK
  OBVIOUS
<1> USE BoundAssumption
<1> QED
  BY StepFacts DEF Init, TypeOK, RequestState, Idle, InFlight, Message, DataKey, NoMessage,
         NoKey, Operation, BucketOp, ObjectOp, Answer

LEMMA TypeKeys ==
    ASSUME StoreTyped, ReqTyped, NEW r \in Request,
           CreateKey(r) \/ CreateRow(r) \/ CreateUndo(r)
    PROVE  StoreTyped' /\ ReqTyped'
<1>1. CASE CreateKey(r)
  <2>1. StoreTyped'
    BY <1>1, BoundAssumption DEF CreateKey, StoreTyped, DataKey, NoKey
  <2>2. InFlight(r) /\ req[r].op = "createBucket"
    BY StepFacts, <1>1 DEF CreateKey, At, InFlight, ReqTyped, WellFormed
  <2>3. ReqTyped'
    BY StepFacts, <1>1, <2>2, ReplyTyped, GotoTyped DEF CreateKey, Answer, HoldsCipher, HoldsMessage
  <2> QED
    BY <2>1, <2>3
<1>2. CASE CreateRow(r)
  <2>1. StoreTyped'
    BY StepFacts, <1>2 DEF CreateRow, StoreTyped, ReqTyped, WellFormed, At
  <2>2. ASSUME NEW answer \in Answer, NEW live \in BOOLEAN
        PROVE  WellFormed([req[r] EXCEPT !.pc = "createUndo", !.answer = answer, !.live = live])
    <3> DEFINE q == [req[r] EXCEPT !.pc = "createUndo", !.answer = answer, !.live = live]
    <3>1. req[r] \in RequestState /\ WellFormed(req[r]) /\ req[r].pc = "createRow"
      BY <1>2 DEF CreateRow, ReqTyped, At
    <3>2. /\ q.pc = "createUndo" /\ q.answer = answer
          /\ q.op = req[r].op /\ q.bucket = req[r].bucket /\ q.key = req[r].key
      BY <3>1 DEF RequestState
    <3>3. q \in RequestState
      BY <3>1, StepFacts DEF RequestState
    <3>4. InFlight(r) /\ req[r].op = "createBucket" /\ req[r].op \in Ops /\ req[r].bucket \in Bucket
      BY <3>1, StepFacts DEF WellFormed, InFlight
    <3> HIDE DEF q
    <3>5. WellFormed(q)
      BY <3>2, <3>3, <3>4, StepFacts DEF WellFormed, HoldsCipher, HoldsMessage, ObjectOp
    <3> QED
      BY <3>5 DEF q
  <2>3. req[r].live \in BOOLEAN
    BY DEF ReqTyped, RequestState
  <2>4. ReqTyped'
    BY <1>2, <2>2, <2>3, ReplyTyped, BecomeTyped DEF CreateRow, Answer
  <2> QED
    BY <2>1, <2>4
<1>3. CASE CreateUndo(r)
  <2>1. StoreTyped'
    BY <1>3 DEF CreateUndo, KeysRemove, StoreTyped, NoKey
  <2>2. req[r].answer \in Answer
    BY <1>3 DEF CreateUndo, At, ReqTyped, WellFormed
  <2>3. ReqTyped'
    BY <1>3, <2>2, ReplyTyped DEF CreateUndo
  <2> QED
    BY <2>1, <2>3
<1> QED
  BY <1>1, <1>2, <1>3

LEMMA TypeDropBucket ==
    ASSUME StoreTyped, ReqTyped, NEW r \in Request,
           DropRow(r) \/ DropKey(r) \/ DropCipher(r)
    PROVE  StoreTyped' /\ ReqTyped'
<1>1. CASE DropRow(r)
  <2>1. StoreTyped'
    BY <1>1 DEF DropRow, StoreTyped
  <2>2. InFlight(r) /\ req[r].op = "deleteBucket"
    BY StepFacts, <1>1 DEF DropRow, At, InFlight, ReqTyped, WellFormed
  <2>3. ReqTyped'
    BY StepFacts, <1>1, <2>2, ReplyTyped, GotoTyped DEF DropRow, Answer, HoldsCipher, HoldsMessage
  <2> QED
    BY <2>1, <2>3
<1>2. CASE DropKey(r)
  <2>1. StoreTyped'
    BY <1>2 DEF DropKey, KeysRemove, StoreTyped, NoKey
  <2>2. InFlight(r) /\ req[r].op = "deleteBucket"
    BY StepFacts, <1>2 DEF DropKey, At, InFlight, ReqTyped, WellFormed
  <2>3. ReqTyped'
    BY StepFacts, <1>2, <2>2, GotoTyped DEF DropKey, HoldsCipher, HoldsMessage
  <2> QED
    BY <2>1, <2>3
<1>3. CASE DropCipher(r)
  <2>1. StoreTyped'
    BY <1>3 DEF DropCipher, StoreTyped, NoKey
  <2>2. ReqTyped'
    BY <1>3, ReplyTyped DEF DropCipher, Answer
  <2> QED
    BY <2>1, <2>2
<1> QED
  BY <1>1, <1>2, <1>3

\* cipherFor leaves the handler with a data key or answers NoSuchBucket.
LEMMA TypeCipherFor ==
    ASSUME StoreTyped, ReqTyped, NEW r \in Request,
           \/ At(r, "putCipher") /\ CipherFor(r, "upload")
           \/ At(r, "getCipher") /\ CipherFor(r, "fetch")
    PROVE  StoreTyped' /\ ReqTyped'
<1> DEFINE b == req[r].bucket
<1>1. b \in Bucket
  BY StepFacts DEF At, ReqTyped, WellFormed
<1>2. CipherKey(b) \in DataKey \cup {NoKey}
  BY <1>1 DEF CipherKey, StoreTyped
<1>3. StoreTyped'
  BY <1>2 DEF CipherFor, StoreTyped
<1>4. ASSUME NEW step \in {"upload", "fetch"}, CipherKey(b) # NoKey, OpOf(step) = req[r].op,
             step = "fetch" => req[r].msg \in Message
      PROVE  WellFormed([req[r] EXCEPT !.pc = step, !.cipher = CipherKey(b)])
  BY StepFacts, <1>2, <1>4 DEF At, ReqTyped, WellFormed, RequestState, HoldsCipher, HoldsMessage
<1>5. At(r, "getCipher") => req[r].msg \in Message
  BY DEF At, ReqTyped, WellFormed, HoldsMessage
<1>6. /\ At(r, "putCipher") => OpOf("upload") = req[r].op
      /\ At(r, "getCipher") => OpOf("fetch") = req[r].op
  BY StepFacts DEF At, ReqTyped, WellFormed
<1>7. ReqTyped'
  <2>1. CASE CipherKey(b) = NoKey
    BY <2>1, ReplyTyped DEF CipherFor, Answer
  <2>2. CASE CipherKey(b) # NoKey
    BY <2>2, <1>4, <1>5, <1>6, BecomeTyped DEF CipherFor
  <2> QED
    BY <2>1, <2>2
<1> QED
  BY <1>3, <1>7

LEMMA SetRowTyped ==
    ASSUME StoreTyped, NEW b, NEW k, NEW m \in Message \cup {NoMessage}, SetRow(b, k, m)
    PROVE  /\ objects' \in [Bucket -> [Key -> Message \cup {NoMessage}]]
           /\ seen' \in [Request -> SUBSET (Message \cup {NoMessage})]
<1>1. objects' \in [Bucket -> [Key -> Message \cup {NoMessage}]]
  BY DEF SetRow, StoreTyped
<1>2. seen' \in [Request -> SUBSET (Message \cup {NoMessage})]
  BY DEF SetRow, StoreTyped
<1> QED
  BY <1>1, <1>2

LEMMA TypePut ==
    ASSUME StoreTyped, ReqTyped, NEW r \in Request,
           \/ PutCheck(r) \/ PutTooLarge(r) \/ Upload(r) \/ Commit(r) \/ Rollback(r)
    PROVE  StoreTyped' /\ ReqTyped'
<1>1. CASE PutCheck(r)
  <2>1. StoreTyped'
    BY <1>1 DEF PutCheck, StoreTyped, stores
  <2>2. InFlight(r) /\ req[r].op = "putObject"
    BY StepFacts, <1>1 DEF PutCheck, At, InFlight, ReqTyped, WellFormed
  <2>3. ReqTyped'
    BY StepFacts, <1>1, <2>2, ReplyTyped, GotoTyped DEF PutCheck, Answer, HoldsCipher, HoldsMessage
  <2> QED
    BY <2>1, <2>3
<1>2. CASE PutTooLarge(r)
  <2>1. StoreTyped'
    BY <1>2 DEF PutTooLarge, StoreTyped, stores
  <2>2. ReqTyped'
    BY <1>2, ReplyTyped DEF PutTooLarge, Answer
  <2> QED
    BY <2>1, <2>2
<1>3. CASE Upload(r)
  <2>1. req[r].cipher \in DataKey
    BY <1>3 DEF Upload, At, ReqTyped, WellFormed, HoldsCipher
  <2>2. StoreTyped'
    <3>1. CASE nextMessage \in Message /\ nextMessage' = nextMessage + 1
      <4>1. channel' \subseteq Message /\ sealedWith' \in [Message -> DataKey \cup {NoKey}]
        BY <1>3, <2>1, <3>1 DEF Upload, StoreTyped
      <4>2. nextMessage' \in 1..(MaxMessages + 1)
        BY <3>1, BoundAssumption DEF Message
      <4> QED
        BY <1>3, <4>1, <4>2 DEF Upload, StoreTyped
    <3>2. CASE UNCHANGED <<channel, sealedWith, nextMessage>>
      BY <1>3, <3>2 DEF Upload, StoreTyped
    <3> QED
      BY <1>3, <3>1, <3>2 DEF Upload
  <2>3. nextMessage \in Message =>
          WellFormed([req[r] EXCEPT !.pc = "commit", !.msg = nextMessage])
    <3>1. InFlight(r) /\ req[r].op = "putObject"
      BY StepFacts, <1>3 DEF Upload, At, InFlight, ReqTyped, WellFormed
    <3> QED
      BY <2>1, <3>1, StepFacts, HoldTyped
  <2>4. ReqTyped'
    BY <1>3, <2>3, ReplyTyped, BecomeTyped DEF Upload, Answer
  <2> QED
    BY <2>2, <2>4
<1>4. CASE Commit(r)
  <2>1. req[r].msg \in Message /\ InFlight(r) /\ req[r].op = "putObject"
    BY StepFacts, <1>4 DEF Commit, At, ReqTyped, WellFormed, HoldsMessage, InFlight
  <2>2. StoreTyped'
    BY <1>4, <2>1, SetRowTyped DEF Commit, StoreTyped
  <2>3. WellFormed([req[r] EXCEPT !.pc = "rollback", !.live = FALSE])
    BY StepFacts, <2>1 DEF InFlight, ReqTyped, WellFormed, RequestState, HoldsCipher
  <2>4. ReqTyped'
    BY StepFacts, <1>4, <2>1, <2>3, ReplyTyped, GotoTyped, BecomeTyped
       DEF Commit, Answer, HoldsCipher
  <2> QED
    BY <2>2, <2>4
<1>5. CASE Rollback(r)
  <2>1. StoreTyped'
    BY <1>5 DEF Rollback, BackendDelete, StoreTyped
  <2>2. ReqTyped'
    BY <1>5, ReplyTyped DEF Rollback, Answer
  <2> QED
    BY <2>1, <2>2
<1> QED
  BY <1>1, <1>2, <1>3, <1>4, <1>5

LEMMA TypeGet ==
    ASSUME StoreTyped, ReqTyped, NEW r \in Request, GetRow(r) \/ Fetch(r)
    PROVE  StoreTyped' /\ ReqTyped'
<1>1. CASE GetRow(r)
  <2> DEFINE m == objects[req[r].bucket][req[r].key]
  <2>1. StoreTyped'
    BY <1>1 DEF GetRow, StoreTyped, stores
  <2>2. m \in Message \cup {NoMessage}
    BY StepFacts, <1>1 DEF GetRow, At, StoreTyped, ReqTyped, WellFormed, ObjectOp
  <2>3. m # NoMessage => WellFormed([req[r] EXCEPT !.pc = "getCipher", !.msg = m])
    <3>1. InFlight(r) /\ req[r].op = "getObject"
      BY StepFacts, <1>1 DEF GetRow, At, InFlight, ReqTyped, WellFormed
    <3> HIDE DEF m
    <3> QED
      BY <2>2, <3>1, StepFacts, HoldTyped
  <2>4. ReqTyped'
    BY <1>1, <2>3, ReplyTyped, BecomeTyped DEF GetRow, Answer
  <2> QED
    BY <2>1, <2>4
<1>2. CASE Fetch(r)
  <2>1. req[r].msg \in Message
    BY <1>2 DEF Fetch, At, ReqTyped, WellFormed, HoldsMessage
  <2>2. StoreTyped'
    BY <1>2, <2>1 DEF Fetch, StoreTyped
  <2>3. ReqTyped'
    BY <1>2, ReplyTyped DEF Fetch, Answer
  <2> QED
    BY <2>2, <2>3
<1> QED
  BY <1>1, <1>2

LEMMA TypeDelete ==
    ASSUME StoreTyped, ReqTyped, NEW r \in Request,
           DeleteRow(r) \/ Evict(r) \/ DeleteMessage(r)
    PROVE  StoreTyped' /\ ReqTyped'
<1>1. CASE DeleteRow(r)
  <2> DEFINE m == objects[req[r].bucket][req[r].key]
  <2>1. m \in Message \cup {NoMessage}
    BY StepFacts, <1>1 DEF DeleteRow, At, StoreTyped, ReqTyped, WellFormed, ObjectOp
  <2>2. StoreTyped'
    BY <1>1, SetRowTyped DEF DeleteRow, StoreTyped
  <2>3. m # NoMessage => WellFormed([req[r] EXCEPT !.pc = "evict", !.msg = m])
    <3>1. InFlight(r) /\ req[r].op = "deleteObject"
      BY StepFacts, <1>1 DEF DeleteRow, At, InFlight, ReqTyped, WellFormed
    <3> HIDE DEF m
    <3> QED
      BY <2>1, <3>1, StepFacts, HoldTyped
  <2>4. ReqTyped'
    BY <1>1, <2>3, ReplyTyped, BecomeTyped DEF DeleteRow, Answer
  <2> QED
    BY <2>2, <2>4
<1>2. CASE Evict(r)
  <2>1. StoreTyped'
    BY <1>2 DEF Evict, StoreTyped
  <2>2. /\ InFlight(r) /\ req[r].op = "deleteObject"
        /\ req[r].msg \in Message
    BY StepFacts, <1>2 DEF Evict, At, InFlight, ReqTyped, WellFormed, HoldsMessage
  <2>3. ReqTyped'
    BY StepFacts, <1>2, <2>2, GotoTyped DEF Evict, HoldsCipher
  <2> QED
    BY <2>1, <2>3
<1>3. CASE DeleteMessage(r)
  <2>1. StoreTyped'
    BY <1>3 DEF DeleteMessage, BackendDelete, StoreTyped
  <2>2. ReqTyped'
    BY <1>3, ReplyTyped DEF DeleteMessage, Answer
  <2> QED
    BY <2>1, <2>2
<1> QED
  BY <1>1, <1>2, <1>3

LEMMA IdleTyped == WellFormed(Idle)
  BY StepFacts DEF WellFormed, Idle, RequestState, HoldsCipher, HoldsMessage, NoKey, NoMessage

LEMMA FirstStepFacts ==
    ASSUME NEW op \in Operation
    PROVE  /\ FirstStep(op) \in Step \ (HoldsCipher \cup HoldsMessage \cup {"createUndo"})
           /\ OpOf(FirstStep(op)) = op
  BY StepFacts DEF FirstStep, Operation, BucketOp, ObjectOp, HoldsCipher, HoldsMessage

LEMMA BeginTyped ==
    ASSUME StoreTyped, ReqTyped, NEW r \in Request,
           NEW op \in Operation, NEW b \in Bucket, NEW k \in Key \cup {None},
           op \in ObjectOp => k \in Key, Begin(r, op, b, k)
    PROVE  ReqTyped'
<1> DEFINE q == [Idle EXCEPT !.pc = FirstStep(op), !.op = op, !.bucket = b, !.key = k]
<1>1. q.pc = FirstStep(op) /\ q.op = op /\ q.bucket = b /\ q.key = k
  BY DEF Idle
<1>2. q \in RequestState
  BY FirstStepFacts, IdleTyped DEF RequestState, Idle, WellFormed
<1>3. WellFormed(q)
  BY <1>1, <1>2, StepFacts, FirstStepFacts DEF WellFormed, Begin, HoldsCipher, HoldsMessage
<1> QED
  BY <1>3, BecomeTyped DEF Begin

LEMMA TypeClient ==
    ASSUME StoreTyped, ReqTyped, NEW r \in Request,
           BeginBucketOp(r) \/ BeginObjectOp(r) \/ Finish(r) \/ Cancel(r)
    PROVE  StoreTyped' /\ ReqTyped'
<1>1. CASE BeginBucketOp(r)
  <2>1. StoreTyped'
    BY <1>1 DEF BeginBucketOp, Begin, StoreTyped, stores
  <2>2. ReqTyped'
    BY <1>1, BeginTyped DEF BeginBucketOp, Operation, BucketOp, ObjectOp
  <2> QED
    BY <2>1, <2>2
<1>2. CASE BeginObjectOp(r)
  <2>1. PICK op \in ObjectOp, b \in Bucket, k \in Key :
          /\ Begin(r, op, b, k)
          /\ seen' = [seen EXCEPT ![r] = IF op = "getObject" THEN {objects[b][k]} ELSE {}]
    BY <1>2 DEF BeginObjectOp
  <2>2. StoreTyped'
    BY <2>1 DEF Begin, StoreTyped, stores
  <2>3. ReqTyped'
    BY <2>1, BeginTyped DEF Operation
  <2> QED
    BY <2>2, <2>3
<1>3. CASE Finish(r)
  <2>1. StoreTyped'
    BY <1>3 DEF Finish, StoreTyped, stores
  <2>2. ReqTyped'
    BY <1>3, IdleTyped, BecomeTyped DEF Finish
  <2> QED
    BY <2>1, <2>2
<1>4. CASE Cancel(r)
  <2>1. StoreTyped'
    BY <1>4 DEF Cancel, StoreTyped, stores
  <2>2. WellFormed([req[r] EXCEPT !.live = FALSE])
    BY DEF ReqTyped, WellFormed, RequestState
  <2>3. ReqTyped'
    BY <1>4, <2>2, BecomeTyped DEF Cancel
  <2> QED
    BY <2>1, <2>3
<1> QED
  BY <1>1, <1>2, <1>3, <1>4

LEMMA TypeSurroundings ==
    ASSUME StoreTyped, ReqTyped, LruEvict \/ Crash
    PROVE  StoreTyped' /\ ReqTyped'
<1>1. CASE LruEvict
  BY <1>1 DEF LruEvict, StoreTyped, ReqTyped, WellFormed
<1>2. CASE Crash
  <2>1. StoreTyped'
    BY <1>2 DEF Crash, StoreTyped, NoKey
  <2>2. ReqTyped'
    BY <1>2, IdleTyped DEF Crash, ReqTyped, WellFormed
  <2> QED
    BY <2>1, <2>2
<1> QED
  BY <1>1, <1>2

LEMMA TypeStutter ==
    ASSUME StoreTyped, ReqTyped, UNCHANGED vars
    PROVE  StoreTyped' /\ ReqTyped'
  BY DEF vars, StoreTyped, ReqTyped, WellFormed

LEMMA TypeNext == TypeOK /\ [Next]_vars => TypeOK'
<1> SUFFICES ASSUME StoreTyped, ReqTyped, [Next]_vars PROVE StoreTyped' /\ ReqTyped'
  BY TypeSplit DEF StoreTyped, ReqTyped, TypeOK, WellFormed, InFlight, HoldsCipher, HoldsMessage
<1>1. ASSUME NEW r \in Request, RequestStep(r) PROVE StoreTyped' /\ ReqTyped'
  BY <1>1, TypeKeys, TypeDropBucket, TypeCipherFor, TypePut, TypeGet, TypeDelete
     DEF RequestStep, PutCipher, GetCipher
<1> QED
  BY <1>1, TypeClient, TypeSurroundings, TypeStutter DEF Next

\* Type correctness: in particular every handler that encrypts, commits, fetches
\* or deletes holds the cipher or the message reference that the step uses.
THEOREM TypeCorrect == Spec => []TypeOK
  BY TypeInit, TypeNext, PTL DEF Spec

-----------------------------------------------------------------------------
(* Messages: who may refer to one, and who may still delete it *)

Holding(r) == req[r].pc \in HoldsMessage

\* The upload is not in the metadata and a rollback can still delete it.
Uncommitted(r) == At(r, "commit") \/ (At(r, "rollback") /\ req[r].live)

\* The row is gone and the message is to follow.
Deleting(r) == req[r].pc \in {"evict", "deleteMessage"}

MessagesSent ==
    /\ \A m \in channel : m < nextMessage
    /\ \A b \in Bucket, k \in Key : objects[b][k] < nextMessage
    /\ \A r \in Request : Holding(r) => req[r].msg < nextMessage

RowsOwnMessages ==
    \A b1, b2 \in Bucket, k1, k2 \in Key :
        objects[b1][k1] = objects[b2][k2] /\ objects[b1][k1] # NoMessage
            => b1 = b2 /\ k1 = k2

UploadPrivate ==
    \A r \in Request : Uncommitted(r) =>
        /\ \A b \in Bucket, k \in Key : objects[b][k] # req[r].msg
        /\ \A s \in Request \ {r} : Holding(s) => req[s].msg # req[r].msg

CommitSent == \A r \in Request : At(r, "commit") => req[r].msg \in channel

DeletingUnreferenced ==
    \A r \in Request : Deleting(r) =>
        \A b \in Bucket, k \in Key : objects[b][k] # req[r].msg

\* What a GET has found, as long as it has not answered.
ReadersSee ==
    \A r \in Request : Reading(r) => objects[req[r].bucket][req[r].key] \in seen[r]

ReadersHold ==
    \A r \in Request : req[r].pc \in {"getCipher", "fetch"} =>
        /\ req[r].msg \in seen[r]
        /\ req[r].msg \in channel \/ NoMessage \in seen[r]
        /\ \A s \in Request : Deleting(s) /\ req[s].msg = req[r].msg
                                => NoMessage \in seen[r]
        /\ \A b \in Bucket, k \in Key : objects[b][k] = req[r].msg
                                => b = req[r].bucket /\ k = req[r].key

MessageInv ==
    /\ TypeOK /\ MessagesSent /\ RowsOwnMessages /\ UploadPrivate /\ CommitSent
    /\ DeletingUnreferenced /\ ReadersSee /\ ReadersHold
    /\ NoDanglingRow /\ GetAnswersTruly

LEMMA MessageInit == Init => MessageInv
<1> SUFFICES ASSUME Init PROVE MessageInv
  OBVIOUS
<1>1. TypeOK
  BY TypeInit
<1>2. \A r \in Request : req[r] = Idle
  BY DEF Init
<1>3. Idle.pc = "idle"
  BY DEF Idle
<1>4. MessagesSent /\ RowsOwnMessages /\ NoDanglingRow
  BY <1>2, <1>3 DEF Init, MessagesSent, RowsOwnMessages, NoDanglingRow, NoMessage, Holding,
                    HoldsMessage
<1>5. UploadPrivate /\ CommitSent /\ DeletingUnreferenced
  BY <1>2, <1>3 DEF UploadPrivate, Uncommitted, CommitSent, DeletingUnreferenced, Deleting, At
<1>6. ReadersSee /\ ReadersHold /\ GetAnswersTruly
  BY <1>2, <1>3, StepFacts DEF ReadersSee, Reading, InFlight, ReadersHold, GetAnswersTruly, Answered
<1> QED
  BY <1>1, <1>4, <1>5, <1>6 DEF MessageInv

LEMMA Numbers ==
    ASSUME TypeOK
    PROVE  /\ nextMessage \in Nat
           /\ Message \subseteq Nat
           /\ \A b \in Bucket, k \in Key : objects[b][k] \in Nat
           /\ \A r \in Request : req[r].msg \in Nat
<1>1. nextMessage \in Nat
  BY BoundAssumption DEF TypeOK
<1>2. Message \cup {NoMessage} \subseteq Nat
  BY BoundAssumption DEF Message, NoMessage
<1>3. \A b \in Bucket, k \in Key : objects[b][k] \in Message \cup {NoMessage}
  BY DEF TypeOK
<1>4. \A r \in Request : req[r].msg \in Message \cup {NoMessage}
  BY DEF TypeOK, RequestState
<1> QED
  BY <1>1, <1>2, <1>3, <1>4

\* Most steps leave the rows alone, send at most new messages, and give the
\* handler no message it did not hold before.
LEMMA QuietStep ==
    ASSUME MessageInv, TypeOK', NEW r \in Request, NEW q, Become(r, q),
           UNCHANGED <<objects, seen>>,
           nextMessage <= nextMessage', channel \subseteq channel',
           \A m \in channel' : m < nextMessage',
           q.pc \in HoldsMessage => Holding(r) /\ q.msg = req[r].msg,
           q.pc = "commit" => At(r, "commit"),
           q.pc = "rollback" /\ q.live => Uncommitted(r),
           q.pc \in {"evict", "deleteMessage"} => Deleting(r),
           q.pc \in {"getCipher", "fetch"} => req[r].pc \in {"getCipher", "fetch"},
           q.pc \in Step /\ q.op = "getObject"
                => Reading(r) /\ q.bucket = req[r].bucket /\ q.key = req[r].key,
           q.pc = "replied" /\ q.op = "getObject" /\ q.answer = "ok" => q.msg \in seen[r],
           q.pc = "replied" /\ q.op = "getObject" /\ q.answer = "NoSuchKey"
                => NoMessage \in seen[r]
    PROVE  MessageInv'
<1>1. /\ req'[r] = q
      /\ \A s \in Request \ {r} : req'[s] = req[s]
  BY DEF Become, MessageInv, TypeOK
<1>2. nextMessage' \in Nat
  BY BoundAssumption DEF TypeOK
<1>3. MessagesSent'
  BY <1>1, <1>2, Numbers DEF MessageInv, MessagesSent, Holding
<1>4. RowsOwnMessages' /\ NoDanglingRow'
  BY DEF MessageInv, RowsOwnMessages, NoDanglingRow
<1>5. UploadPrivate'
  <2> SUFFICES ASSUME NEW s \in Request, Uncommitted(s)'
               PROVE  /\ \A b \in Bucket, k \in Key : objects[b][k] # req'[s].msg
                      /\ \A x \in Request \ {s} : Holding(x)' => req'[x].msg # req'[s].msg
    BY DEF UploadPrivate
  <2>1. Uncommitted(s) /\ req'[s].msg = req[s].msg
    BY <1>1 DEF Uncommitted, At, HoldsMessage
  <2>2. \A x \in Request : Holding(x)' => Holding(x) /\ req'[x].msg = req[x].msg
    BY <1>1 DEF Holding
  <2> QED
    BY <2>1, <2>2 DEF MessageInv, UploadPrivate
<1>6. CommitSent'
  BY <1>1 DEF MessageInv, CommitSent, At, HoldsMessage
<1>7. DeletingUnreferenced'
  BY <1>1 DEF MessageInv, DeletingUnreferenced, Deleting, HoldsMessage
<1>8. ReadersSee'
  BY <1>1 DEF MessageInv, ReadersSee, Reading, InFlight
<1>9. ReadersHold'
  <2> SUFFICES ASSUME NEW s \in Request, req'[s].pc \in {"getCipher", "fetch"}
               PROVE  /\ req'[s].msg \in seen[s]
                      /\ req'[s].msg \in channel' \/ NoMessage \in seen[s]
                      /\ \A x \in Request : Deleting(x)' /\ req'[x].msg = req'[s].msg
                                              => NoMessage \in seen[s]
                      /\ \A b \in Bucket, k \in Key : objects[b][k] = req'[s].msg
                             => b = req'[s].bucket /\ k = req'[s].key
    BY DEF ReadersHold
  <2>1. /\ req[s].pc \in {"getCipher", "fetch"} /\ req'[s].msg = req[s].msg
        /\ req'[s].bucket = req[s].bucket /\ req'[s].key = req[s].key
    <3>1. CASE s = r
      <4>1. q.pc \in Step /\ q.op = "getObject"
        BY <1>1, <3>1, StepFacts, TypeSplit DEF TypeOK, InFlight
      <4> QED
        BY <1>1, <3>1, <4>1 DEF HoldsMessage
    <3>2. CASE s # r
      BY <1>1, <3>2
    <3> QED
      BY <3>1, <3>2
  <2>2. \A x \in Request : Deleting(x)' => Deleting(x) /\ req'[x].msg = req[x].msg
    BY <1>1 DEF Deleting, HoldsMessage
  <2> QED
    BY <2>1, <2>2 DEF MessageInv, ReadersHold
<1>10. GetAnswersTruly'
  BY <1>1 DEF MessageInv, GetAnswersTruly, Answered
<1> QED
  BY <1>3, <1>4, <1>5, <1>6, <1>7, <1>8, <1>9, <1>10 DEF MessageInv

SameMessages == UNCHANGED <<objects, channel, nextMessage, seen>>

LEMMA SameIsQuiet ==
    ASSUME MessageInv, SameMessages
    PROVE  /\ UNCHANGED <<objects, seen>>
           /\ nextMessage <= nextMessage' /\ channel \subseteq channel'
           /\ \A m \in channel' : m < nextMessage'
  BY Numbers DEF MessageInv, MessagesSent, SameMessages

LEMMA QuietReply ==
    ASSUME MessageInv, TypeOK', NEW r \in Request, NEW answer, Reply(r, answer),
           UNCHANGED <<objects, seen>>,
           nextMessage <= nextMessage', channel \subseteq channel',
           \A m \in channel' : m < nextMessage',
           req[r].op = "getObject" /\ answer = "ok" => req[r].msg \in seen[r],
           req[r].op = "getObject" /\ answer = "NoSuchKey" => NoMessage \in seen[r]
    PROVE  MessageInv'
<1> DEFINE q == [req[r] EXCEPT !.pc = "replied", !.answer = answer,
                               !.cipher = NoKey, !.live = TRUE]
<1>1. /\ q.pc = "replied" /\ q.answer = answer
      /\ q.op = req[r].op /\ q.msg = req[r].msg
  BY DEF MessageInv, TypeOK, RequestState
<1>2. Become(r, q)
  BY DEF Reply
<1> HIDE DEF q
<1> QED
  BY <1>1, <1>2, QuietStep, StepFacts DEF HoldsMessage

LEMMA QuietGoto ==
    ASSUME MessageInv, TypeOK', NEW r \in Request, NEW step, Goto(r, step), SameMessages,
           InFlight(r), step # "commit",
           step \in HoldsMessage => Holding(r),
           step = "rollback" => At(r, "commit"),
           step \in {"evict", "deleteMessage"} => Deleting(r),
           step \in {"getCipher", "fetch"} => req[r].pc \in {"getCipher", "fetch"},
           step # "replied"
    PROVE  MessageInv'
<1> DEFINE q == [req[r] EXCEPT !.pc = step]
<1>1. /\ q.pc = step /\ q.op = req[r].op /\ q.msg = req[r].msg
      /\ q.bucket = req[r].bucket /\ q.key = req[r].key
  BY DEF MessageInv, TypeOK, RequestState
<1>2. Become(r, q)
  BY DEF Goto
<1> HIDE DEF q
<1> QED
  BY <1>1, <1>2, QuietStep, SameIsQuiet DEF Reading, Uncommitted

LEMMA MessageBuckets ==
    ASSUME MessageInv, TypeOK', NEW r \in Request,
           \/ CreateKey(r) \/ CreateRow(r) \/ CreateUndo(r)
           \/ DropRow(r) \/ DropKey(r) \/ DropCipher(r)
    PROVE  MessageInv'
<1>1. SameMessages
  BY DEF CreateKey, CreateRow, CreateUndo, DropRow, DropKey, DropCipher, SameMessages
<1>2. InFlight(r) /\ req[r].op # "getObject"
  BY StepFacts DEF MessageInv, TypeOK, InFlight, At,
         CreateKey, CreateRow, CreateUndo, DropRow, DropKey, DropCipher
<1>3. ASSUME NEW answer, Reply(r, answer) PROVE MessageInv'
  BY <1>1, <1>2, <1>3, QuietReply, SameIsQuiet
<1>4. ASSUME NEW step \in {"createRow", "dropKey", "dropCipher"}, Goto(r, step) PROVE MessageInv'
  BY <1>1, <1>2, <1>4, QuietGoto DEF HoldsMessage
<1>5. ASSUME NEW answer, NEW live,
             Become(r, [req[r] EXCEPT !.pc = "createUndo", !.answer = answer, !.live = live])
      PROVE  MessageInv'
  <2> DEFINE q == [req[r] EXCEPT !.pc = "createUndo", !.answer = answer, !.live = live]
  <2>1. q.pc = "createUndo" /\ q.op = req[r].op
    BY DEF MessageInv, TypeOK, RequestState
  <2>2. Become(r, q)
    BY <1>5
  <2> HIDE DEF q
  <2> QED
    BY <1>1, <1>2, <2>1, <2>2, QuietStep, SameIsQuiet DEF HoldsMessage
<1>6. CASE CreateKey(r)
  BY <1>3, <1>4, <1>6 DEF CreateKey
<1>7. CASE CreateRow(r)
  BY <1>3, <1>5, <1>7 DEF CreateRow
<1>8. CASE CreateUndo(r)
  BY <1>3, <1>8 DEF CreateUndo
<1>9. CASE DropRow(r)
  BY <1>3, <1>4, <1>9 DEF DropRow
<1>10. CASE DropKey(r)
  BY <1>4, <1>10 DEF DropKey
<1>11. CASE DropCipher(r)
  BY <1>3, <1>11 DEF DropCipher
<1> QED
  BY <1>6, <1>7, <1>8, <1>9, <1>10, <1>11

\* cipherFor: the handler keeps the message it holds, if any.
LEMMA MessageCipherFor ==
    ASSUME MessageInv, TypeOK', NEW r \in Request, PutCipher(r) \/ GetCipher(r)
    PROVE  MessageInv'
<1>1. SameMessages /\ InFlight(r)
  BY StepFacts DEF PutCipher, GetCipher, CipherFor, SameMessages, At, InFlight
<1>2. ASSUME Reply(r, "NoSuchBucket") PROVE MessageInv'
  BY <1>1, <1>2, QuietReply, SameIsQuiet
<1>3. ASSUME NEW step, NEW cipher, Become(r, [req[r] EXCEPT !.pc = step, !.cipher = cipher]),
             \/ At(r, "putCipher") /\ step = "upload"
             \/ At(r, "getCipher") /\ step = "fetch"
      PROVE  MessageInv'
  <2> DEFINE q == [req[r] EXCEPT !.pc = step, !.cipher = cipher]
  <2>1. /\ q.pc = step /\ q.op = req[r].op /\ q.msg = req[r].msg
        /\ q.bucket = req[r].bucket /\ q.key = req[r].key
    BY DEF MessageInv, TypeOK, RequestState
  <2>2. Become(r, q)
    BY <1>3
  <2> HIDE DEF q
  <2> QED
    BY <1>1, <1>3, <2>1, <2>2, QuietStep, SameIsQuiet DEF HoldsMessage, Reading, At, Holding
<1> QED
  BY <1>2, <1>3 DEF PutCipher, GetCipher, CipherFor

LEMMA MessagePutCheck ==
    ASSUME MessageInv, TypeOK', NEW r \in Request, PutCheck(r) \/ PutTooLarge(r)
    PROVE  MessageInv'
<1>1. SameMessages
  BY DEF PutCheck, PutTooLarge, stores, SameMessages
<1>2. InFlight(r) /\ req[r].op # "getObject"
  BY StepFacts DEF MessageInv, TypeOK, InFlight, At, PutCheck, PutTooLarge
<1>3. ASSUME NEW answer, Reply(r, answer) PROVE MessageInv'
  BY <1>1, <1>2, <1>3, QuietReply, SameIsQuiet
<1>4. ASSUME Goto(r, "putCipher") PROVE MessageInv'
  BY <1>1, <1>2, <1>4, QuietGoto DEF HoldsMessage
<1> QED
  BY <1>3, <1>4 DEF PutCheck, PutTooLarge

\* A handler that goes on holding a message it has just found or sent.
Hold(r, step, m) == Become(r, [req[r] EXCEPT !.pc = step, !.msg = m])

LEMMA HoldEffect ==
    ASSUME TypeOK, NEW r \in Request, NEW step, NEW m, Hold(r, step, m)
    PROVE  /\ req'[r].pc = step /\ req'[r].msg = m /\ req'[r].op = req[r].op
           /\ req'[r].bucket = req[r].bucket /\ req'[r].key = req[r].key
           /\ \A s \in Request \ {r} : req'[s] = req[s]
<1> DEFINE q == [req[r] EXCEPT !.pc = step, !.msg = m]
<1>1. req[r] \in RequestState
  BY DEF TypeOK
<1>2. /\ q.pc = step /\ q.msg = m /\ q.op = req[r].op
      /\ q.bucket = req[r].bucket /\ q.key = req[r].key
  BY <1>1 DEF RequestState
<1> HIDE DEF q
<1>3. req'[r] = q /\ \A s \in Request \ {r} : req'[s] = req[s]
  BY DEF Hold, Become, TypeOK, q
<1> QED
  BY <1>2, <1>3

\* The message that an upload has just sent is known to no one else.
LEMMA MessageUploaded ==
    ASSUME MessageInv, TypeOK', NEW r \in Request, At(r, "upload"), nextMessage \in Message,
           channel' = channel \cup {nextMessage}, nextMessage' = nextMessage + 1,
           UNCHANGED <<objects, seen>>, Hold(r, "commit", nextMessage)
    PROVE  MessageInv'
<1> DEFINE m == nextMessage
<1>1. /\ req'[r].pc = "commit" /\ req'[r].msg = m
      /\ \A s \in Request \ {r} : req'[s] = req[s]
  BY HoldEffect DEF MessageInv
<1>2. /\ m \in Nat /\ m # NoMessage
      /\ \A x \in channel : x \in Nat
  BY Numbers, BoundAssumption DEF MessageInv, TypeOK, Message, NoMessage
<1>3. /\ \A b \in Bucket, k \in Key : objects[b][k] < m
      /\ \A s \in Request : Holding(s) => req[s].msg < m
      /\ \A x \in channel : x < m
  BY DEF MessageInv, MessagesSent
<1>4. /\ \A b \in Bucket, k \in Key : objects[b][k] # m
      /\ \A s \in Request : Holding(s) => req[s].msg # m
  BY <1>2, <1>3, Numbers DEF MessageInv
<1>5. MessagesSent'
  BY <1>1, <1>2, <1>3, Numbers DEF MessageInv, MessagesSent, Holding
<1>6. RowsOwnMessages' /\ NoDanglingRow'
  BY DEF MessageInv, RowsOwnMessages, NoDanglingRow
<1>7. UploadPrivate'
  <2> SUFFICES ASSUME NEW s \in Request, Uncommitted(s)'
               PROVE  /\ \A b \in Bucket, k \in Key : objects[b][k] # req'[s].msg
                      /\ \A x \in Request \ {s} : Holding(x)' => req'[x].msg # req'[s].msg
    BY DEF UploadPrivate
  <2>1. CASE s = r
    BY <1>1, <1>4, <2>1 DEF Holding
  <2>2. CASE s # r
    <3>1. Uncommitted(s) /\ req'[s] = req[s] /\ Holding(s)
      BY <1>1, <2>2 DEF Uncommitted, At, Holding, HoldsMessage
    <3> QED
      BY <1>1, <1>4, <3>1 DEF MessageInv, UploadPrivate, Holding
  <2> QED
    BY <2>1, <2>2
<1>8. CommitSent'
  BY <1>1 DEF MessageInv, CommitSent, At
<1>9. DeletingUnreferenced'
  BY <1>1 DEF MessageInv, DeletingUnreferenced, Deleting
<1>10. req'[r].op = req[r].op /\ req[r].op = "putObject"
  BY HoldEffect, StepFacts DEF At, InFlight, MessageInv, TypeOK
<1>11. ReadersSee'
  BY <1>1, <1>10 DEF MessageInv, ReadersSee, Reading, InFlight
<1>12. ReadersHold'
  BY <1>1 DEF MessageInv, ReadersHold, Deleting
<1>13. GetAnswersTruly'
  BY <1>1 DEF MessageInv, GetAnswersTruly, Answered
<1> QED
  BY <1>5, <1>6, <1>7, <1>8, <1>9, <1>11, <1>12, <1>13 DEF MessageInv

LEMMA MessageUpload ==
    ASSUME MessageInv, TypeOK', NEW r \in Request, Upload(r)
    PROVE  MessageInv'
<1>1. At(r, "upload") /\ UNCHANGED <<objects, seen>>
  BY DEF Upload
<1>2. req[r].op = "putObject"
  BY <1>1, StepFacts DEF MessageInv, TypeOK, InFlight, At
<1>3. CASE /\ nextMessage \in Message
           /\ channel' = channel \cup {nextMessage} /\ nextMessage' = nextMessage + 1
           /\ Hold(r, "commit", nextMessage)
  BY <1>1, <1>3, MessageUploaded
<1>4. CASE /\ nextMessage \in Message
           /\ channel' = channel \cup {nextMessage} /\ nextMessage' = nextMessage + 1
           /\ Reply(r, "error")
  <2>1. /\ nextMessage <= nextMessage' /\ channel \subseteq channel'
        /\ \A m \in channel' : m < nextMessage'
    <3>1. \A m \in channel : m \in Nat /\ m < nextMessage
      BY Numbers DEF MessageInv, MessagesSent, TypeOK
    <3> QED
      BY <1>4, <3>1, Numbers DEF MessageInv
  <2> QED
    BY <1>1, <1>2, <1>4, <2>1, QuietReply
<1>5. CASE Reply(r, "error") /\ UNCHANGED <<channel, nextMessage>>
  <2>1. SameMessages
    BY <1>1, <1>5 DEF SameMessages
  <2> QED
    BY <1>1, <1>2, <1>5, <2>1, QuietReply, SameIsQuiet
<1> QED
  BY <1>3, <1>4, <1>5 DEF Upload, Hold

\* What an upsert or a deletion does to the rows and to the history of GETs.
LEMMA SetRowEffect ==
    ASSUME TypeOK, NEW b \in Bucket, NEW k \in Key, NEW m, SetRow(b, k, m)
    PROVE  /\ objects'[b][k] = m
           /\ \A b1 \in Bucket, k1 \in Key :
                  b1 # b \/ k1 # k => objects'[b1][k1] = objects[b1][k1]
           /\ \A r \in Request : Reading(r) /\ req[r].bucket = b /\ req[r].key = k
                                  => seen'[r] = seen[r] \cup {m}
           /\ \A r \in Request : seen[r] \subseteq seen'[r]
           /\ \A r \in Request : ~Reading(r) => seen'[r] = seen[r]
<1>1. /\ objects'[b][k] = m
      /\ \A b1 \in Bucket, k1 \in Key :
            b1 # b \/ k1 # k => objects'[b1][k1] = objects[b1][k1]
  BY DEF SetRow, TypeOK
<1> QED
  BY <1>1 DEF SetRow

\* The row takes over the message of an upload; the handler answers "ok", or
\* sees its context cancelled and is left with a rollback that cannot delete.
LEMMA MessageCommitted ==
    ASSUME MessageInv, TypeOK', NEW r \in Request, NEW q, Become(r, q), At(r, "commit"),
           SetRow(req[r].bucket, req[r].key, req[r].msg),
           UNCHANGED <<channel, nextMessage>>,
           q.op = req[r].op, q.msg = req[r].msg,
           q.pc = "replied" \/ (q.pc = "rollback" /\ ~q.live)
    PROVE  MessageInv'
<1> DEFINE b == req[r].bucket
           k == req[r].key
           m == req[r].msg
<1>1. /\ req'[r] = q
      /\ \A s \in Request \ {r} : req'[s] = req[s]
  BY DEF Become, MessageInv, TypeOK
<1>2. /\ b \in Bucket /\ k \in Key /\ m \in Message
      /\ req[r].op = "putObject" /\ Uncommitted(r) /\ Holding(r) /\ ~Reading(r)
  BY StepFacts DEF MessageInv, TypeOK, InFlight, At, ObjectOp, Uncommitted, Holding, HoldsMessage,
                   Reading
<1>3. /\ objects'[b][k] = m
      /\ \A b1 \in Bucket, k1 \in Key : b1 # b \/ k1 # k => objects'[b1][k1] = objects[b1][k1]
  BY <1>2, SetRowEffect DEF MessageInv
<1>4. /\ \A s \in Request : Reading(s) /\ req[s].bucket = b /\ req[s].key = k
                               => seen'[s] = seen[s] \cup {m}
      /\ \A s \in Request : seen[s] \subseteq seen'[s]
  BY <1>2, SetRowEffect DEF MessageInv
<1>5. /\ \A b1 \in Bucket, k1 \in Key : objects[b1][k1] # m
      /\ \A s \in Request \ {r} : Holding(s) => req[s].msg # m
  BY <1>2 DEF MessageInv, UploadPrivate
<1>6. m < nextMessage /\ m \in channel
  BY <1>2 DEF MessageInv, MessagesSent, CommitSent
<1>7. \A s \in Request : /\ Holding(s)' => Holding(s) /\ req'[s].msg = req[s].msg
                         /\ Uncommitted(s)' => s # r /\ Uncommitted(s)
                         /\ Deleting(s)' => s # r /\ Deleting(s)
  BY <1>1, <1>2 DEF Holding, Uncommitted, Deleting, At, HoldsMessage
<1>8. MessagesSent'
  BY <1>3, <1>6, <1>7 DEF MessageInv, MessagesSent
<1>9. RowsOwnMessages'
  BY <1>3, <1>5 DEF MessageInv, RowsOwnMessages
<1>10. NoDanglingRow'
  BY <1>3, <1>6 DEF MessageInv, NoDanglingRow
<1>11. UploadPrivate'
  <2> SUFFICES ASSUME NEW s \in Request, Uncommitted(s)'
               PROVE  /\ \A b1 \in Bucket, k1 \in Key : objects'[b1][k1] # req'[s].msg
                      /\ \A x \in Request \ {s} : Holding(x)' => req'[x].msg # req'[s].msg
    BY DEF UploadPrivate
  <2>1. s # r /\ Uncommitted(s) /\ Holding(s) /\ req'[s].msg = req[s].msg
    BY <1>1, <1>7 DEF Uncommitted, At, Holding, HoldsMessage
  <2>2. \A b1 \in Bucket, k1 \in Key : objects[b1][k1] # req[s].msg
    BY <2>1 DEF MessageInv, UploadPrivate
  <2>3. \A x \in Request \ {s} : Holding(x) => req[x].msg # req[s].msg
    BY <2>1 DEF MessageInv, UploadPrivate
  <2> QED
    BY <1>3, <1>5, <1>7, <2>1, <2>2, <2>3
<1>12. CommitSent'
  BY <1>1 DEF MessageInv, CommitSent, At
<1>13. DeletingUnreferenced'
  <2> SUFFICES ASSUME NEW s \in Request, Deleting(s)'
               PROVE  \A b1 \in Bucket, k1 \in Key : objects'[b1][k1] # req'[s].msg
    BY DEF DeletingUnreferenced
  <2>1. s # r /\ Deleting(s) /\ Holding(s) /\ req'[s].msg = req[s].msg
    BY <1>1, <1>7 DEF Deleting, Holding, HoldsMessage
  <2> QED
    BY <1>3, <1>5, <2>1 DEF MessageInv, DeletingUnreferenced
<1>14. ReadersSee'
  <2> SUFFICES ASSUME NEW s \in Request, Reading(s)'
               PROVE  objects'[req'[s].bucket][req'[s].key] \in seen'[s]
    BY DEF ReadersSee
  <2>1. s # r /\ req'[s] = req[s] /\ Reading(s)
    BY <1>1, <1>2 DEF Reading, InFlight
  <2>2. req[s].bucket \in Bucket /\ req[s].key \in Key
    BY <2>1 DEF MessageInv, TypeOK, Reading, ObjectOp
  <2>3. objects[req[s].bucket][req[s].key] \in seen[s]
    BY <2>1 DEF MessageInv, ReadersSee
  <2> QED
    BY <1>3, <1>4, <2>1, <2>2, <2>3
<1>15. ReadersHold'
  <2> SUFFICES ASSUME NEW s \in Request, req'[s].pc \in {"getCipher", "fetch"}
               PROVE  /\ req'[s].msg \in seen'[s]
                      /\ req'[s].msg \in channel \/ NoMessage \in seen'[s]
                      /\ \A x \in Request : Deleting(x)' /\ req'[x].msg = req'[s].msg
                                              => NoMessage \in seen'[s]
                      /\ \A b1 \in Bucket, k1 \in Key : objects'[b1][k1] = req'[s].msg
                             => b1 = req'[s].bucket /\ k1 = req'[s].key
    BY DEF ReadersHold
  <2>1. s # r /\ req'[s] = req[s] /\ Holding(s) /\ req[s].pc \in {"getCipher", "fetch"}
    BY <1>1 DEF Holding, HoldsMessage
  <2>2. req[s].msg # m
    BY <1>5, <2>1
  <2>3. \A x \in Request : Deleting(x)' => Deleting(x) /\ req'[x].msg = req[x].msg
    BY <1>1, <1>7
  <2> QED
    BY <1>3, <1>4, <2>1, <2>2, <2>3 DEF MessageInv, ReadersHold
<1>16. GetAnswersTruly'
  BY <1>1, <1>2, <1>4 DEF MessageInv, GetAnswersTruly, Answered
<1> QED
  BY <1>8, <1>9, <1>10, <1>11, <1>12, <1>13, <1>14, <1>15, <1>16 DEF MessageInv

LEMMA MessageCommit ==
    ASSUME MessageInv, TypeOK', NEW r \in Request, Commit(r)
    PROVE  MessageInv'
<1> DEFINE ok == [req[r] EXCEPT !.pc = "replied", !.answer = "ok",
                                !.cipher = NoKey, !.live = TRUE]
           cut == [req[r] EXCEPT !.pc = "rollback", !.live = FALSE]
<1>1. /\ ok.pc = "replied" /\ ok.op = req[r].op /\ ok.msg = req[r].msg
      /\ cut.pc = "rollback" /\ ~cut.live /\ cut.op = req[r].op /\ cut.msg = req[r].msg
  BY DEF MessageInv, TypeOK, RequestState
<1>2. At(r, "commit") /\ UNCHANGED <<channel, nextMessage>>
  BY DEF Commit
<1>3. CASE SetRow(req[r].bucket, req[r].key, req[r].msg) /\ Become(r, ok)
  BY <1>1, <1>2, <1>3, MessageCommitted
<1>4. CASE SetRow(req[r].bucket, req[r].key, req[r].msg) /\ Become(r, cut)
  BY <1>1, <1>2, <1>4, MessageCommitted
<1>5. CASE Goto(r, "rollback") /\ UNCHANGED <<objects, seen>>
  <2>1. SameMessages /\ InFlight(r) /\ Holding(r)
    BY <1>2, <1>5, StepFacts DEF SameMessages, InFlight, At, Holding, HoldsMessage
  <2> QED
    BY <1>2, <1>5, <2>1, QuietGoto
<1> QED
  BY <1>3, <1>4, <1>5 DEF Commit, Reply

\* A message that is in no row, that no other handler is to commit, and whose
\* readers have seen the object absent, may be deleted.
LEMMA MessageRemoved ==
    ASSUME MessageInv, TypeOK', NEW r \in Request, NEW answer, Reply(r, answer),
           req[r].op # "getObject",
           UNCHANGED <<objects, seen, nextMessage>>, channel' = channel \ {req[r].msg},
           \A b \in Bucket, k \in Key : objects[b][k] # req[r].msg,
           \A s \in Request \ {r} : At(s, "commit") => req[s].msg # req[r].msg,
           \A s \in Request : req[s].pc \in {"getCipher", "fetch"} /\ req[s].msg = req[r].msg
                                => NoMessage \in seen[s]
    PROVE  MessageInv'
<1>1. /\ req'[r].pc = "replied" /\ req'[r].op # "getObject"
      /\ \A s \in Request \ {r} : req'[s] = req[s]
  BY DEF Reply, Become, MessageInv, TypeOK, RequestState
<1>2. MessagesSent'
  BY <1>1 DEF MessageInv, MessagesSent, Holding, HoldsMessage
<1>3. RowsOwnMessages' /\ NoDanglingRow'
  BY DEF MessageInv, RowsOwnMessages, NoDanglingRow
<1>4. UploadPrivate'
  BY <1>1 DEF MessageInv, UploadPrivate, Uncommitted, At, Holding, HoldsMessage
<1>5. CommitSent'
  BY <1>1 DEF MessageInv, CommitSent, At
<1>6. DeletingUnreferenced'
  BY <1>1 DEF MessageInv, DeletingUnreferenced, Deleting
<1>7. ReadersSee'
  BY <1>1, StepFacts DEF MessageInv, ReadersSee, Reading, InFlight
<1>8. ReadersHold'
  BY <1>1 DEF MessageInv, ReadersHold, Deleting
<1>9. GetAnswersTruly'
  BY <1>1 DEF MessageInv, GetAnswersTruly, Answered
<1> QED
  BY <1>2, <1>3, <1>4, <1>5, <1>6, <1>7, <1>8, <1>9 DEF MessageInv

LEMMA MessageBackendDelete ==
    ASSUME MessageInv, TypeOK', NEW r \in Request, Rollback(r) \/ DeleteMessage(r)
    PROVE  MessageInv'
<1>1. /\ UNCHANGED <<objects, seen, nextMessage>>
      /\ At(r, "rollback") \/ At(r, "deleteMessage")
  BY DEF Rollback, DeleteMessage
<1>2. InFlight(r) /\ Holding(r) /\ req[r].op # "getObject"
  BY <1>1, StepFacts DEF MessageInv, TypeOK, InFlight, At, Holding, HoldsMessage
<1>3. PICK answer \in {"error", "ok"} : Reply(r, answer)
  BY DEF Rollback, DeleteMessage
<1>4. CASE UNCHANGED channel
  <2>1. SameMessages
    BY <1>1, <1>4 DEF SameMessages
  <2> QED
    BY <1>2, <1>3, <2>1, QuietReply, SameIsQuiet
<1>5. CASE channel' = channel \ {req[r].msg} /\ At(r, "deleteMessage")
  <2>1. Deleting(r)
    BY <1>5 DEF Deleting, At
  <2>2. \A b \in Bucket, k \in Key : objects[b][k] # req[r].msg
    BY <2>1 DEF MessageInv, DeletingUnreferenced
  <2>3. \A s \in Request \ {r} : At(s, "commit") => req[s].msg # req[r].msg
    BY <1>2 DEF MessageInv, UploadPrivate, Uncommitted
  <2>4. \A s \in Request : req[s].pc \in {"getCipher", "fetch"} /\ req[s].msg = req[r].msg
                            => NoMessage \in seen[s]
    BY <2>1 DEF MessageInv, ReadersHold
  <2> QED
    BY <1>1, <1>2, <1>3, <1>5, <2>2, <2>3, <2>4, MessageRemoved
<1>6. CASE channel' = channel \ {req[r].msg} /\ At(r, "rollback") /\ req[r].live
  <2>1. Uncommitted(r)
    BY <1>6 DEF Uncommitted
  <2>2. \A b \in Bucket, k \in Key : objects[b][k] # req[r].msg
    BY <2>1 DEF MessageInv, UploadPrivate
  <2>3. \A s \in Request \ {r} : Holding(s) => req[s].msg # req[r].msg
    BY <2>1 DEF MessageInv, UploadPrivate
  <2>4. \A s \in Request : /\ At(s, "commit") => Holding(s)
                           /\ req[s].pc \in {"getCipher", "fetch"} => Holding(s) /\ s # r
    BY <1>6 DEF At, Holding, HoldsMessage
  <2> QED
    BY <1>1, <1>2, <1>3, <1>6, <2>2, <2>3, <2>4, MessageRemoved
<1> QED
  BY <1>1, <1>4, <1>5, <1>6 DEF Rollback, DeleteMessage, BackendDelete

\* The GET finds a row: the row's message is one it has seen and is in the
\* channel, and no one is deleting it.
LEMMA MessageFound ==
    ASSUME MessageInv, TypeOK', NEW r \in Request, At(r, "getRow"), SameMessages,
           objects[req[r].bucket][req[r].key] # NoMessage,
           Hold(r, "getCipher", objects[req[r].bucket][req[r].key])
    PROVE  MessageInv'
<1> DEFINE b == req[r].bucket
           k == req[r].key
           m == objects[b][k]
<1>1. /\ req'[r].pc = "getCipher" /\ req'[r].msg = m
      /\ req'[r].bucket = b /\ req'[r].key = k
      /\ \A s \in Request \ {r} : req'[s] = req[s]
  BY HoldEffect DEF MessageInv
<1>2. b \in Bucket /\ k \in Key /\ Reading(r)
  BY StepFacts DEF MessageInv, TypeOK, InFlight, At, ObjectOp, Reading
<1>3. m \in channel /\ m \in seen[r] /\ m < nextMessage
  BY <1>2 DEF MessageInv, NoDanglingRow, ReadersSee, MessagesSent
<1>4. \A b1 \in Bucket, k1 \in Key : objects[b1][k1] = m => b1 = b /\ k1 = k
  BY <1>2 DEF MessageInv, RowsOwnMessages
<1>5. \A s \in Request : Deleting(s) \/ Uncommitted(s) => req[s].msg # m
  BY <1>2 DEF MessageInv, DeletingUnreferenced, UploadPrivate
<1>6. \A s \in Request : /\ Uncommitted(s)' => s # r /\ Uncommitted(s)
                         /\ Deleting(s)' => s # r /\ Deleting(s)
  BY <1>1 DEF Uncommitted, Deleting, At
<1>7. MessagesSent'
  BY <1>1, <1>3 DEF MessageInv, MessagesSent, SameMessages, Holding
<1>8. RowsOwnMessages' /\ NoDanglingRow'
  BY DEF MessageInv, RowsOwnMessages, NoDanglingRow, SameMessages
<1>9. UploadPrivate'
  BY <1>1, <1>5, <1>6 DEF MessageInv, UploadPrivate, SameMessages, Holding
<1>10. CommitSent'
  BY <1>1 DEF MessageInv, CommitSent, At, SameMessages
<1>11. DeletingUnreferenced'
  BY <1>1, <1>6 DEF MessageInv, DeletingUnreferenced, SameMessages
<1>12. ReadersSee'
  BY <1>1, <1>2 DEF MessageInv, ReadersSee, Reading, InFlight, SameMessages
<1>13. ReadersHold'
  BY <1>1, <1>3, <1>4, <1>5, <1>6 DEF MessageInv, ReadersHold, SameMessages
<1>14. GetAnswersTruly'
  BY <1>1 DEF MessageInv, GetAnswersTruly, Answered, SameMessages
<1> QED
  BY <1>7, <1>8, <1>9, <1>10, <1>11, <1>12, <1>13, <1>14 DEF MessageInv

LEMMA MessageGetRow ==
    ASSUME MessageInv, TypeOK', NEW r \in Request, GetRow(r)
    PROVE  MessageInv'
<1> DEFINE m == objects[req[r].bucket][req[r].key]
<1>1. At(r, "getRow") /\ SameMessages
  BY DEF GetRow, stores, SameMessages
<1>2. CASE m # NoMessage /\ Hold(r, "getCipher", m)
  BY <1>1, <1>2, MessageFound
<1>3. CASE m = NoMessage /\ Reply(r, "NoSuchKey")
  <2>1. NoMessage \in seen[r]
    BY <1>1, <1>3, StepFacts DEF MessageInv, TypeOK, ReadersSee, Reading, InFlight, At
  <2> QED
    BY <1>1, <1>3, <2>1, QuietReply, SameIsQuiet
<1>4. CASE Reply(r, "error")
  BY <1>1, <1>4, QuietReply, SameIsQuiet
<1> QED
  BY <1>2, <1>3, <1>4 DEF GetRow, Hold

LEMMA MessageFetch ==
    ASSUME MessageInv, TypeOK', NEW r \in Request, Fetch(r)
    PROVE  MessageInv'
<1>1. At(r, "fetch") /\ SameMessages
  BY DEF Fetch, SameMessages
<1>2. /\ req[r].msg \in seen[r]
      /\ req[r].msg \in channel \/ NoMessage \in seen[r]
  BY <1>1 DEF MessageInv, ReadersHold, At
<1>3. PICK answer \in {"ok", "broken", "NoSuchKey", "error"} :
          /\ Reply(r, answer)
          /\ answer = "NoSuchKey" => req[r].msg \notin channel
  BY DEF Fetch
<1> QED
  BY <1>1, <1>2, <1>3, QuietReply, SameIsQuiet

\* The row is taken out of the metadata: every GET of the object in flight has
\* now seen it absent, and its message is left to this handler.
LEMMA MessageUnlinked ==
    ASSUME MessageInv, TypeOK', NEW r \in Request, At(r, "deleteRow"),
           objects[req[r].bucket][req[r].key] # NoMessage,
           SetRow(req[r].bucket, req[r].key, NoMessage),
           UNCHANGED <<channel, nextMessage>>,
           Hold(r, "evict", objects[req[r].bucket][req[r].key])
    PROVE  MessageInv'
<1> DEFINE b == req[r].bucket
           k == req[r].key
           m == objects[b][k]
<1>1. /\ req'[r].pc = "evict" /\ req'[r].msg = m
      /\ \A s \in Request \ {r} : req'[s] = req[s]
  BY HoldEffect DEF MessageInv
<1>2. b \in Bucket /\ k \in Key /\ ~Reading(r)
  BY StepFacts DEF MessageInv, TypeOK, InFlight, At, ObjectOp, Reading
<1>3. /\ objects'[b][k] = NoMessage
      /\ \A b1 \in Bucket, k1 \in Key : b1 # b \/ k1 # k => objects'[b1][k1] = objects[b1][k1]
  BY <1>2, SetRowEffect DEF MessageInv
<1>4. /\ \A s \in Request : Reading(s) /\ req[s].bucket = b /\ req[s].key = k
                               => seen'[s] = seen[s] \cup {NoMessage}
      /\ \A s \in Request : seen[s] \subseteq seen'[s]
  BY <1>2, SetRowEffect DEF MessageInv
<1>5. /\ m # NoMessage
      /\ \A b1 \in Bucket, k1 \in Key : objects'[b1][k1] # m
  BY <1>2, <1>3 DEF MessageInv, RowsOwnMessages
<1>6. m \in channel /\ m < nextMessage
  BY <1>2 DEF MessageInv, NoDanglingRow, MessagesSent
<1>7. nextMessage \in Nat /\ NoMessage < nextMessage
  BY BoundAssumption DEF MessageInv, TypeOK, NoMessage
<1>8. \A s \in Request : /\ Uncommitted(s)' => s # r /\ Uncommitted(s) /\ Holding(s)
                         /\ Deleting(s)' => s = r \/ (Deleting(s) /\ Holding(s))
  BY <1>1 DEF Uncommitted, Deleting, At, Holding, HoldsMessage
<1>9. \A s \in Request : Uncommitted(s) => req[s].msg # m /\ req[s].msg # NoMessage
  BY <1>2 DEF MessageInv, UploadPrivate, Uncommitted, At, TypeOK, Message, NoMessage
<1>10. MessagesSent'
  BY <1>1, <1>3, <1>6, <1>7 DEF MessageInv, MessagesSent, Holding
<1>11. RowsOwnMessages'
  BY <1>3 DEF MessageInv, RowsOwnMessages
<1>12. NoDanglingRow'
  BY <1>3 DEF MessageInv, NoDanglingRow
<1>13. UploadPrivate'
  <2> SUFFICES ASSUME NEW s \in Request, Uncommitted(s)'
               PROVE  /\ \A b1 \in Bucket, k1 \in Key : objects'[b1][k1] # req'[s].msg
                      /\ \A x \in Request \ {s} : Holding(x)' => req'[x].msg # req'[s].msg
    BY DEF UploadPrivate
  <2>1. s # r /\ Uncommitted(s) /\ req'[s] = req[s]
    BY <1>1, <1>8
  <2>2. \A b1 \in Bucket, k1 \in Key : objects[b1][k1] # req[s].msg
    BY <2>1 DEF MessageInv, UploadPrivate
  <2>3. \A x \in Request \ {s} : Holding(x) => req[x].msg # req[s].msg
    BY <2>1 DEF MessageInv, UploadPrivate
  <2> QED
    BY <1>1, <1>3, <1>9, <2>1, <2>2, <2>3 DEF Holding
<1>14. CommitSent'
  BY <1>1 DEF MessageInv, CommitSent, At
<1>15. DeletingUnreferenced'
  <2> SUFFICES ASSUME NEW s \in Request, Deleting(s)'
               PROVE  \A b1 \in Bucket, k1 \in Key : objects'[b1][k1] # req'[s].msg
    BY DEF DeletingUnreferenced
  <2>1. CASE s = r
    BY <1>1, <1>5, <2>1
  <2>2. CASE s # r
    <3>1. Deleting(s) /\ req'[s] = req[s] /\ req[s].msg # NoMessage
      BY <1>1, <1>8, <2>2 DEF MessageInv, TypeOK, Deleting, Message, NoMessage
    <3> QED
      BY <1>3, <3>1 DEF MessageInv, DeletingUnreferenced
  <2> QED
    BY <2>1, <2>2
<1>16. ReadersSee'
  <2> SUFFICES ASSUME NEW s \in Request, Reading(s)'
               PROVE  objects'[req'[s].bucket][req'[s].key] \in seen'[s]
    BY DEF ReadersSee
  <2>1. s # r /\ req'[s] = req[s] /\ Reading(s)
    <3>1. req'[r].op = req[r].op /\ InFlight(r)
      BY HoldEffect, StepFacts DEF At, InFlight, MessageInv
    <3> QED
      BY <1>1, <1>2, <3>1 DEF Reading, InFlight
  <2>2. req[s].bucket \in Bucket /\ req[s].key \in Key
    BY <2>1 DEF MessageInv, TypeOK, Reading, ObjectOp
  <2>3. objects[req[s].bucket][req[s].key] \in seen[s]
    BY <2>1 DEF MessageInv, ReadersSee
  <2> QED
    BY <1>3, <1>4, <2>1, <2>2, <2>3
<1>17. ReadersHold'
  <2> SUFFICES ASSUME NEW s \in Request, req'[s].pc \in {"getCipher", "fetch"}
               PROVE  /\ req'[s].msg \in seen'[s]
                      /\ req'[s].msg \in channel \/ NoMessage \in seen'[s]
                      /\ \A x \in Request : Deleting(x)' /\ req'[x].msg = req'[s].msg
                                              => NoMessage \in seen'[s]
                      /\ \A b1 \in Bucket, k1 \in Key : objects'[b1][k1] = req'[s].msg
                             => b1 = req'[s].bucket /\ k1 = req'[s].key
    BY DEF ReadersHold
  <2>1. s # r /\ req'[s] = req[s] /\ req[s].pc \in {"getCipher", "fetch"}
    BY <1>1
  <2>2. Reading(s) /\ req[s].msg # NoMessage
    BY <2>1, StepFacts DEF MessageInv, TypeOK, Reading, InFlight, Message, NoMessage
  <2>3. /\ req[s].msg \in seen[s]
        /\ req[s].msg \in channel \/ NoMessage \in seen[s]
        /\ \A x \in Request : Deleting(x) /\ req[x].msg = req[s].msg => NoMessage \in seen[s]
        /\ \A b1 \in Bucket, k1 \in Key : objects[b1][k1] = req[s].msg
               => b1 = req[s].bucket /\ k1 = req[s].key
    BY <2>1 DEF MessageInv, ReadersHold
  <2>4. req[s].msg = m => NoMessage \in seen'[s]
    BY <1>2, <1>4, <2>2, <2>3
  <2>5. \A x \in Request : Deleting(x)' /\ req'[x].msg = req[s].msg => NoMessage \in seen'[s]
    BY <1>1, <1>4, <1>8, <2>3, <2>4
  <2> QED
    BY <1>3, <1>4, <2>1, <2>2, <2>3, <2>5
<1>18. GetAnswersTruly'
  BY <1>1, <1>4 DEF MessageInv, GetAnswersTruly, Answered
<1> QED
  BY <1>10, <1>11, <1>12, <1>13, <1>14, <1>15, <1>16, <1>17, <1>18 DEF MessageInv

LEMMA MessageDelete ==
    ASSUME MessageInv, TypeOK', NEW r \in Request, DeleteRow(r) \/ Evict(r)
    PROVE  MessageInv'
<1>1. UNCHANGED <<channel, nextMessage>>
  BY DEF DeleteRow, Evict
<1>2. InFlight(r) /\ req[r].op # "getObject"
  BY StepFacts DEF MessageInv, TypeOK, InFlight, At, DeleteRow, Evict
<1>3. ASSUME DeleteRow(r), UNCHANGED <<objects, seen>>, NEW answer, Reply(r, answer)
      PROVE  MessageInv'
  BY <1>1, <1>2, <1>3, QuietReply, SameIsQuiet DEF SameMessages
<1>4. CASE DeleteRow(r)
  BY <1>1, <1>3, <1>4, MessageUnlinked DEF DeleteRow, Hold
<1>5. CASE Evict(r)
  <2>1. SameMessages /\ Goto(r, "deleteMessage") /\ Deleting(r) /\ Holding(r)
    BY <1>5 DEF Evict, SameMessages, Deleting, Holding, HoldsMessage, At
  <2> QED
    BY <1>2, <2>1, QuietGoto DEF HoldsMessage
<1> QED
  BY <1>4, <1>5

\* A handler that starts or ends holds no message; a GET that starts has seen
\* the row of its object.
LEMMA FreshStep ==
    ASSUME MessageInv, TypeOK', NEW r \in Request, NEW q, Become(r, q),
           UNCHANGED <<objects, channel, nextMessage>>,
           q.pc \notin HoldsMessage \cup {"replied"},
           \A s \in Request \ {r} : seen'[s] = seen[s],
           q.pc \in Step /\ q.op = "getObject" => objects[q.bucket][q.key] \in seen'[r]
    PROVE  MessageInv'
<1>1. /\ req'[r] = q
      /\ \A s \in Request \ {r} : req'[s] = req[s]
  BY DEF Become, MessageInv, TypeOK
<1>2. \A s \in Request : Holding(s)' => s # r /\ Holding(s)
  BY <1>1 DEF Holding
<1>3. MessagesSent'
  BY <1>1, <1>2 DEF MessageInv, MessagesSent
<1>4. RowsOwnMessages' /\ NoDanglingRow'
  BY DEF MessageInv, RowsOwnMessages, NoDanglingRow
<1>5. UploadPrivate'
  BY <1>1, <1>2 DEF MessageInv, UploadPrivate, Uncommitted, At, HoldsMessage
<1>6. CommitSent' /\ DeletingUnreferenced'
  BY <1>1 DEF MessageInv, CommitSent, At, DeletingUnreferenced, Deleting, HoldsMessage
<1>7. ReadersSee'
  BY <1>1 DEF MessageInv, ReadersSee, Reading, InFlight
<1>8. ReadersHold'
  BY <1>1 DEF MessageInv, ReadersHold, Deleting, HoldsMessage
<1>9. GetAnswersTruly'
  BY <1>1 DEF MessageInv, GetAnswersTruly, Answered
<1> QED
  BY <1>3, <1>4, <1>5, <1>6, <1>7, <1>8, <1>9 DEF MessageInv

LEMMA MessageBegin ==
    ASSUME MessageInv, TypeOK', NEW r \in Request, BeginBucketOp(r) \/ BeginObjectOp(r)
    PROVE  MessageInv'
<1> DEFINE started(op, b, k) ==
        [Idle EXCEPT !.pc = FirstStep(op), !.op = op, !.bucket = b, !.key = k]
<1>1. ASSUME NEW op, NEW b, NEW k
      PROVE  /\ started(op, b, k).pc = FirstStep(op) /\ started(op, b, k).op = op
             /\ started(op, b, k).bucket = b /\ started(op, b, k).key = k
  BY DEF Idle
<1>2. \A op \in Operation : FirstStep(op) \notin HoldsMessage \cup {"replied"}
  BY DEF Operation, BucketOp, ObjectOp, FirstStep, HoldsMessage
<1>3. CASE BeginBucketOp(r)
  <2>1. PICK op \in BucketOp, b \in Bucket : Begin(r, op, b, None)
    BY <1>3 DEF BeginBucketOp
  <2>2. /\ Become(r, started(op, b, None)) /\ op \in Operation /\ op # "getObject"
        /\ UNCHANGED <<objects, channel, nextMessage, seen>>
    BY <1>3, <2>1 DEF BeginBucketOp, Begin, stores, Operation, BucketOp
  <2> HIDE DEF started
  <2> QED
    BY <1>1, <1>2, <2>2, FreshStep
<1>4. CASE BeginObjectOp(r)
  <2>1. PICK op \in ObjectOp, b \in Bucket, k \in Key :
            /\ Begin(r, op, b, k)
            /\ seen' = [seen EXCEPT ![r] = IF op = "getObject" THEN {objects[b][k]} ELSE {}]
    BY <1>4 DEF BeginObjectOp
  <2>2. /\ Become(r, started(op, b, k)) /\ op \in Operation
        /\ UNCHANGED <<objects, channel, nextMessage>>
    BY <2>1 DEF Begin, stores, Operation
  <2>3. /\ \A s \in Request \ {r} : seen'[s] = seen[s]
        /\ op = "getObject" => objects[b][k] \in seen'[r]
    BY <2>1 DEF MessageInv, TypeOK
  <2> HIDE DEF started
  <2> QED
    BY <1>1, <1>2, <2>2, <2>3, FreshStep
<1> QED
  BY <1>3, <1>4

LEMMA MessageEnd ==
    ASSUME MessageInv, TypeOK', NEW r \in Request, Finish(r) \/ Cancel(r)
    PROVE  MessageInv'
<1>1. CASE Finish(r)
  <2>1. /\ Become(r, Idle) /\ UNCHANGED <<objects, channel, nextMessage>>
        /\ \A s \in Request \ {r} : seen'[s] = seen[s]
    BY <1>1 DEF Finish, stores, MessageInv, TypeOK
  <2>2. Idle.pc \notin HoldsMessage \cup {"replied"} /\ Idle.pc \notin Step
    BY StepFacts DEF Idle, HoldsMessage
  <2> HIDE DEF Idle
  <2> QED
    BY <2>1, <2>2, FreshStep
<1>2. CASE Cancel(r)
  <2> DEFINE q == [req[r] EXCEPT !.live = FALSE]
  <2>1. /\ q.pc = req[r].pc /\ q.op = req[r].op /\ q.msg = req[r].msg /\ q.live = FALSE
        /\ q.bucket = req[r].bucket /\ q.key = req[r].key /\ q.answer = req[r].answer
    BY DEF MessageInv, TypeOK, RequestState
  <2>2. Become(r, q) /\ SameMessages /\ InFlight(r) /\ req[r].pc # "replied"
    BY <1>2, StepFacts DEF Cancel, SameMessages, stores, InFlight
  <2> HIDE DEF q
  <2>3. /\ q.pc \in HoldsMessage => Holding(r)
        /\ q.pc = "commit" => At(r, "commit")
        /\ q.pc \in {"evict", "deleteMessage"} => Deleting(r)
        /\ q.pc \in Step /\ q.op = "getObject" => Reading(r)
    BY <2>1 DEF Holding, At, Deleting, Reading, InFlight
  <2> QED
    BY <2>1, <2>2, <2>3, QuietStep, SameIsQuiet
<1> QED
  BY <1>1, <1>2

LEMMA MessageSurroundings ==
    ASSUME MessageInv, TypeOK', LruEvict \/ Crash \/ UNCHANGED vars
    PROVE  MessageInv'
<1>1. CASE LruEvict \/ UNCHANGED vars
  <2>1. UNCHANGED <<objects, channel, nextMessage, req, seen>>
    BY <1>1 DEF LruEvict, vars
  <2> QED
    BY <2>1 DEF MessageInv, MessagesSent, RowsOwnMessages, UploadPrivate, CommitSent,
                DeletingUnreferenced, ReadersSee, ReadersHold, NoDanglingRow, GetAnswersTruly,
                Holding, Uncommitted, Deleting, Reading, InFlight, At, Answered
<1>2. CASE Crash
  <2>1. /\ UNCHANGED <<objects, channel, nextMessage>>
        /\ \A r \in Request : req'[r].pc = "idle"
    BY <1>2 DEF Crash, Idle
  <2>2. MessagesSent' /\ RowsOwnMessages' /\ NoDanglingRow'
    BY <2>1 DEF MessageInv, MessagesSent, RowsOwnMessages, NoDanglingRow, Holding, HoldsMessage
  <2>3. UploadPrivate' /\ CommitSent' /\ DeletingUnreferenced'
    BY <2>1 DEF UploadPrivate, Uncommitted, CommitSent, DeletingUnreferenced, Deleting, At
  <2>4. ReadersSee' /\ ReadersHold' /\ GetAnswersTruly'
    BY <2>1, StepFacts DEF ReadersSee, Reading, InFlight, ReadersHold, GetAnswersTruly, Answered
  <2> QED
    BY <2>2, <2>3, <2>4 DEF MessageInv
<1> QED
  BY <1>1, <1>2

LEMMA MessageNext == MessageInv /\ [Next]_vars => MessageInv'
<1> SUFFICES ASSUME MessageInv, [Next]_vars PROVE MessageInv'
  OBVIOUS
<1>1. TypeOK'
  BY TypeNext DEF MessageInv
<1>2. ASSUME NEW r \in Request, RequestStep(r) PROVE MessageInv'
  BY <1>1, <1>2, MessageBuckets, MessageCipherFor, MessagePutCheck, MessageUpload, MessageCommit,
     MessageBackendDelete, MessageGetRow, MessageFetch, MessageDelete DEF RequestStep
<1>3. ASSUME NEW r \in Request,
             BeginBucketOp(r) \/ BeginObjectOp(r) \/ Finish(r) \/ Cancel(r)
      PROVE  MessageInv'
  BY <1>1, <1>3, MessageBegin, MessageEnd
<1>4. CASE LruEvict \/ Crash \/ UNCHANGED vars
  BY <1>1, <1>4, MessageSurroundings
<1> QED
  BY <1>2, <1>3, <1>4 DEF Next

LEMMA MessageSafe == Spec => []MessageInv
  BY MessageInit, MessageNext, PTL DEF Spec

\* No overlap, failure, disconnection or crash leaves an object row whose
\* message has been deleted (PutObject, DeleteObject and their rollbacks).
THEOREM RowsKeepTheirMessage == Spec => []NoDanglingRow
<1>1. MessageInv => NoDanglingRow
  BY DEF MessageInv
<1> QED
  BY <1>1, MessageSafe, PTL

\* Whatever overlaps it, a GET answers with bytes, or with NoSuchKey, that were
\* true of the object at some moment of the request (GetObject).
THEOREM GetsAnswerTruly == Spec => []GetAnswersTruly
<1>1. MessageInv => GetAnswersTruly
  BY DEF MessageInv
<1> QED
  BY <1>1, MessageSafe, PTL
-----------------------------------------------------------------------------
(* Keys: with clients that leave a bucket alone while they create or       *)
(* delete it, every stored object can be read back.                        *)

\* Whoever creates or deletes a bucket is alone with it.
Alone ==
    \A r, s \in Request :
        r # s /\ InFlight(r) /\ InFlight(s) /\ req[r].bucket = req[s].bucket
            => req[r].op \notin BucketOp

\* The cipher cache holds the key of the bucket, except between the removal of
\* the key and that of the cipher.
CacheCurrent ==
    \A b \in Bucket :
        \/ cipherCache[b] \in {NoKey, keyOf[b]}
        \/ \E r \in Request : At(r, "dropCipher") /\ req[r].bucket = b

\* What a handler in state q knows of the stores.
Knows(q) ==
    /\ q.pc \in {"createRow", "createUndo"} => cipherCache[q.bucket] = NoKey /\ Empty(q.bucket)
    /\ q.pc = "createUndo" => q.answer \in {"error", "BucketAlreadyOwnedByYou"}
    /\ q.pc \in {"createRow", "getCipher", "commit"} => keyOf[q.bucket] # NoKey
    /\ q.pc = "dropKey" => q.bucket \notin buckets
    /\ q.pc \in {"dropKey", "dropCipher"} => Empty(q.bucket)
    /\ q.pc \in {"putCipher", "upload", "commit"} => q.bucket \in buckets
    /\ q.pc \in {"upload", "fetch"} => q.cipher = keyOf[q.bucket]
    /\ q.pc \in {"commit", "getCipher", "fetch"} => sealedWith[q.msg] = keyOf[q.bucket]
    /\ q.pc = "replied" /\ q.op = "getObject" => q.answer # "broken"

KeyInv ==
    /\ MessageInv
    /\ Alone /\ CacheCurrent /\ RowsReadable
    /\ \A r \in Request : Knows(req[r])

LEMMA KeyInit == Init => KeyInv
<1> SUFFICES ASSUME Init PROVE KeyInv
  OBVIOUS
<1>1. MessageInv
  BY MessageInit
<1>2. \A r \in Request : req[r].pc = "idle"
  BY DEF Init, Idle
<1>3. Alone /\ CacheCurrent /\ RowsReadable
  BY <1>2, StepFacts DEF Init, Alone, InFlight, CacheCurrent, RowsReadable
<1>4. \A r \in Request : Knows(req[r])
  BY <1>2 DEF Knows
<1> QED
  BY <1>1, <1>3, <1>4 DEF KeyInv

-----------------------------------------------------------------------------
(* What the steps of a request do to its state *)

Only(r) == \A s \in Request \ {r} : req'[s] = req[s]

SameRequest(r) ==
    /\ req'[r].op = req[r].op /\ req'[r].bucket = req[r].bucket /\ req'[r].key = req[r].key

LEMMA ReplyEffect ==
    ASSUME TypeOK, NEW r \in Request, NEW answer, Reply(r, answer)
    PROVE  /\ Only(r) /\ SameRequest(r)
           /\ req'[r].pc = "replied" /\ req'[r].answer = answer
<1> DEFINE q == [req[r] EXCEPT !.pc = "replied", !.answer = answer,
                               !.cipher = NoKey, !.live = TRUE]
<1>1. req[r] \in RequestState
  BY DEF TypeOK
<1>2. /\ q.pc = "replied" /\ q.answer = answer /\ q.op = req[r].op
      /\ q.bucket = req[r].bucket /\ q.key = req[r].key
  BY <1>1 DEF RequestState
<1> HIDE DEF q
<1>3. req'[r] = q /\ Only(r)
  BY DEF Reply, Become, TypeOK, q, Only
<1> QED
  BY <1>2, <1>3 DEF SameRequest

LEMMA GotoEffect ==
    ASSUME TypeOK, NEW r \in Request, NEW step, Goto(r, step)
    PROVE  /\ Only(r) /\ SameRequest(r) /\ req'[r].pc = step
           /\ req'[r].cipher = req[r].cipher /\ req'[r].msg = req[r].msg
<1> DEFINE q == [req[r] EXCEPT !.pc = step]
<1>1. req[r] \in RequestState
  BY DEF TypeOK
<1>2. /\ q.pc = step /\ q.op = req[r].op /\ q.bucket = req[r].bucket /\ q.key = req[r].key
      /\ q.cipher = req[r].cipher /\ q.msg = req[r].msg
  BY <1>1 DEF RequestState
<1> HIDE DEF q
<1>3. req'[r] = q /\ Only(r)
  BY DEF Goto, Become, TypeOK, q, Only
<1> QED
  BY <1>2, <1>3 DEF SameRequest

\* The facts about a request that its step implies.
LEMMA InFlightFacts ==
    ASSUME TypeOK, NEW r \in Request, InFlight(r)
    PROVE  /\ req[r].bucket \in Bucket
           /\ req[r].op = OpOf(req[r].pc)
           /\ req[r].op \in ObjectOp => req[r].key \in Key
  BY DEF TypeOK

LEMMA BucketSteps ==
    ASSUME TypeOK, NEW r \in Request, req[r].pc \in CreateStep \cup DropStep
    PROVE  InFlight(r) /\ req[r].op \in BucketOp /\ req[r].op # "getObject"
  BY StepFacts DEF TypeOK, InFlight, CreateStep, DropStep, BucketOp

LEMMA ObjectSteps ==
    ASSUME TypeOK, NEW r \in Request, req[r].pc \in PutStep \cup GetStep \cup DeleteStep
    PROVE  InFlight(r) /\ req[r].op \in ObjectOp /\ req[r].op \notin BucketOp
  BY StepFacts DEF TypeOK, InFlight, PutStep, GetStep, DeleteStep, BucketOp, ObjectOp

\* Nobody else has a request on a bucket that is being created or deleted.
LEMMA NobodyElse ==
    ASSUME Alone, NEW r \in Request, NEW s \in Request, r # s, InFlight(r), InFlight(s),
           req[r].op \in BucketOp
    PROVE  req[s].bucket # req[r].bucket
  BY DEF Alone

\* Unless it is about to drop the cipher itself, a request meets a cache that
\* holds the key of its bucket, or nothing.
LEMMA CacheOfRequest ==
    ASSUME KeyInv, NEW r \in Request, InFlight(r), ~At(r, "dropCipher")
    PROVE  cipherCache[req[r].bucket] \in {NoKey, keyOf[req[r].bucket]}
<1>1. TypeOK
  BY DEF KeyInv, MessageInv
<1>2. ASSUME NEW s \in Request, At(s, "dropCipher") PROVE req[s].bucket # req[r].bucket
  <2>1. req[s].pc \in CreateStep \cup DropStep
    BY <1>2 DEF At, DropStep
  <2>2. InFlight(s) /\ req[s].op \in BucketOp
    BY <1>1, <2>1, BucketSteps
  <2> QED
    BY <1>2, <2>2 DEF KeyInv, Alone
<1> QED
  BY <1>1, <1>2, InFlightFacts DEF KeyInv, CacheCurrent

LEMMA AloneKept ==
    ASSUME Alone, NEW r \in Request, Only(r),
           InFlight(r)' => InFlight(r) /\ SameRequest(r)
    PROVE  Alone'
<1> SUFFICES ASSUME NEW s \in Request, NEW t \in Request, s # t, InFlight(s)', InFlight(t)',
                    req'[s].bucket = req'[t].bucket
             PROVE  req'[s].op \notin BucketOp
  BY DEF Alone
<1>1. ASSUME NEW u \in Request, InFlight(u)'
      PROVE  InFlight(u) /\ req'[u].op = req[u].op /\ req'[u].bucket = req[u].bucket
  BY <1>1 DEF Only, InFlight, SameRequest
<1> QED
  BY <1>1 DEF Alone

\* A row, and a message that a handler holds, was sealed before this step.
LEMMA SealedBefore ==
    ASSUME MessageInv, \A m \in Message : m < nextMessage => sealedWith'[m] = sealedWith[m]
    PROVE  /\ \A b \in Bucket, k \in Key :
                objects[b][k] # NoMessage => sealedWith'[objects[b][k]] = sealedWith[objects[b][k]]
           /\ \A r \in Request : Holding(r) => sealedWith'[req[r].msg] = sealedWith[req[r].msg]
<1>1. ASSUME NEW b \in Bucket, NEW k \in Key, objects[b][k] # NoMessage
      PROVE  objects[b][k] \in Message /\ objects[b][k] < nextMessage
  BY <1>1 DEF MessageInv, TypeOK, MessagesSent
<1>2. ASSUME NEW r \in Request, Holding(r)
      PROVE  req[r].msg \in Message /\ req[r].msg < nextMessage
  BY <1>2 DEF MessageInv, TypeOK, MessagesSent, Holding, HoldsMessage
<1> QED
  BY <1>1, <1>2

\* A step that creates or deletes a bucket: nobody else is on the bucket.
LEMMA KeyBucketStep ==
    ASSUME KeyInv, MessageInv', NEW r \in Request, Only(r), SameRequest(r),
           InFlight(r), req[r].op \in BucketOp,
           NEW b, b = req[r].bucket,
           UNCHANGED <<objects, sealedWith>>,
           \A c \in Bucket \ {b} : /\ c \in buckets' <=> c \in buckets
                                   /\ keyOf'[c] = keyOf[c]
                                   /\ cipherCache'[c] = cipherCache[c],
           Empty(b) \/ (keyOf'[b] = keyOf[b] /\ (b \in buckets => b \in buckets')),
           cipherCache'[b] \in {NoKey, keyOf'[b]} \/ req'[r].pc = "dropCipher",
           req'[r].pc \in CreateStep \cup DropStep \cup {"replied"},
           Knows(req[r])'
    PROVE  KeyInv'
<1>1. b \in Bucket /\ TypeOK
  BY InFlightFacts DEF KeyInv, MessageInv
<1>2. ASSUME NEW s \in Request \ {r}, InFlight(s) PROVE req[s].bucket \in Bucket \ {b}
  BY <1>1, <1>2, NobodyElse, InFlightFacts DEF KeyInv
<1>3. Alone'
  BY AloneKept DEF KeyInv
<1>4. CacheCurrent'
  <2> SUFFICES ASSUME NEW c \in Bucket
               PROVE  \/ cipherCache'[c] \in {NoKey, keyOf'[c]}
                      \/ \E t \in Request : req'[t].pc = "dropCipher" /\ req'[t].bucket = c
    BY DEF CacheCurrent, At
  <2>1. CASE c = b
    BY <2>1 DEF SameRequest
  <2>2. CASE c # b
    <3>1. CASE cipherCache[c] \in {NoKey, keyOf[c]}
      BY <2>2, <3>1
    <3>2. CASE \E t \in Request : At(t, "dropCipher") /\ req[t].bucket = c
      BY <2>2, <3>2 DEF At, Only
    <3> QED
      BY <3>1, <3>2 DEF KeyInv, CacheCurrent
  <2> QED
    BY <2>1, <2>2
<1>5. RowsReadable'
  <2> SUFFICES ASSUME NEW c \in Bucket, NEW k \in Key, objects[c][k] # NoMessage
               PROVE  /\ c \in buckets' /\ keyOf'[c] # NoKey
                      /\ sealedWith[objects[c][k]] = keyOf'[c]
    BY DEF RowsReadable
  <2>1. c \in buckets /\ keyOf[c] # NoKey /\ sealedWith[objects[c][k]] = keyOf[c]
    BY DEF KeyInv, RowsReadable
  <2>2. c = b => ~Empty(b)
    BY DEF Empty
  <2> QED
    BY <2>1, <2>2
<1>6. ASSUME NEW s \in Request PROVE Knows(req[s])'
  <2>1. CASE s = r
    BY <2>1
  <2>2. CASE s # r /\ InFlight(s)
    <3>1. Knows(req[s]) /\ req'[s] = req[s] /\ req[s].bucket \in Bucket \ {b}
      BY <1>2, <2>2 DEF KeyInv, Only
    <3> QED
      BY <3>1 DEF Knows, Empty
  <2>3. CASE s # r /\ ~InFlight(s)
    <3>1. Knows(req[s]) /\ req'[s] = req[s] /\ req[s].pc \notin Step
      BY <2>3 DEF KeyInv, Only, InFlight
    <3> QED
      BY <3>1, StepFacts DEF Knows
  <2> QED
    BY <2>1, <2>2, <2>3
<1> QED
  BY <1>3, <1>4, <1>5, <1>6 DEF KeyInv

\* A step of a PUT, a GET or a deletion: buckets and keys stay, a cipher that
\* is cached is made of the bucket's key, and so is the content of a new row.
LEMMA KeyObjectStep ==
    ASSUME KeyInv, MessageInv', NEW r \in Request, Only(r),
           InFlight(r)' => SameRequest(r),
           InFlight(r), req[r].op \in ObjectOp,
           NEW b, b = req[r].bucket,
           UNCHANGED <<buckets, keyOf>>,
           \A c \in Bucket :
               cipherCache'[c] # cipherCache[c] => c = b /\ cipherCache'[c] = keyOf[c],
           \A m \in Message : m < nextMessage => sealedWith'[m] = sealedWith[m],
           \A c \in Bucket, k \in Key :
                \/ objects'[c][k] \in {NoMessage, objects[c][k]}
                \/ /\ c = b /\ b \in buckets /\ keyOf[b] # NoKey
                   /\ sealedWith'[objects'[c][k]] = keyOf[b],
           Knows(req[r])'
    PROVE  KeyInv'
<1>1. b \in Bucket /\ TypeOK /\ req[r].op \notin BucketOp
  BY InFlightFacts DEF KeyInv, MessageInv, ObjectOp, BucketOp
<1>2. Alone'
  BY AloneKept DEF KeyInv
<1>3. \A t \in Request : req[t].pc \in CreateStep \cup DropStep
                           => t # r /\ req'[t] = req[t] /\ req[t].bucket \in Bucket \ {b}
  <2> SUFFICES ASSUME NEW t \in Request, req[t].pc \in CreateStep \cup DropStep
               PROVE  t # r /\ req'[t] = req[t] /\ req[t].bucket \in Bucket \ {b}
    OBVIOUS
  <2>1. InFlight(t) /\ req[t].op \in BucketOp
    BY <1>1, BucketSteps
  <2> QED
    BY <1>1, <2>1, NobodyElse, InFlightFacts DEF KeyInv, Only
<1>4. CacheCurrent'
  <2> SUFFICES ASSUME NEW c \in Bucket
               PROVE  \/ cipherCache'[c] \in {NoKey, keyOf[c]}
                      \/ \E t \in Request : req'[t].pc = "dropCipher" /\ req'[t].bucket = c
    BY DEF CacheCurrent, At
  <2>1. ASSUME NEW t \in Request, At(t, "dropCipher")
        PROVE  req'[t] = req[t]
    BY <1>3, <2>1 DEF At, DropStep
  <2> QED
    BY <2>1 DEF KeyInv, CacheCurrent, At
<1>5. RowsReadable'
  <2> SUFFICES ASSUME NEW c \in Bucket, NEW k \in Key, objects'[c][k] # NoMessage
               PROVE  /\ c \in buckets /\ keyOf[c] # NoKey
                      /\ sealedWith'[objects'[c][k]] = keyOf[c]
    BY DEF RowsReadable
  <2>1. CASE objects'[c][k] = objects[c][k]
    BY <2>1, SealedBefore DEF KeyInv, RowsReadable
  <2> QED
    BY <2>1
<1>6. ASSUME NEW s \in Request PROVE Knows(req[s])'
  <2>1. CASE s = r
    BY <2>1
  <2>2. CASE s # r
    <3>1. Knows(req[s]) /\ req'[s] = req[s]
      BY <2>2 DEF KeyInv, Only
    <3>2. CASE req[s].pc \in CreateStep \cup DropStep
      <4>1. req[s].bucket \in Bucket /\ req[s].bucket # b
        BY <1>3, <3>2
      <4>2. /\ cipherCache'[req[s].bucket] = cipherCache[req[s].bucket]
            /\ Empty(req[s].bucket) => Empty(req[s].bucket)'
        BY <3>1, <4>1 DEF Empty
      <4> QED
        BY <3>1, <3>2, <4>2 DEF Knows, CreateStep, DropStep, Empty
    <3>3. CASE req[s].pc \notin CreateStep \cup DropStep
      <4>1. req[s].pc \in {"commit", "getCipher", "fetch"}
               => sealedWith'[req[s].msg] = sealedWith[req[s].msg]
        BY SealedBefore DEF KeyInv, Holding, HoldsMessage
      <4> QED
        BY <3>1, <3>3, <4>1 DEF Knows, CreateStep, DropStep
    <3> QED
      BY <3>2, <3>3
  <2> QED
    BY <2>1, <2>2
<1> QED
  BY <1>2, <1>4, <1>5, <1>6 DEF KeyInv

\* A request that starts, ends or is cancelled.
LEMMA KeySame ==
    ASSUME KeyInv, MessageInv', NEW r \in Request, Only(r), Alone',
           UNCHANGED <<buckets, objects, keyOf, cipherCache, sealedWith>>,
           At(r, "dropCipher") => At(r, "dropCipher")' /\ SameRequest(r),
           Knows(req[r])'
    PROVE  KeyInv'
<1>1. CacheCurrent'
  BY DEF KeyInv, CacheCurrent, At, Only, SameRequest
<1>2. RowsReadable'
  BY DEF KeyInv, RowsReadable
<1>3. ASSUME NEW s \in Request PROVE Knows(req[s])'
  <2>1. CASE s # r
    <3>1. Knows(req[s]) /\ req'[s] = req[s]
      BY <2>1 DEF KeyInv, Only
    <3> QED
      BY <3>1 DEF Knows, Empty
  <2> QED
    BY <2>1
<1> QED
  BY <1>1, <1>2, <1>3 DEF KeyInv

-----------------------------------------------------------------------------
(* The steps of bucket operations *)

\* A bucket operation that is answered without a change of the stores.
LEMMA KeyBucketReply ==
    ASSUME KeyInv, MessageInv', NEW r \in Request, NEW answer, Reply(r, answer),
           InFlight(r), req[r].op \in BucketOp, ~At(r, "dropCipher"),
           UNCHANGED <<buckets, objects, keyOf, cipherCache, sealedWith>>
    PROVE  KeyInv'
<1>1. Only(r) /\ SameRequest(r) /\ req'[r].pc = "replied"
  BY ReplyEffect DEF KeyInv, MessageInv
<1>2. Knows(req[r])'
  BY <1>1 DEF Knows, SameRequest, BucketOp
<1>3. cipherCache[req[r].bucket] \in {NoKey, keyOf[req[r].bucket]}
  BY CacheOfRequest
<1> QED
  BY <1>1, <1>2, <1>3, KeyBucketStep

LEMMA KeyCreateKey ==
    ASSUME KeyInv, MessageInv', NEW r \in Request, CreateKey(r)
    PROVE  KeyInv'
<1> DEFINE b == req[r].bucket
<1>1. TypeOK /\ At(r, "createKey") /\ UNCHANGED <<buckets, objects, cipherCache, sealedWith>>
  BY DEF KeyInv, MessageInv, CreateKey
<1>2. InFlight(r) /\ req[r].op \in BucketOp /\ b \in Bucket /\ ~At(r, "dropCipher")
  BY <1>1, BucketSteps, InFlightFacts DEF At, CreateStep
<1>3. CASE UNCHANGED keyOf /\ \E answer \in {"BucketAlreadyOwnedByYou", "error"} : Reply(r, answer)
  BY <1>1, <1>2, <1>3, KeyBucketReply
<1>4. CASE /\ keyOf[b] = NoKey /\ nextKey \in DataKey
           /\ keyOf' = [keyOf EXCEPT ![b] = nextKey] /\ Goto(r, "createRow")
  <2>1. Only(r) /\ SameRequest(r) /\ req'[r].pc = "createRow"
    BY <1>1, <1>4, GotoEffect
  <2>2. cipherCache[b] = NoKey
    BY <1>2, <1>4, CacheOfRequest
  <2>3. Empty(b)
    BY <1>2, <1>4 DEF KeyInv, RowsReadable, Empty
  <2>4. keyOf'[b] # NoKey
    BY <1>1, <1>2, <1>4 DEF TypeOK, DataKey, NoKey
  <2>5. Knows(req[r])'
    BY <1>1, <2>1, <2>2, <2>3, <2>4 DEF Knows, SameRequest, Empty
  <2>6. \A c \in Bucket \ {b} : keyOf'[c] = keyOf[c]
    BY <1>1, <1>4 DEF TypeOK
  <2> QED
    BY <1>1, <1>2, <2>1, <2>2, <2>3, <2>5, <2>6, KeyBucketStep DEF CreateStep
<1> QED
  BY <1>3, <1>4 DEF CreateKey

LEMMA KeyCreateRow ==
    ASSUME KeyInv, MessageInv', NEW r \in Request, CreateRow(r)
    PROVE  KeyInv'
<1> DEFINE b == req[r].bucket
<1>1. /\ TypeOK /\ At(r, "createRow")
      /\ UNCHANGED <<objects, keyOf, cipherCache, sealedWith>>
      /\ buckets' \in {buckets, buckets \cup {b}}
  BY DEF KeyInv, MessageInv, CreateRow
<1>2. InFlight(r) /\ req[r].op \in BucketOp /\ req[r].op # "getObject" /\ b \in Bucket
  BY <1>1, BucketSteps, InFlightFacts DEF At, CreateStep
<1>3. cipherCache[b] = NoKey /\ Empty(b)
  BY <1>1 DEF KeyInv, Knows, At
<1>4. ASSUME Only(r), SameRequest(r), req'[r].pc \in {"createUndo", "replied"},
             req'[r].pc = "createUndo" => req'[r].answer \in {"error", "BucketAlreadyOwnedByYou"}
      PROVE  KeyInv'
  <2>1. Knows(req[r])'
    BY <1>1, <1>2, <1>3, <1>4 DEF Knows, SameRequest, Empty
  <2> QED
    BY <1>1, <1>2, <1>3, <1>4, <2>1, KeyBucketStep DEF CreateStep
<1>5. ASSUME Reply(r, "ok") PROVE KeyInv'
  BY <1>1, <1>4, <1>5, ReplyEffect
<1>6. ASSUME NEW answer \in {"error", "BucketAlreadyOwnedByYou"}, NEW live,
             Become(r, [req[r] EXCEPT !.pc = "createUndo", !.answer = answer, !.live = live])
      PROVE  KeyInv'
  <2> DEFINE q == [req[r] EXCEPT !.pc = "createUndo", !.answer = answer, !.live = live]
  <2>1. req[r] \in RequestState
    BY <1>1 DEF TypeOK
  <2>2. /\ q.pc = "createUndo" /\ q.answer = answer /\ q.op = req[r].op
        /\ q.bucket = req[r].bucket /\ q.key = req[r].key
    BY <2>1 DEF RequestState
  <2>3. req'[r] = q /\ Only(r)
    BY <1>1, <1>6 DEF Become, TypeOK, Only
  <2> HIDE DEF q
  <2> QED
    BY <1>4, <2>2, <2>3 DEF SameRequest
<1> QED
  BY <1>5, <1>6 DEF CreateRow

\* Keys.Remove on an empty bucket whose cipher is not cached, or is about to go.
LEMMA KeyRemoved ==
    ASSUME KeyInv, MessageInv', NEW r \in Request, Only(r), SameRequest(r),
           At(r, "createUndo") \/ At(r, "dropKey"), KeysRemove(req[r].bucket),
           At(r, "createUndo") => req'[r].pc = "replied",
           At(r, "dropKey") => req'[r].pc = "dropCipher",
           UNCHANGED <<buckets, objects, cipherCache, sealedWith>>
    PROVE  KeyInv'
<1> DEFINE b == req[r].bucket
<1>1. TypeOK /\ req[r].pc \in CreateStep \cup DropStep
  BY DEF KeyInv, MessageInv, At, CreateStep, DropStep
<1>2. InFlight(r) /\ req[r].op \in BucketOp /\ req[r].op # "getObject" /\ b \in Bucket
  BY <1>1, BucketSteps, InFlightFacts
<1>3. Empty(b) /\ (At(r, "createUndo") => cipherCache[b] = NoKey)
  BY DEF KeyInv, Knows, At
<1>4. \A c \in Bucket \ {b} : keyOf'[c] = keyOf[c]
  BY <1>1 DEF KeysRemove, TypeOK
<1>5. Knows(req[r])'
  BY <1>2, <1>3 DEF Knows, SameRequest, Empty
<1> QED
  BY <1>2, <1>3, <1>4, <1>5, KeyBucketStep DEF DropStep

LEMMA KeyDropRow ==
    ASSUME KeyInv, MessageInv', NEW r \in Request, DropRow(r)
    PROVE  KeyInv'
<1> DEFINE b == req[r].bucket
<1>1. TypeOK /\ At(r, "dropRow") /\ UNCHANGED <<objects, keyOf, cipherCache, sealedWith>>
  BY DEF KeyInv, MessageInv, DropRow
<1>2. InFlight(r) /\ req[r].op \in BucketOp /\ b \in Bucket /\ ~At(r, "dropCipher")
  BY <1>1, BucketSteps, InFlightFacts DEF At, DropStep
<1>3. CASE UNCHANGED buckets /\ \E answer \in {"BucketNotEmpty", "NoSuchBucket", "error"} :
                                 Reply(r, answer)
  BY <1>1, <1>2, <1>3, KeyBucketReply
<1>4. CASE Empty(b) /\ buckets' = buckets \ {b} /\ Goto(r, "dropKey")
  <2>1. Only(r) /\ SameRequest(r) /\ req'[r].pc = "dropKey"
    BY <1>1, <1>4, GotoEffect
  <2>2. Knows(req[r])'
    BY <1>1, <1>4, <2>1 DEF Knows, SameRequest, Empty
  <2>3. cipherCache[b] \in {NoKey, keyOf[b]}
    BY <1>2, CacheOfRequest
  <2> QED
    BY <1>1, <1>2, <1>4, <2>1, <2>2, <2>3, KeyBucketStep DEF DropStep
<1> QED
  BY <1>3, <1>4 DEF DropRow

LEMMA KeyDropCipher ==
    ASSUME KeyInv, MessageInv', NEW r \in Request, DropCipher(r)
    PROVE  KeyInv'
<1> DEFINE b == req[r].bucket
<1>1. TypeOK /\ At(r, "dropCipher") /\ UNCHANGED <<buckets, objects, keyOf, sealedWith>>
  BY DEF KeyInv, MessageInv, DropCipher
<1>2. /\ InFlight(r) /\ req[r].op \in BucketOp /\ req[r].op # "getObject" /\ b \in Bucket
      /\ Empty(b)
  BY <1>1, BucketSteps, InFlightFacts DEF At, DropStep, KeyInv, Knows
<1>3. Only(r) /\ SameRequest(r) /\ req'[r].pc = "replied"
  BY <1>1, ReplyEffect DEF DropCipher
<1>4. cipherCache'[b] = NoKey /\ \A c \in Bucket \ {b} : cipherCache'[c] = cipherCache[c]
  BY <1>1, <1>2 DEF DropCipher, TypeOK
<1>5. Knows(req[r])'
  BY <1>2, <1>3 DEF Knows, SameRequest
<1> QED
  BY <1>1, <1>2, <1>3, <1>4, <1>5, KeyBucketStep

LEMMA KeyBuckets ==
    ASSUME KeyInv, MessageInv', NEW r \in Request,
           \/ CreateKey(r) \/ CreateRow(r) \/ CreateUndo(r)
           \/ DropRow(r) \/ DropKey(r) \/ DropCipher(r)
    PROVE  KeyInv'
<1>1. CASE CreateUndo(r)
  <2>1. TypeOK /\ At(r, "createUndo") /\ ~At(r, "dropKey")
    BY <1>1 DEF KeyInv, MessageInv, CreateUndo, At
  <2>2. Only(r) /\ SameRequest(r) /\ req'[r].pc = "replied"
    BY <1>1, <2>1, ReplyEffect DEF CreateUndo
  <2> QED
    BY <1>1, <2>1, <2>2, KeyRemoved DEF CreateUndo
<1>2. CASE DropKey(r)
  <2>1. TypeOK /\ At(r, "dropKey") /\ ~At(r, "createUndo")
    BY <1>2 DEF KeyInv, MessageInv, DropKey, At
  <2>2. Only(r) /\ SameRequest(r) /\ req'[r].pc = "dropCipher"
    BY <1>2, <2>1, GotoEffect DEF DropKey
  <2> QED
    BY <1>2, <2>1, <2>2, KeyRemoved DEF DropKey
<1> QED
  BY <1>1, <1>2, KeyCreateKey, KeyCreateRow, KeyDropRow, KeyDropCipher

-----------------------------------------------------------------------------
(* The steps of object operations *)

KeptStores == UNCHANGED <<buckets, objects, keyOf, cipherCache, sealedWith>>

\* An object operation that moves on without a change of the stores.
LEMMA KeyObjectMove ==
    ASSUME KeyInv, MessageInv', NEW r \in Request, Only(r), SameRequest(r),
           req[r].pc \in PutStep \cup GetStep \cup DeleteStep,
           KeptStores, Knows(req[r])'
    PROVE  KeyInv'
<1>1. InFlight(r) /\ req[r].op \in ObjectOp
  BY ObjectSteps DEF KeyInv, MessageInv
<1> QED
  BY <1>1, KeyObjectStep DEF KeptStores

LEMMA KeyObjectReply ==
    ASSUME KeyInv, MessageInv', NEW r \in Request, NEW answer, Reply(r, answer),
           req[r].pc \in PutStep \cup GetStep \cup DeleteStep,
           KeptStores,
           answer = "broken" => req[r].op # "getObject"
    PROVE  KeyInv'
<1>1. /\ Only(r) /\ SameRequest(r)
      /\ req'[r].pc = "replied" /\ req'[r].answer = answer
  BY ReplyEffect DEF KeyInv, MessageInv
<1>2. Knows(req[r])'
  BY <1>1 DEF Knows, SameRequest
<1> QED
  BY <1>1, <1>2, KeyObjectMove

LEMMA KeyPutCheck ==
    ASSUME KeyInv, MessageInv', NEW r \in Request, PutCheck(r) \/ PutTooLarge(r)
    PROVE  KeyInv'
<1>1. TypeOK /\ req[r].pc \in {"putCheck", "upload"} /\ KeptStores
  BY DEF KeyInv, MessageInv, PutCheck, PutTooLarge, stores, KeptStores, At
<1>2. req[r].pc \in PutStep
  BY <1>1 DEF PutStep
<1>3. ASSUME NEW answer \in {"NoSuchBucket", "error", "EntityTooLarge"}, Reply(r, answer)
      PROVE  KeyInv'
  BY <1>1, <1>2, <1>3, KeyObjectReply
<1>4. CASE req[r].bucket \in buckets /\ Goto(r, "putCipher")
  <2>1. Only(r) /\ SameRequest(r) /\ req'[r].pc = "putCipher"
    BY <1>1, <1>4, GotoEffect
  <2>2. Knows(req[r])'
    BY <1>1, <1>4, <2>1 DEF Knows, SameRequest, KeptStores
  <2> QED
    BY <1>1, <1>2, <2>1, <2>2, KeyObjectMove
<1> QED
  BY <1>3, <1>4 DEF PutCheck, PutTooLarge

\* cipherFor hands out the key of the bucket: the cached one is current.
LEMMA KeyCipherFor ==
    ASSUME KeyInv, MessageInv', NEW r \in Request, PutCipher(r) \/ GetCipher(r)
    PROVE  KeyInv'
<1> DEFINE b == req[r].bucket
<1>1. /\ TypeOK /\ req[r].pc \in {"putCipher", "getCipher"} /\ ~At(r, "dropCipher")
      /\ UNCHANGED <<buckets, objects, keyOf, sealedWith>>
      /\ cipherCache' = [cipherCache EXCEPT ![b] = CipherKey(b)]
  BY DEF KeyInv, MessageInv, PutCipher, GetCipher, CipherFor, At
<1>2. InFlight(r) /\ req[r].op \in ObjectOp /\ b \in Bucket
  BY <1>1, ObjectSteps, InFlightFacts DEF PutStep, GetStep
<1>3. CipherKey(b) = keyOf[b]
  BY <1>1, <1>2, CacheOfRequest DEF CipherKey
<1>4. \A c \in Bucket : cipherCache'[c] # cipherCache[c] => c = b /\ cipherCache'[c] = keyOf[c]
  BY <1>1, <1>2, <1>3 DEF TypeOK
<1>5. ASSUME Only(r), SameRequest(r), Knows(req[r])' PROVE KeyInv'
  BY <1>1, <1>2, <1>4, <1>5, KeyObjectStep
<1>6. CASE Reply(r, "NoSuchBucket")
  <2>1. /\ Only(r) /\ SameRequest(r)
        /\ req'[r].pc = "replied" /\ req'[r].answer = "NoSuchBucket"
    BY <1>1, <1>6, ReplyEffect
  <2>2. Knows(req[r])'
    BY <2>1 DEF Knows
  <2> QED
    BY <1>5, <2>1, <2>2
<1>7. ASSUME NEW step, Become(r, [req[r] EXCEPT !.pc = step, !.cipher = CipherKey(b)]),
             \/ At(r, "putCipher") /\ step = "upload"
             \/ At(r, "getCipher") /\ step = "fetch"
      PROVE  KeyInv'
  <2> DEFINE q == [req[r] EXCEPT !.pc = step, !.cipher = CipherKey(b)]
  <2>1. req[r] \in RequestState
    BY <1>1 DEF TypeOK
  <2>2. /\ q.pc = step /\ q.cipher = CipherKey(b) /\ q.msg = req[r].msg
        /\ q.op = req[r].op /\ q.bucket = b /\ q.key = req[r].key
    BY <2>1 DEF RequestState
  <2>3. req'[r] = q /\ Only(r)
    BY <1>1, <1>7 DEF Become, TypeOK, Only
  <2> HIDE DEF q
  <2>4. Only(r) /\ SameRequest(r)
    BY <2>2, <2>3 DEF SameRequest
  <2>5. Knows(req[r])
    BY DEF KeyInv
  <2>6. Knows(req[r])'
    BY <1>1, <1>3, <1>7, <2>2, <2>3, <2>5 DEF Knows, At
  <2> QED
    BY <1>5, <2>4, <2>6
<1> QED
  BY <1>6, <1>7 DEF PutCipher, GetCipher, CipherFor

LEMMA KeyUpload ==
    ASSUME KeyInv, MessageInv', NEW r \in Request, Upload(r)
    PROVE  KeyInv'
<1> DEFINE b == req[r].bucket
<1>1. /\ TypeOK /\ At(r, "upload")
      /\ UNCHANGED <<buckets, objects, keyOf, cipherCache>>
  BY DEF KeyInv, MessageInv, Upload
<1>2. /\ InFlight(r) /\ req[r].op \in ObjectOp /\ req[r].op = "putObject"
      /\ req[r].pc \in PutStep
  BY <1>1, ObjectSteps, InFlightFacts, StepFacts DEF At, PutStep
<1>3. b \in buckets /\ req[r].cipher = keyOf[b] /\ req[r].cipher # NoKey
  BY <1>1 DEF KeyInv, Knows, At, TypeOK, DataKey, NoKey
<1>4. CASE /\ nextMessage \in Message
           /\ sealedWith' = [sealedWith EXCEPT ![nextMessage] = req[r].cipher]
           /\ Hold(r, "commit", nextMessage) \/ Reply(r, "error")
  <2>1. /\ sealedWith'[nextMessage] = keyOf[b]
        /\ \A m \in Message : m < nextMessage => sealedWith'[m] = sealedWith[m]
    BY <1>1, <1>3, <1>4, Numbers DEF TypeOK
  <2>2. ASSUME Only(r), SameRequest(r), Knows(req[r])' PROVE KeyInv'
    BY <1>1, <1>2, <2>1, <2>2, KeyObjectStep
  <2>3. CASE Hold(r, "commit", nextMessage)
    <3>1. /\ Only(r) /\ SameRequest(r)
          /\ req'[r].pc = "commit" /\ req'[r].msg = nextMessage
      BY <1>1, <2>3, HoldEffect DEF Only, SameRequest
    <3>2. Knows(req[r])'
      BY <1>1, <1>3, <2>1, <3>1 DEF Knows, SameRequest
    <3> QED
      BY <2>2, <3>1, <3>2
  <2>4. CASE Reply(r, "error")
    <3>1. Only(r) /\ SameRequest(r) /\ req'[r].pc = "replied" /\ req'[r].answer = "error"
      BY <1>1, <2>4, ReplyEffect
    <3>2. Knows(req[r])'
      BY <3>1 DEF Knows
    <3> QED
      BY <2>2, <3>1, <3>2
  <2> QED
    BY <1>4, <2>3, <2>4
<1>5. CASE Reply(r, "error") /\ UNCHANGED sealedWith
  BY <1>1, <1>2, <1>5, KeyObjectReply DEF KeptStores
<1> QED
  BY <1>4, <1>5 DEF Upload, Hold

LEMMA KeyCommit ==
    ASSUME KeyInv, MessageInv', NEW r \in Request, Commit(r)
    PROVE  KeyInv'
<1> DEFINE b == req[r].bucket
<1>1. /\ TypeOK /\ At(r, "commit")
      /\ UNCHANGED <<buckets, keyOf, cipherCache, sealedWith>>
  BY DEF KeyInv, MessageInv, Commit
<1>2. /\ InFlight(r) /\ req[r].op \in ObjectOp /\ req[r].pc \in PutStep
      /\ b \in Bucket /\ req[r].key \in Key
  BY <1>1, ObjectSteps, InFlightFacts DEF At, PutStep
<1>3. b \in buckets /\ keyOf[b] # NoKey /\ sealedWith[req[r].msg] = keyOf[b]
  BY <1>1 DEF KeyInv, Knows, At
<1>4. ASSUME Only(r), SameRequest(r), req'[r].pc = "rollback" \/ req'[r].answer = "ok",
             req'[r].pc \in {"rollback", "replied"},
             SetRow(b, req[r].key, req[r].msg) \/ UNCHANGED objects
      PROVE  KeyInv'
  <2>1. Knows(req[r])'
    BY <1>4 DEF Knows
  <2>2. \A c \in Bucket, k \in Key :
            objects'[c][k] \in {NoMessage, objects[c][k]} \/ (c = b /\ objects'[c][k] = req[r].msg)
    BY <1>1, <1>2, <1>4, SetRowEffect
  <2> QED
    BY <1>1, <1>2, <1>3, <1>4, <2>1, <2>2, KeyObjectStep
<1>5. CASE SetRow(b, req[r].key, req[r].msg) /\ Reply(r, "ok")
  BY <1>1, <1>4, <1>5, ReplyEffect
<1>6. CASE /\ SetRow(b, req[r].key, req[r].msg)
           /\ Become(r, [req[r] EXCEPT !.pc = "rollback", !.live = FALSE])
  <2> DEFINE q == [req[r] EXCEPT !.pc = "rollback", !.live = FALSE]
  <2>1. req[r] \in RequestState
    BY <1>1 DEF TypeOK
  <2>2. q.pc = "rollback" /\ q.op = req[r].op /\ q.bucket = b /\ q.key = req[r].key
    BY <2>1 DEF RequestState
  <2>3. req'[r] = q /\ Only(r)
    BY <1>1, <1>6 DEF Become, TypeOK, Only
  <2> HIDE DEF q
  <2> QED
    BY <1>4, <1>6, <2>2, <2>3 DEF SameRequest
<1>7. CASE Goto(r, "rollback") /\ UNCHANGED objects
  BY <1>1, <1>4, <1>7, GotoEffect
<1> QED
  BY <1>5, <1>6, <1>7 DEF Commit

LEMMA KeyGetRow ==
    ASSUME KeyInv, MessageInv', NEW r \in Request, GetRow(r)
    PROVE  KeyInv'
<1> DEFINE b == req[r].bucket
           m == objects[b][req[r].key]
<1>1. TypeOK /\ At(r, "getRow") /\ KeptStores
  BY DEF KeyInv, MessageInv, GetRow, stores, KeptStores
<1>2. req[r].pc \in GetStep /\ b \in Bucket /\ req[r].key \in Key
  BY <1>1, ObjectSteps, InFlightFacts DEF At, GetStep
<1>3. CASE m # NoMessage /\ Hold(r, "getCipher", m)
  <2>1. /\ Only(r) /\ SameRequest(r)
        /\ req'[r].pc = "getCipher" /\ req'[r].msg = m
    BY <1>1, <1>3, HoldEffect DEF Only, SameRequest
  <2>2. keyOf[b] # NoKey /\ sealedWith[m] = keyOf[b]
    BY <1>2, <1>3 DEF KeyInv, RowsReadable
  <2>3. Knows(req[r])'
    BY <1>1, <2>1, <2>2 DEF Knows, SameRequest, KeptStores
  <2> QED
    BY <1>1, <1>2, <2>1, <2>3, KeyObjectMove
<1>4. ASSUME NEW answer \in {"NoSuchKey", "error"}, Reply(r, answer) PROVE KeyInv'
  BY <1>1, <1>2, <1>4, KeyObjectReply
<1> QED
  BY <1>3, <1>4 DEF GetRow, Hold

\* The cipher and the message of a GET are both of the bucket's key.
LEMMA KeyFetch ==
    ASSUME KeyInv, MessageInv', NEW r \in Request, Fetch(r)
    PROVE  KeyInv'
<1>1. At(r, "fetch") /\ KeptStores
  BY DEF Fetch, KeptStores
<1>2. req[r].pc \in GetStep /\ sealedWith[req[r].msg] = req[r].cipher
  BY <1>1 DEF At, GetStep, KeyInv, Knows
<1>3. PICK answer \in {"ok", "NoSuchKey", "error"} : Reply(r, answer)
  BY <1>2 DEF Fetch
<1> QED
  BY <1>1, <1>2, <1>3, KeyObjectReply

LEMMA KeyBackendDelete ==
    ASSUME KeyInv, MessageInv', NEW r \in Request, Rollback(r) \/ DeleteMessage(r)
    PROVE  KeyInv'
<1>1. KeptStores /\ req[r].pc \in PutStep \cup DeleteStep
  BY DEF Rollback, DeleteMessage, KeptStores, At, PutStep, DeleteStep
<1>2. PICK answer \in {"error", "ok"} : Reply(r, answer)
  BY DEF Rollback, DeleteMessage
<1> QED
  BY <1>1, <1>2, KeyObjectReply

LEMMA KeyDelete ==
    ASSUME KeyInv, MessageInv', NEW r \in Request, DeleteRow(r) \/ Evict(r)
    PROVE  KeyInv'
<1> DEFINE b == req[r].bucket
           k == req[r].key
<1>1. /\ TypeOK /\ req[r].pc \in {"deleteRow", "evict"}
      /\ UNCHANGED <<buckets, keyOf, cipherCache, sealedWith>>
  BY DEF KeyInv, MessageInv, DeleteRow, Evict, At
<1>2. /\ req[r].pc \in DeleteStep /\ InFlight(r) /\ req[r].op \in ObjectOp
      /\ b \in Bucket /\ k \in Key
  BY <1>1, ObjectSteps, InFlightFacts DEF DeleteStep
<1>3. ASSUME NEW answer \in {"ok", "error"}, Reply(r, answer), UNCHANGED objects PROVE KeyInv'
  BY <1>1, <1>2, <1>3, KeyObjectReply DEF KeptStores
<1>4. CASE SetRow(b, k, NoMessage) /\ Hold(r, "evict", objects[b][k])
  <2>1. Only(r) /\ SameRequest(r) /\ req'[r].pc = "evict"
    BY <1>1, <1>4, HoldEffect DEF Only, SameRequest
  <2>2. \A c \in Bucket, x \in Key : objects'[c][x] \in {NoMessage, objects[c][x]}
    BY <1>1, <1>2, <1>4, SetRowEffect
  <2>3. Knows(req[r])'
    BY <2>1 DEF Knows
  <2> QED
    BY <1>1, <1>2, <2>1, <2>2, <2>3, KeyObjectStep
<1>5. CASE Evict(r)
  <2>1. Only(r) /\ SameRequest(r) /\ req'[r].pc = "deleteMessage" /\ KeptStores
    BY <1>1, <1>5, GotoEffect DEF Evict, KeptStores
  <2>2. Knows(req[r])'
    BY <2>1 DEF Knows
  <2> QED
    BY <1>2, <2>1, <2>2, KeyObjectMove
<1> QED
  BY <1>3, <1>4, <1>5 DEF DeleteRow, Hold

-----------------------------------------------------------------------------
(* Clients, the process and its surroundings *)

LEMMA KeyBegin ==
    ASSUME KeyInv, MessageInv', BucketOpsAlone,
           NEW r \in Request, BeginBucketOp(r) \/ BeginObjectOp(r)
    PROVE  KeyInv'
<1> DEFINE started(op, b, k) ==
        [Idle EXCEPT !.pc = FirstStep(op), !.op = op, !.bucket = b, !.key = k]
<1>1. PICK op \in Operation, b \in Bucket, k \in Key \cup {None} : Begin(r, op, b, k)
  BY DEF BeginBucketOp, BeginObjectOp, Operation, BucketOp, ObjectOp
<1>2. /\ started(op, b, k).pc = FirstStep(op) /\ started(op, b, k).op = op
      /\ started(op, b, k).bucket = b
  BY DEF Idle
<1>3. Become(r, started(op, b, k))
  BY <1>1 DEF Begin
<1> HIDE DEF started
<1>4. /\ Only(r) /\ req'[r].pc = FirstStep(op) /\ req'[r].op = op /\ req'[r].bucket = b
      /\ At(r, "idle") /\ MayBegin(op, b)
      /\ UNCHANGED <<buckets, objects, keyOf, cipherCache, sealedWith>>
  BY <1>1, <1>2, <1>3 DEF Begin, Become, Only, KeyInv, MessageInv, TypeOK, stores
<1>5. FirstStep(op) \in {"createKey", "dropRow", "putCheck", "getRow", "deleteRow"}
  BY DEF Operation, BucketOp, ObjectOp, FirstStep
<1>6. Knows(req[r])'
  BY <1>4, <1>5 DEF Knows
<1>7. Alone'
  <2> SUFFICES ASSUME NEW s \in Request, NEW t \in Request, s # t, InFlight(s)', InFlight(t)',
                      req'[s].bucket = req'[t].bucket
               PROVE  req'[s].op \notin BucketOp
    BY DEF Alone
  <2>1. \A u \in Request \ {r} : InFlight(u)' => InFlight(u) /\ req'[u] = req[u]
    BY <1>4 DEF Only, InFlight
  <2>2. CASE s = r
    BY <1>4, <2>1, <2>2 DEF MayBegin
  <2>3. CASE t = r
    BY <1>4, <2>1, <2>3 DEF MayBegin
  <2>4. CASE s # r /\ t # r
    BY <2>1, <2>4 DEF KeyInv, Alone
  <2> QED
    BY <2>2, <2>3, <2>4
<1> QED
  BY <1>4, <1>6, <1>7, KeySame DEF At

LEMMA KeyEnd ==
    ASSUME KeyInv, MessageInv', NEW r \in Request, Finish(r) \/ Cancel(r)
    PROVE  KeyInv'
<1>1. TypeOK /\ UNCHANGED <<buckets, objects, keyOf, cipherCache, sealedWith>>
  BY DEF KeyInv, MessageInv, Finish, Cancel, stores
<1>2. CASE Finish(r)
  <2>1. Only(r) /\ req'[r].pc = "idle" /\ ~At(r, "dropCipher")
    BY <1>1, <1>2 DEF Finish, Become, Only, TypeOK, Idle, At
  <2>2. Knows(req[r])' /\ ~InFlight(r)'
    BY <2>1, StepFacts DEF Knows, InFlight
  <2>3. Alone'
    BY <2>1, <2>2, AloneKept DEF KeyInv
  <2> QED
    BY <1>1, <2>1, <2>2, <2>3, KeySame
<1>3. CASE Cancel(r)
  <2> DEFINE q == [req[r] EXCEPT !.live = FALSE]
  <2>1. req[r] \in RequestState
    BY <1>1 DEF TypeOK
  <2>2. /\ q.pc = req[r].pc /\ q.op = req[r].op /\ q.bucket = req[r].bucket /\ q.key = req[r].key
        /\ q.cipher = req[r].cipher /\ q.msg = req[r].msg /\ q.answer = req[r].answer
    BY <2>1 DEF RequestState
  <2>3. req'[r] = q /\ Only(r)
    BY <1>1, <1>3 DEF Cancel, Become, TypeOK, Only
  <2> HIDE DEF q
  <2>4. SameRequest(r) /\ InFlight(r) /\ (At(r, "dropCipher") => At(r, "dropCipher")')
    BY <1>3, <2>2, <2>3 DEF SameRequest, Cancel, At
  <2>5. Knows(req[r])
    BY DEF KeyInv
  <2>6. Knows(req[r])'
    BY <1>1, <2>2, <2>3, <2>5 DEF Knows, Empty
  <2>7. Alone'
    BY <2>3, <2>4, AloneKept DEF KeyInv
  <2> QED
    BY <1>1, <2>3, <2>4, <2>6, <2>7, KeySame
<1> QED
  BY <1>2, <1>3

LEMMA KeySurroundings ==
    ASSUME KeyInv, MessageInv', LruEvict \/ Crash \/ UNCHANGED vars
    PROVE  KeyInv'
<1>1. CASE LruEvict \/ UNCHANGED vars
  <2>1. UNCHANGED <<buckets, objects, keyOf, cipherCache, sealedWith, req>>
    BY <1>1 DEF LruEvict, vars
  <2> QED
    BY <2>1 DEF KeyInv, Alone, CacheCurrent, RowsReadable, Knows, InFlight, At, Empty
<1>2. CASE Crash
  <2>1. /\ UNCHANGED <<buckets, objects, keyOf, sealedWith>>
        /\ \A r \in Request : req'[r].pc = "idle"
        /\ \A b \in Bucket : cipherCache'[b] = NoKey
    BY <1>2 DEF Crash, Idle
  <2>2. Alone' /\ CacheCurrent' /\ RowsReadable'
    BY <2>1, StepFacts DEF Alone, InFlight, CacheCurrent, RowsReadable, KeyInv
  <2>3. \A r \in Request : Knows(req[r])'
    BY <2>1 DEF Knows
  <2> QED
    BY <2>2, <2>3 DEF KeyInv
<1> QED
  BY <1>1, <1>2

LEMMA KeyNext == BucketOpsAlone /\ KeyInv /\ [Next]_vars => KeyInv'
<1> SUFFICES ASSUME BucketOpsAlone, KeyInv, [Next]_vars PROVE KeyInv'
  OBVIOUS
<1>1. MessageInv'
  BY MessageNext DEF KeyInv
<1>2. ASSUME NEW r \in Request, RequestStep(r) PROVE KeyInv'
  BY <1>1, <1>2, KeyBuckets, KeyPutCheck, KeyCipherFor, KeyUpload, KeyCommit, KeyBackendDelete,
     KeyGetRow, KeyFetch, KeyDelete DEF RequestStep
<1>3. ASSUME NEW r \in Request,
             BeginBucketOp(r) \/ BeginObjectOp(r) \/ Finish(r) \/ Cancel(r)
      PROVE  KeyInv'
  BY <1>1, <1>3, KeyBegin, KeyEnd
<1>4. CASE LruEvict \/ Crash \/ UNCHANGED vars
  BY <1>1, <1>4, KeySurroundings
<1> QED
  BY <1>2, <1>3, <1>4 DEF Next

\* With clients that leave a bucket alone while they create or delete it, every
\* object row can be read back at any time: its bucket exists, and its message
\* is sealed with the key that keys.toml holds for the bucket.
THEOREM RowsStayReadable == ASSUME BucketOpsAlone PROVE Spec => []RowsReadable
<1>1. Init => KeyInv
  BY KeyInit
<1>2. KeyInv /\ [Next]_vars => KeyInv'
  BY KeyNext
<1>3. KeyInv => RowsReadable
  BY DEF KeyInv
<1> QED
  BY <1>1, <1>2, <1>3, PTL DEF Spec

\* Under the same assumption the cipher cache never outlives the bucket's key,
\* apart from a creation or deletion in progress (cipherFor, DeleteBucket).
THEOREM CacheFollowsKeys == ASSUME BucketOpsAlone PROVE Spec => []CipherCoherent
<1>1. Init => KeyInv
  BY KeyInit
<1>2. KeyInv /\ [Next]_vars => KeyInv'
  BY KeyNext
<1>3. KeyInv => CipherCoherent
  <2>1. KeyInv => \A r \in Request : At(r, "dropCipher")
                                        => InFlight(r) /\ req[r].op \in BucketOp
    BY BucketSteps DEF KeyInv, MessageInv, At, DropStep
  <2> QED
    BY <2>1 DEF KeyInv, CacheCurrent, CipherCoherent
<1> QED
  BY <1>1, <1>2, <1>3, PTL DEF Spec

\* Under the same assumption no GET ends at a frame that does not authenticate
\* (decrypter.nextFrame): cipher and content are always of one key.
THEOREM ReadsAreWhole == ASSUME BucketOpsAlone PROVE Spec => []NoBrokenRead
<1>1. Init => KeyInv
  BY KeyInit
<1>2. KeyInv /\ [Next]_vars => KeyInv'
  BY KeyNext
<1>3. KeyInv => NoBrokenRead
  BY DEF KeyInv, Knows, NoBrokenRead, Answered
<1> QED
  BY <1>1, <1>2, <1>3, PTL DEF Spec
=============================================================================

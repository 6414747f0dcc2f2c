------------------------- MODULE AdminCommandsProofs -------------------------
(***************************************************************************)
(* Theorems about AdminCommands for every set of buckets, keys and         *)
(* requests, every workload, every set of faults and every bound.          *)
(***************************************************************************)
EXTENDS AdminCommands, ObjectServiceProofs

-----------------------------------------------------------------------------
(* The parts of the inductive invariants *)

CommandTyped ==
    /\ cmd \in CommandState /\ dump \in Dump /\ replaced \in BOOLEAN
    /\ Running("check") => cmd.todo \subseteq Row

\* What a message that is in the channel means is known until the index is
\* replaced: a row is only ever given a message that is there, and which no
\* other request can refer to.
Uploads == MessagesSent /\ UploadPrivate /\ CommitSent

\* A message that is not there and has been sent does not come back.
Lost(row) == row.msg \notin channel /\ row.msg < nextMessage

FsckInv ==
    cmd.op = "fsck" =>
        /\ ~replaced
        /\ Running("check") => \A row \in cmd.todo : row.msg < nextMessage
        /\ \A row \in cmd.gone \cup cmd.orphans : Lost(row)
        /\ Running("check") /\ ~cmd.errs => cmd.gone \cap Rows \subseteq cmd.todo \cup cmd.orphans
        /\ Running("fix") /\ ~cmd.errs /\ ~cmd.skipped => cmd.gone \cap Rows \subseteq cmd.orphans
        /\ FsckRepairs

\* The rows of the file are those of one index, and the bucket of each is in the
\* file too, unless it was created between the two sections or was not there.
DumpInv ==
    /\ \A row1, row2 \in dump.rows :
          row1.bucket = row2.bucket /\ row1.key = row2.key => row1 = row2
    /\ \A row \in dump.rows : row.bucket \in dump.names \cup dump.absent
    /\ Running("exportBuckets") \/ Running("exportObjects") => dump.rows = {}
    /\ Running("exportObjects") => buckets \subseteq dump.names \cup dump.absent

\* What is not left to do has been restored, and a bucket that was there when the
\* import began stays ahead of it.
ImportInv ==
    /\ Running("import") =>
          /\ cmd.todo \subseteq dump.names \cup dump.rows
          /\ dump.names \ cmd.todo \subseteq buckets
          /\ dump.rows \ cmd.todo \subseteq Rows
          /\ dump.names \ cmd.absent \subseteq buckets \cap cmd.todo
    /\ ImportRestoresAll

\* Which command takes which step, and when the index is still the daemon's own.
Phases ==
    /\ Running("idle") => cmd.op = None
    /\ Running("check") \/ Running("fix") => cmd.op = "fsck"
    /\ Running("exportBuckets") \/ Running("exportObjects") => cmd.op = "export"
    /\ Running("import") => cmd.op = "import"
    /\ cmd.op = "import" => replaced

AdminInv ==
    /\ TypeOK /\ CommandTyped /\ Phases
    /\ ~replaced => Uploads
    /\ FsckInv /\ DumpInv /\ ImportInv
-----------------------------------------------------------------------------
(* Uploads: the daemon's steps, also when messages are lost behind its back *)

LEMMA BecomeEffect ==
    ASSUME TypeOK, NEW r \in Request, NEW q, Become(r, q)
    PROVE  req'[r] = q /\ Only(r)
  BY DEF Become, TypeOK, Only

\* What a step of one request may do to rows and messages: send one message,
\* which is its own; take a row away, or turn it to a message it keeps no claim
\* to; and delete a message that no one is about to commit.
LEMMA UploadStep ==
    ASSUME TypeOK, TypeOK', Uploads, NEW r \in Request, Only(r),
           nextMessage' \in {nextMessage, nextMessage + 1},
           \A m \in channel' : m \in channel \/ (m = nextMessage /\ nextMessage' # nextMessage),
           \A s \in Request \ {r} : At(s, "commit") => req[s].msg \in channel',
           \/ \A b \in Bucket, k \in Key : objects'[b][k] \in {objects[b][k], NoMessage}
           \/ /\ Uncommitted(r) /\ ~Uncommitted(r)'
              /\ \A b \in Bucket, k \in Key : objects'[b][k] \in {objects[b][k], req[r].msg},
           Holding(r)' =>
              \/ Holding(r) /\ req'[r].msg = req[r].msg
              \/ \E b \in Bucket, k \in Key : req'[r].msg = objects[b][k] /\ ~Uncommitted(r)'
              \/ req'[r].msg = nextMessage /\ nextMessage' # nextMessage,
           Uncommitted(r)' =>
              \/ Uncommitted(r) /\ req'[r].msg = req[r].msg
              \/ req'[r].msg = nextMessage /\ nextMessage' # nextMessage,
           At(r, "commit")' => req'[r].msg \in channel'
    PROVE  Uploads'
<1>1. /\ nextMessage \in Nat /\ nextMessage <= nextMessage'
      /\ nextMessage' # nextMessage => nextMessage < nextMessage'
      /\ NoMessage < nextMessage
  BY Numbers, BoundAssumption DEF TypeOK, NoMessage
<1>2. /\ \A b \in Bucket, k \in Key : objects[b][k] \in Nat /\ objects[b][k] < nextMessage
      /\ \A s \in Request : Holding(s) => req[s].msg \in Message /\ req[s].msg < nextMessage
      /\ \A s \in Request : Uncommitted(s) => Holding(s)
      /\ Message \subseteq Nat
  BY Numbers DEF Uploads, MessagesSent, TypeOK, Holding, HoldsMessage, Uncommitted, At
<1>3. \A s \in Request \ {r} : /\ req'[s] = req[s]
                               /\ Holding(s)' <=> Holding(s)
                               /\ Uncommitted(s)' <=> Uncommitted(s)
                               /\ At(s, "commit")' <=> At(s, "commit")
  BY DEF Only, Holding, Uncommitted, At
<1>4. \A s \in Request : Uncommitted(s) =>
          /\ \A b \in Bucket, k \in Key : objects[b][k] # req[s].msg
          /\ \A x \in Request \ {s} : Holding(x) => req[x].msg # req[s].msg
  BY DEF Uploads, UploadPrivate
<1>5. MessagesSent'
  <2>1. \A m \in channel : m \in Nat /\ m < nextMessage
    BY <1>2 DEF Uploads, MessagesSent, TypeOK
  <2>2. \A m \in channel' : m < nextMessage'
    BY <1>1, <2>1
  <2>3. \A b \in Bucket, k \in Key : objects'[b][k] < nextMessage'
    BY <1>1, <1>2, Numbers DEF NoMessage
  <2>4. \A s \in Request : Holding(s)' => req'[s].msg < nextMessage'
    <3> SUFFICES ASSUME NEW s \in Request, Holding(s)' PROVE req'[s].msg < nextMessage'
      OBVIOUS
    <3>1. CASE s # r
      BY <1>1, <1>2, <1>3, <3>1, Numbers
    <3>2. CASE s = r
      BY <1>1, <1>2, <3>2, Numbers
    <3> QED
      BY <3>1, <3>2
  <2> QED
    BY <2>2, <2>3, <2>4 DEF MessagesSent
<1>6. UploadPrivate'
  <2> SUFFICES ASSUME NEW s \in Request, Uncommitted(s)'
               PROVE  /\ \A b \in Bucket, k \in Key : objects'[b][k] # req'[s].msg
                      /\ \A x \in Request \ {s} : Holding(x)' => req'[x].msg # req'[s].msg
    BY DEF UploadPrivate
  <2>1. CASE s # r
    <3>1. Uncommitted(s) /\ req'[s] = req[s] /\ req[s].msg # NoMessage
      BY <1>2, <1>3, <2>1 DEF Message, NoMessage
    <3>2. \A b \in Bucket, k \in Key : objects'[b][k] # req'[s].msg
      BY <1>2, <1>4, <2>1, <3>1
    <3>3. ASSUME Holding(r)' PROVE req'[r].msg # req[s].msg
      BY <1>1, <1>2, <1>4, <2>1, <3>1, <3>3
    <3>4. \A x \in Request \ {s} : Holding(x)' => req'[x].msg # req'[s].msg
      BY <1>3, <1>4, <3>1, <3>3
    <3> QED
      BY <3>2, <3>4
  <2>2. CASE s = r
    <3>1. \A b \in Bucket, k \in Key : objects'[b][k] \in {objects[b][k], NoMessage}
      BY <2>2
    <3>2. CASE Uncommitted(r) /\ req'[r].msg = req[r].msg
      <4>1. req[r].msg # NoMessage
        BY <1>2, <3>2 DEF Message, NoMessage
      <4> QED
        BY <1>3, <1>4, <2>2, <3>1, <3>2, <4>1
    <3>3. CASE req'[r].msg = nextMessage
      <4>1. \A b \in Bucket, k \in Key : objects'[b][k] # nextMessage
        BY <1>1, <1>2, <3>1
      <4>2. \A x \in Request \ {r} : Holding(x)' => req'[x].msg # nextMessage
        BY <1>1, <1>2, <1>3
      <4> QED
        BY <2>2, <3>3, <4>1, <4>2
    <3> QED
      BY <2>2, <3>2, <3>3
  <2> QED
    BY <2>1, <2>2
<1>7. CommitSent'
  BY <1>3 DEF CommitSent
<1> QED
  BY <1>5, <1>6, <1>7 DEF Uploads

\* A step that leaves the messages and the rows alone, and after which the
\* handler holds at most the message it held.
LEMMA UploadQuiet ==
    ASSUME TypeOK, TypeOK', Uploads, NEW r \in Request, Only(r),
           UNCHANGED <<objects, channel, nextMessage>>,
           Holding(r)' => Holding(r) /\ req'[r].msg = req[r].msg,
           Uncommitted(r)' => Uncommitted(r), At(r, "commit")' => At(r, "commit")
    PROVE  Uploads'
<1>1. /\ nextMessage' \in {nextMessage, nextMessage + 1}
      /\ \A m \in channel' : m \in channel
      /\ \A b \in Bucket, k \in Key : objects'[b][k] \in {objects[b][k], NoMessage}
  OBVIOUS
<1>2. \A s \in Request : At(s, "commit") => req[s].msg \in channel'
  BY DEF Uploads, CommitSent
<1>3. (Uncommitted(r)' => Holding(r)') /\ (At(r, "commit")' => Holding(r)')
  BY DEF Uncommitted, Holding, HoldsMessage, At
<1> QED
  BY <1>1, <1>2, <1>3, UploadStep

\* A handler that answers lets go of its message.
LEMMA UploadReply ==
    ASSUME TypeOK, NEW r \in Request, NEW answer, Reply(r, answer)
    PROVE  Only(r) /\ ~Holding(r)' /\ ~Uncommitted(r)' /\ ~At(r, "commit")'
  BY ReplyEffect DEF Holding, HoldsMessage, Uncommitted, At

LEMMA UploadAnswered ==
    ASSUME TypeOK, TypeOK', Uploads, NEW r \in Request, NEW answer, Reply(r, answer),
           UNCHANGED <<objects, channel, nextMessage>>
    PROVE  Uploads'
  BY UploadReply, UploadQuiet

LEMMA UploadGoto ==
    ASSUME TypeOK, TypeOK', Uploads, NEW r \in Request, NEW step, Goto(r, step),
           UNCHANGED <<objects, channel, nextMessage>>,
           step # "commit", step = "rollback" => At(r, "commit"),
           step \in HoldsMessage => Holding(r)
    PROVE  Uploads'
<1>1. Only(r) /\ req'[r].pc = step /\ req'[r].msg = req[r].msg
  BY GotoEffect
<1> QED
  BY <1>1, UploadQuiet DEF Holding, Uncommitted, At

\* The steps that create and delete buckets.
LEMMA UploadBuckets ==
    ASSUME TypeOK, TypeOK', Uploads, NEW r \in Request,
           \/ CreateKey(r) \/ CreateRow(r) \/ CreateUndo(r)
           \/ DropRow(r) \/ DropKey(r) \/ DropCipher(r)
    PROVE  Uploads'
<1>1. UNCHANGED <<objects, channel, nextMessage>>
  BY DEF CreateKey, CreateRow, CreateUndo, DropRow, DropKey, DropCipher
<1>2. ASSUME NEW answer, NEW live,
             Become(r, [req[r] EXCEPT !.pc = "createUndo", !.answer = answer, !.live = live])
      PROVE  Uploads'
  <2> DEFINE q == [req[r] EXCEPT !.pc = "createUndo", !.answer = answer, !.live = live]
  <2>1. req[r] \in RequestState
    BY DEF TypeOK
  <2>2. q.pc = "createUndo"
    BY <2>1 DEF RequestState
  <2> HIDE DEF q
  <2>3. req'[r] = q /\ Only(r)
    BY <1>2, BecomeEffect DEF q
  <2> QED
    BY <1>1, <2>2, <2>3, UploadQuiet DEF Holding, HoldsMessage, Uncommitted, At
<1>3. ASSUME NEW answer, Reply(r, answer) PROVE Uploads'
  BY <1>1, <1>3, UploadAnswered
<1>4. ASSUME NEW step \in {"createRow", "dropKey", "dropCipher"}, Goto(r, step) PROVE Uploads'
  BY <1>1, <1>4, UploadGoto DEF HoldsMessage
<1>5. CASE CreateRow(r)
  BY <1>2, <1>3, <1>5 DEF CreateRow
<1> QED
  BY <1>3, <1>4, <1>5 DEF CreateKey, CreateUndo, DropRow, DropKey, DropCipher

LEMMA UploadCipherFor ==
    ASSUME TypeOK, TypeOK', Uploads, NEW r \in Request, PutCipher(r) \/ GetCipher(r)
    PROVE  Uploads'
<1> DEFINE b == req[r].bucket
<1>1. PICK step \in {"upload", "fetch"} :
          CipherFor(r, step) /\ (step = "fetch" => At(r, "getCipher"))
  BY DEF PutCipher, GetCipher
<1>2. UNCHANGED <<objects, channel, nextMessage>>
  BY <1>1 DEF CipherFor
<1>3. CASE Reply(r, "NoSuchBucket")
  BY <1>2, <1>3, UploadAnswered
<1>4. ASSUME NEW cipher, Become(r, [req[r] EXCEPT !.pc = step, !.cipher = cipher])
      PROVE  Uploads'
  <2> DEFINE q == [req[r] EXCEPT !.pc = step, !.cipher = cipher]
  <2>1. req[r] \in RequestState
    BY DEF TypeOK
  <2>2. q.pc = step /\ q.msg = req[r].msg
    BY <2>1 DEF RequestState
  <2> HIDE DEF q
  <2>3. req'[r] = q /\ Only(r)
    BY <1>4, BecomeEffect DEF q
  <2> QED
    BY <1>1, <1>2, <2>2, <2>3, UploadQuiet DEF Holding, HoldsMessage, Uncommitted, At
<1> QED
  BY <1>1, <1>3, <1>4 DEF CipherFor

LEMMA UploadSent ==
    ASSUME TypeOK, TypeOK', Uploads, NEW r \in Request, Upload(r)
    PROVE  Uploads'
<1>1. UNCHANGED objects /\ (\A s \in Request : At(s, "commit") => req[s].msg \in channel')
  BY DEF Upload, Uploads, CommitSent
<1>2. CASE Reply(r, "error")
  <2>1. Only(r) /\ ~Holding(r)' /\ ~Uncommitted(r)' /\ ~At(r, "commit")'
    BY <1>2, UploadReply
  <2>2. CASE UNCHANGED <<channel, nextMessage>>
    BY <1>1, <2>1, <2>2, UploadQuiet
  <2>3. CASE channel' = channel \cup {nextMessage} /\ nextMessage' = nextMessage + 1
    <3>1. nextMessage' # nextMessage
      BY <2>3, Numbers
    <3> QED
      BY <1>1, <2>1, <2>3, <3>1, UploadStep
  <2> QED
    BY <2>2, <2>3 DEF Upload
<1>3. CASE /\ Hold(r, "commit", nextMessage)
           /\ channel' = channel \cup {nextMessage} /\ nextMessage' = nextMessage + 1
  <2>1. Only(r) /\ req'[r].pc = "commit" /\ req'[r].msg = nextMessage
    BY <1>3, HoldEffect DEF Only
  <2>2. nextMessage' # nextMessage
    BY <1>3, Numbers
  <2> QED
    BY <1>1, <1>3, <2>1, <2>2, UploadStep
<1> QED
  BY <1>2, <1>3 DEF Upload, Hold

LEMMA UploadCommit ==
    ASSUME TypeOK, TypeOK', Uploads, NEW r \in Request, Commit(r)
    PROVE  Uploads'
<1> DEFINE b == req[r].bucket
           k == req[r].key
<1>1. /\ UNCHANGED <<channel, nextMessage>> /\ At(r, "commit")
      /\ \A s \in Request : At(s, "commit") => req[s].msg \in channel'
  BY DEF Commit, Uploads, CommitSent
<1>2. b \in Bucket /\ k \in Key
  BY <1>1, StepFacts DEF TypeOK, InFlight, At, ObjectOp
<1>3. CASE Goto(r, "rollback") /\ UNCHANGED objects
  BY <1>1, <1>3, UploadGoto DEF Holding, HoldsMessage, At
<1>4. CASE SetRow(b, k, req[r].msg) /\ Reply(r, "ok")
  <2>1. Only(r) /\ ~Holding(r)' /\ ~Uncommitted(r)' /\ ~At(r, "commit")'
    BY <1>4, UploadReply
  <2>2. /\ Uncommitted(r)
        /\ \A b1 \in Bucket, k1 \in Key : objects'[b1][k1] \in {objects[b1][k1], req[r].msg}
    BY <1>1, <1>2, <1>4, SetRowEffect DEF Uncommitted
  <2> QED
    BY <1>1, <2>1, <2>2, UploadStep
<1>5. CASE SetRow(b, k, req[r].msg) /\ Become(r, [req[r] EXCEPT !.pc = "rollback", !.live = FALSE])
  <2> DEFINE q == [req[r] EXCEPT !.pc = "rollback", !.live = FALSE]
  <2>1. req[r] \in RequestState
    BY DEF TypeOK
  <2>2. q.pc = "rollback" /\ q.live = FALSE /\ q.msg = req[r].msg
    BY <2>1 DEF RequestState
  <2> HIDE DEF q
  <2>3. req'[r] = q /\ Only(r)
    BY <1>5, BecomeEffect DEF q
  <2>4. /\ Uncommitted(r) /\ Holding(r)
        /\ \A b1 \in Bucket, k1 \in Key : objects'[b1][k1] \in {objects[b1][k1], req[r].msg}
    BY <1>1, <1>2, <1>5, SetRowEffect DEF Uncommitted, Holding, HoldsMessage, At
  <2>5. ~Uncommitted(r)' /\ ~At(r, "commit")'
    BY <2>2, <2>3 DEF Uncommitted, At
  <2> QED
    BY <1>1, <2>2, <2>3, <2>4, <2>5, UploadStep
<1> QED
  BY <1>3, <1>4, <1>5 DEF Commit

\* The message that a rollback or a deletion may delete is nobody's to commit.
LEMMA UploadRemoved ==
    ASSUME TypeOK, TypeOK', Uploads, NEW r \in Request, Rollback(r) \/ DeleteMessage(r)
    PROVE  Uploads'
<1>1. /\ UNCHANGED <<objects, nextMessage>>
      /\ channel' \in {channel, channel \ {req[r].msg}}
      /\ \E answer : Reply(r, answer)
      /\ Holding(r) /\ ~At(r, "commit")
  BY DEF Rollback, DeleteMessage, BackendDelete, Holding, HoldsMessage, At
<1>2. Only(r) /\ ~Holding(r)' /\ ~Uncommitted(r)' /\ ~At(r, "commit")'
  BY <1>1, UploadReply
<1>3. \A s \in Request \ {r} : At(s, "commit") => req[s].msg \in channel /\ req[s].msg # req[r].msg
  BY <1>1 DEF Uploads, CommitSent, UploadPrivate, Uncommitted
<1>4. /\ \A m \in channel' : m \in channel
      /\ \A s \in Request \ {r} : At(s, "commit") => req[s].msg \in channel'
  BY <1>1, <1>3
<1> QED
  BY <1>1, <1>2, <1>4, UploadStep

LEMMA UploadDeleteRow ==
    ASSUME TypeOK, TypeOK', Uploads, NEW r \in Request, DeleteRow(r)
    PROVE  Uploads'
<1> DEFINE b == req[r].bucket
           k == req[r].key
<1>1. /\ UNCHANGED <<channel, nextMessage>>
      /\ \A s \in Request : At(s, "commit") => req[s].msg \in channel'
  BY DEF DeleteRow, Uploads, CommitSent
<1>2. b \in Bucket /\ k \in Key
  BY StepFacts DEF TypeOK, InFlight, At, ObjectOp, DeleteRow
<1>3. ASSUME NEW answer, Reply(r, answer), UNCHANGED objects PROVE Uploads'
  BY <1>1, <1>3, UploadAnswered
<1>4. CASE SetRow(b, k, NoMessage) /\ Hold(r, "evict", objects[b][k])
  <2>1. Only(r) /\ req'[r].pc = "evict" /\ req'[r].msg = objects[b][k]
    BY <1>4, HoldEffect DEF Only
  <2>2. \A b1 \in Bucket, k1 \in Key : objects'[b1][k1] \in {objects[b1][k1], NoMessage}
    BY <1>2, <1>4, SetRowEffect
  <2>3. ~Uncommitted(r)' /\ ~At(r, "commit")'
    BY <2>1 DEF Uncommitted, At
  <2> QED
    BY <1>1, <1>2, <2>1, <2>2, <2>3, UploadStep
<1> QED
  BY <1>3, <1>4 DEF DeleteRow, Hold

\* Reading changes no message; a GET only comes to hold the message of a row.
LEMMA UploadRead ==
    ASSUME TypeOK, TypeOK', Uploads, NEW r \in Request,
           GetRow(r) \/ Fetch(r) \/ PutCheck(r) \/ PutTooLarge(r) \/ Evict(r)
    PROVE  Uploads'
<1> DEFINE m == objects[req[r].bucket][req[r].key]
<1>1. /\ UNCHANGED <<objects, channel, nextMessage>>
      /\ \A s \in Request : At(s, "commit") => req[s].msg \in channel'
  BY DEF GetRow, Fetch, PutCheck, PutTooLarge, Evict, stores, Uploads, CommitSent
<1>2. ASSUME NEW answer, Reply(r, answer) PROVE Uploads'
  BY <1>1, <1>2, UploadAnswered
<1>3. CASE At(r, "getRow") /\ Hold(r, "getCipher", m)
  <2>1. Only(r) /\ req'[r].pc = "getCipher" /\ req'[r].msg = m
    BY <1>3, HoldEffect DEF Only
  <2>2. req[r].bucket \in Bucket /\ req[r].key \in Key
    BY <1>3, StepFacts DEF TypeOK, InFlight, At, ObjectOp
  <2>3. ~Uncommitted(r)' /\ ~At(r, "commit")'
    BY <2>1 DEF Uncommitted, At
  <2>4. \A b \in Bucket, k \in Key : objects'[b][k] \in {objects[b][k], NoMessage}
    BY <1>1
  <2> QED
    BY <1>1, <2>1, <2>2, <2>3, <2>4, UploadStep
<1>4. CASE GetRow(r)
  BY <1>2, <1>3, <1>4 DEF GetRow, Hold
<1>5. CASE Fetch(r) \/ PutTooLarge(r)
  BY <1>2, <1>5 DEF Fetch, PutTooLarge
<1>6. CASE PutCheck(r)
  BY <1>1, <1>2, <1>6, UploadGoto DEF PutCheck, HoldsMessage
<1>7. CASE Evict(r)
  BY <1>1, <1>7, UploadGoto DEF Evict, Holding, HoldsMessage, At
<1> QED
  BY <1>4, <1>5, <1>6, <1>7

\* A handler that starts, or ends, holds no message.
LEMMA UploadFresh ==
    ASSUME TypeOK, TypeOK', Uploads, NEW r \in Request, NEW q, Become(r, q),
           UNCHANGED <<objects, channel, nextMessage>>, q.pc \notin HoldsMessage
    PROVE  Uploads'
<1>1. req'[r] = q /\ Only(r)
  BY BecomeEffect
<1> QED
  BY <1>1, UploadQuiet DEF Holding, HoldsMessage, Uncommitted, At

LEMMA UploadClient ==
    ASSUME TypeOK, TypeOK', Uploads, NEW r \in Request,
           BeginBucketOp(r) \/ BeginObjectOp(r) \/ Finish(r) \/ Cancel(r)
    PROVE  Uploads'
<1>1. ASSUME NEW op \in Operation, NEW b, NEW k, Begin(r, op, b, k) PROVE Uploads'
  <2> DEFINE q == [Idle EXCEPT !.pc = FirstStep(op), !.op = op, !.bucket = b, !.key = k]
  <2>1. q.pc = FirstStep(op)
    BY DEF Idle
  <2>2. FirstStep(op) \notin HoldsMessage
    BY FirstStepFacts
  <2>3. Become(r, q) /\ UNCHANGED <<objects, channel, nextMessage>>
    BY <1>1 DEF Begin, stores
  <2> HIDE DEF q
  <2> QED
    BY <2>1, <2>2, <2>3, UploadFresh
<1>2. CASE BeginBucketOp(r) \/ BeginObjectOp(r)
  BY <1>1, <1>2 DEF BeginBucketOp, BeginObjectOp, Operation
<1>3. CASE Finish(r)
  <2>1. Idle.pc \notin HoldsMessage
    BY DEF Idle, HoldsMessage
  <2>2. Become(r, Idle) /\ UNCHANGED <<objects, channel, nextMessage>>
    BY <1>3 DEF Finish, stores
  <2> HIDE DEF Idle
  <2> QED
    BY <2>1, <2>2, UploadFresh
<1>4. CASE Cancel(r)
  <2> DEFINE q == [req[r] EXCEPT !.live = FALSE]
  <2>1. req[r] \in RequestState
    BY DEF TypeOK
  <2>2. q.pc = req[r].pc /\ q.msg = req[r].msg /\ q.live = FALSE
    BY <2>1 DEF RequestState
  <2>3. Become(r, q) /\ UNCHANGED <<objects, channel, nextMessage>>
    BY <1>4 DEF Cancel, stores
  <2> HIDE DEF q
  <2>4. req'[r] = q /\ Only(r)
    BY <2>3, BecomeEffect
  <2> QED
    BY <2>2, <2>3, <2>4, UploadQuiet DEF Holding, Uncommitted, At
<1> QED
  BY <1>2, <1>3, <1>4

LEMMA UploadSurroundings ==
    ASSUME Uploads, LruEvict \/ Crash \/ UNCHANGED vars
    PROVE  Uploads'
<1>1. CASE LruEvict \/ UNCHANGED vars
  <2>1. UNCHANGED <<objects, channel, nextMessage, req>>
    BY <1>1 DEF LruEvict, vars
  <2> QED
    BY <2>1 DEF Uploads, MessagesSent, UploadPrivate, CommitSent, Holding, Uncommitted, At
<1>2. CASE Crash
  <2>1. /\ UNCHANGED <<objects, channel, nextMessage>>
        /\ \A r \in Request : req'[r].pc = "idle"
    BY <1>2 DEF Crash, Idle
  <2> QED
    BY <2>1 DEF Uploads, MessagesSent, UploadPrivate, CommitSent, Holding, HoldsMessage,
                Uncommitted, At
<1> QED
  BY <1>1, <1>2

LEMMA UploadNext == TypeOK /\ Uploads /\ [Next]_vars => Uploads'
<1> SUFFICES ASSUME TypeOK, Uploads, [Next]_vars PROVE Uploads'
  OBVIOUS
<1>1. TypeOK'
  BY TypeNext
<1>2. ASSUME NEW r \in Request, RequestStep(r) PROVE Uploads'
  BY <1>1, <1>2, UploadBuckets, UploadCipherFor, UploadSent, UploadCommit, UploadRemoved,
     UploadDeleteRow, UploadRead DEF RequestStep
<1>3. ASSUME NEW r \in Request,
             BeginBucketOp(r) \/ BeginObjectOp(r) \/ Finish(r) \/ Cancel(r)
      PROVE  Uploads'
  BY <1>1, <1>3, UploadClient
<1>4. CASE LruEvict \/ Crash \/ UNCHANGED vars
  BY <1>4, UploadSurroundings
<1> QED
  BY <1>2, <1>3, <1>4 DEF Next

\* A row is only ever given a message that is in the channel, and a message
\* comes into the channel only by being sent.
LEMMA ServiceGains ==
    ASSUME TypeOK, Uploads, [Next]_vars
    PROVE  /\ channel' \subseteq channel \cup {nextMessage}
           /\ nextMessage' \in {nextMessage, nextMessage + 1}
           /\ \A b \in Bucket, k \in Key :
                 objects'[b][k] \in {objects[b][k], NoMessage} \cup channel
<1> DEFINE G == /\ channel' \subseteq channel \cup {nextMessage}
                /\ nextMessage' \in {nextMessage, nextMessage + 1}
                /\ \A b \in Bucket, k \in Key :
                      objects'[b][k] \in {objects[b][k], NoMessage} \cup channel
<1>1. CASE UNCHANGED <<objects, channel, nextMessage>>
  BY <1>1
<1>2. ASSUME NEW r \in Request, RequestStep(r) PROVE G
  <2>1. CASE Upload(r)
    BY <2>1 DEF Upload
  <2>2. CASE Rollback(r) \/ DeleteMessage(r)
    BY <2>2 DEF Rollback, DeleteMessage, BackendDelete
  <2>3. CASE Commit(r)
    <3>1. req[r].msg \in channel /\ UNCHANGED <<channel, nextMessage>>
      BY <2>3 DEF Commit, Uploads, CommitSent
    <3>2. req[r].bucket \in Bucket /\ req[r].key \in Key
      BY <2>3, StepFacts DEF TypeOK, InFlight, At, ObjectOp, Commit
    <3>3. UNCHANGED objects \/ SetRow(req[r].bucket, req[r].key, req[r].msg)
      BY <2>3 DEF Commit
    <3> QED
      BY <3>1, <3>2, <3>3, SetRowEffect
  <2>4. CASE DeleteRow(r)
    <3>1. UNCHANGED <<channel, nextMessage>>
      BY <2>4 DEF DeleteRow
    <3>2. req[r].bucket \in Bucket /\ req[r].key \in Key
      BY <2>4, StepFacts DEF TypeOK, InFlight, At, ObjectOp, DeleteRow
    <3>3. UNCHANGED objects \/ SetRow(req[r].bucket, req[r].key, NoMessage)
      BY <2>4 DEF DeleteRow
    <3> QED
      BY <3>1, <3>2, <3>3, SetRowEffect
  <2>5. CASE CreateKey(r) \/ CreateRow(r) \/ CreateUndo(r)
             \/ DropRow(r) \/ DropKey(r) \/ DropCipher(r)
    BY <1>1, <2>5 DEF CreateKey, CreateRow, CreateUndo, DropRow, DropKey, DropCipher
  <2>6. CASE PutCheck(r) \/ PutCipher(r) \/ PutTooLarge(r) \/ GetRow(r) \/ GetCipher(r)
             \/ Fetch(r) \/ Evict(r)
    BY <1>1, <2>6 DEF PutCheck, PutCipher, PutTooLarge, GetRow, GetCipher, CipherFor, Fetch,
                      Evict, stores
  <2> QED
    BY <1>2, <2>1, <2>2, <2>3, <2>4, <2>5, <2>6 DEF RequestStep
<1>3. ASSUME NEW r \in Request,
             BeginBucketOp(r) \/ BeginObjectOp(r) \/ Finish(r) \/ Cancel(r)
      PROVE  G
  BY <1>1, <1>3 DEF BeginBucketOp, BeginObjectOp, Begin, Finish, Cancel, stores
<1>4. CASE LruEvict \/ Crash \/ UNCHANGED vars
  BY <1>1, <1>4 DEF LruEvict, Crash, vars
<1> QED
  BY <1>2, <1>3, <1>4 DEF Next

-----------------------------------------------------------------------------
(* What the steps of a command do to its state *)

SameCommand == cmd'.op = cmd.op /\ cmd'.gone = cmd.gone /\ cmd'.absent = cmd.absent

LEMMA ExitEffect ==
    ASSUME CommandTyped, NEW answer \in {"ok", "error"}, Exit(answer)
    PROVE  /\ cmd' \in CommandState /\ SameCommand
           /\ cmd'.pc = "done" /\ cmd'.answer = answer
           /\ cmd'.todo = cmd.todo /\ cmd'.orphans = cmd.orphans
           /\ cmd'.errs = cmd.errs /\ cmd'.skipped = cmd.skipped
<1> DEFINE c == [cmd EXCEPT !.pc = "done", !.answer = answer]
<1>1. cmd \in CommandState
  BY DEF CommandTyped
<1>2. c \in CommandState
  BY <1>1 DEF CommandState
<1>3. /\ c.pc = "done" /\ c.answer = answer /\ c.op = cmd.op /\ c.gone = cmd.gone
      /\ c.absent = cmd.absent /\ c.todo = cmd.todo /\ c.orphans = cmd.orphans
      /\ c.errs = cmd.errs /\ c.skipped = cmd.skipped
  BY <1>1 DEF CommandState
<1>4. cmd' = c
  BY DEF Exit
<1> HIDE DEF c
<1> QED
  BY <1>2, <1>3, <1>4 DEF SameCommand

\* A command that goes on to its next section.
LEMMA SectionEffect ==
    ASSUME CommandTyped, NEW pc \in {"fix", "exportObjects", "done"},
           Advance([cmd EXCEPT !.pc = pc])
    PROVE  /\ cmd' \in CommandState /\ SameCommand
           /\ cmd'.pc = pc /\ cmd'.answer = cmd.answer
           /\ cmd'.todo = cmd.todo /\ cmd'.orphans = cmd.orphans
           /\ cmd'.errs = cmd.errs /\ cmd'.skipped = cmd.skipped
<1> DEFINE c == [cmd EXCEPT !.pc = pc]
<1>1. cmd \in CommandState
  BY DEF CommandTyped
<1>2. c \in CommandState
  BY <1>1 DEF CommandState
<1>3. /\ c.pc = pc /\ c.answer = cmd.answer /\ c.op = cmd.op /\ c.gone = cmd.gone
      /\ c.absent = cmd.absent /\ c.todo = cmd.todo /\ c.orphans = cmd.orphans
      /\ c.errs = cmd.errs /\ c.skipped = cmd.skipped
  BY <1>1 DEF CommandState
<1>4. cmd' = c
  BY DEF Advance
<1> HIDE DEF c
<1> QED
  BY <1>2, <1>3, <1>4 DEF SameCommand

\* fsck finds the message of a row, or misses it, or cannot tell.
LEMMA CheckEffect ==
    ASSUME CommandTyped, FsckCheck
    PROVE  /\ cmd' \in CommandState /\ SameCommand /\ cmd.todo \subseteq Row
           /\ cmd.pc = "check" /\ cmd'.pc = "check" /\ cmd'.answer = cmd.answer
           /\ \E row \in cmd.todo :
                 /\ cmd'.todo = cmd.todo \ {row}
                 /\ \/ row.msg \in channel /\ cmd'.orphans = cmd.orphans /\ cmd'.errs = cmd.errs
                    \/ /\ row.msg \notin channel
                       /\ cmd'.orphans = cmd.orphans \cup {row} /\ cmd'.errs = cmd.errs
                    \/ cmd'.orphans = cmd.orphans /\ cmd'.errs
<1>1. cmd \in CommandState /\ cmd.pc = "check" /\ cmd.todo \subseteq Row
  BY DEF CommandTyped, FsckCheck, Running
<1>2. PICK row \in cmd.todo :
          \/ /\ row.msg \in channel
             /\ cmd' = [cmd EXCEPT !.todo = cmd.todo \ {row}]
          \/ /\ row.msg \notin channel
             /\ cmd' = [cmd EXCEPT !.todo = cmd.todo \ {row},
                                   !.orphans = cmd.orphans \cup {row}]
          \/ cmd' = [cmd EXCEPT !.todo = cmd.todo \ {row}, !.errs = TRUE]
  BY DEF FsckCheck, Advance
<1>3. CASE row.msg \in channel /\ cmd' = [cmd EXCEPT !.todo = cmd.todo \ {row}]
  <2>1. cmd' \in CommandState
    BY <1>1, <1>3 DEF CommandState
  <2>2. /\ SameCommand /\ cmd'.pc = cmd.pc /\ cmd'.answer = cmd.answer
        /\ cmd'.todo = cmd.todo \ {row} /\ cmd'.orphans = cmd.orphans /\ cmd'.errs = cmd.errs
    BY <1>1, <1>3 DEF CommandState, SameCommand
  <2> QED
    BY <1>1, <1>3, <2>1, <2>2
<1>4. CASE /\ row.msg \notin channel
           /\ cmd' = [cmd EXCEPT !.todo = cmd.todo \ {row}, !.orphans = cmd.orphans \cup {row}]
  <2>1. cmd' \in CommandState
    BY <1>1, <1>4 DEF CommandState
  <2>2. /\ SameCommand /\ cmd'.pc = cmd.pc /\ cmd'.answer = cmd.answer
        /\ cmd'.todo = cmd.todo \ {row} /\ cmd'.orphans = cmd.orphans \cup {row}
        /\ cmd'.errs = cmd.errs
    BY <1>1, <1>4 DEF CommandState, SameCommand
  <2> QED
    BY <1>1, <1>4, <2>1, <2>2
<1>5. CASE cmd' = [cmd EXCEPT !.todo = cmd.todo \ {row}, !.errs = TRUE]
  <2>1. cmd' \in CommandState
    BY <1>1, <1>5 DEF CommandState
  <2>2. /\ SameCommand /\ cmd'.pc = cmd.pc /\ cmd'.answer = cmd.answer
        /\ cmd'.todo = cmd.todo \ {row} /\ cmd'.orphans = cmd.orphans /\ cmd'.errs
    BY <1>1, <1>5 DEF CommandState, SameCommand
  <2> QED
    BY <1>1, <2>1, <2>2
<1> QED
  BY <1>2, <1>3, <1>4, <1>5

\* fsck deletes the row that an orphan's object has by now, or passes it over.
LEMMA FixEffect ==
    ASSUME CommandTyped, FsckFix
    PROVE  /\ cmd' \in CommandState /\ SameCommand
           /\ cmd.pc = "fix" /\ cmd'.pc = "fix" /\ cmd'.answer = cmd.answer
           /\ cmd'.todo = cmd.todo /\ cmd'.errs = cmd.errs
           /\ \E row \in cmd.orphans :
                 /\ row \in Row /\ cmd'.orphans = cmd.orphans \ {row}
                 /\ \/ SetRow(row.bucket, row.key, NoMessage) /\ cmd'.skipped = cmd.skipped
                    \/ UNCHANGED <<objects, seen>> /\ cmd'.skipped
<1>1. cmd \in CommandState /\ cmd.pc = "fix" /\ cmd.orphans \subseteq Row
  BY DEF CommandTyped, FsckFix, Running, CommandState
<1>2. PICK row \in cmd.orphans :
          \/ /\ SetRow(row.bucket, row.key, NoMessage)
             /\ cmd' = [cmd EXCEPT !.orphans = cmd.orphans \ {row}]
          \/ /\ UNCHANGED <<objects, seen>>
             /\ cmd' = [cmd EXCEPT !.orphans = cmd.orphans \ {row}, !.skipped = TRUE]
  BY DEF FsckFix, Advance
<1>3. CASE /\ SetRow(row.bucket, row.key, NoMessage)
           /\ cmd' = [cmd EXCEPT !.orphans = cmd.orphans \ {row}]
  <2>1. cmd' \in CommandState
    BY <1>1, <1>3 DEF CommandState
  <2>2. /\ SameCommand /\ cmd'.pc = cmd.pc /\ cmd'.answer = cmd.answer
        /\ cmd'.todo = cmd.todo /\ cmd'.orphans = cmd.orphans \ {row}
        /\ cmd'.errs = cmd.errs /\ cmd'.skipped = cmd.skipped
    BY <1>1, <1>3 DEF CommandState, SameCommand
  <2> QED
    BY <1>1, <1>3, <2>1, <2>2
<1>4. CASE /\ UNCHANGED <<objects, seen>>
           /\ cmd' = [cmd EXCEPT !.orphans = cmd.orphans \ {row}, !.skipped = TRUE]
  <2>1. cmd' \in CommandState
    BY <1>1, <1>4 DEF CommandState
  <2>2. /\ SameCommand /\ cmd'.pc = cmd.pc /\ cmd'.answer = cmd.answer
        /\ cmd'.todo = cmd.todo /\ cmd'.orphans = cmd.orphans \ {row}
        /\ cmd'.errs = cmd.errs /\ cmd'.skipped
    BY <1>1, <1>4 DEF CommandState, SameCommand
  <2> QED
    BY <1>1, <1>4, <2>1, <2>2
<1> QED
  BY <1>2, <1>3, <1>4

\* The query that fsck walks over: the rows and, of them, those that have lost
\* their message.
LEMMA StartFsckEffect ==
    ASSUME StartFsck
    PROVE  /\ cmd' \in CommandState
           /\ cmd.pc = "idle" /\ cmd'.pc = "check" /\ cmd'.op = "fsck"
           /\ cmd'.todo = Rows /\ cmd'.gone = {row \in Rows : row.msg \notin channel}
           /\ cmd'.orphans = {} /\ Rows \subseteq Row /\ ~replaced
<1> DEFINE lost == {row \in Rows : row.msg \notin channel}
           c == [NoCommand EXCEPT !.pc = "check", !.op = "fsck", !.todo = Rows, !.gone = lost]
<1>1. Rows \subseteq Row /\ lost \subseteq Row
  BY DEF Rows
<1>2. cmd' = c /\ cmd.pc = "idle" /\ ~replaced
  BY DEF StartFsck, Advance, Running, BeforeDump
<1> HIDE DEF lost
<1>3. c \in CommandState
  BY <1>1 DEF CommandState, NoCommand
<1>4. /\ c.pc = "check" /\ c.op = "fsck" /\ c.todo = Rows /\ c.gone = lost /\ c.orphans = {}
  BY DEF NoCommand
<1> HIDE DEF c
<1> QED
  BY <1>1, <1>2, <1>3, <1>4 DEF lost

LEMMA StartExportEffect ==
    ASSUME StartExport
    PROVE  /\ cmd' \in CommandState
           /\ cmd.pc = "idle" /\ cmd'.pc = "exportBuckets" /\ cmd'.op = "export"
           /\ dump = NoDump
<1> DEFINE c == [NoCommand EXCEPT !.pc = "exportBuckets", !.op = "export"]
<1>1. ExportAfter("idle") = "exportBuckets"
  BY DEF ExportAfter
<1>2. cmd' = c /\ cmd.pc = "idle" /\ dump = NoDump
  BY <1>1 DEF StartExport, Advance, Running, BeforeDump
<1>3. c \in CommandState /\ c.pc = "exportBuckets" /\ c.op = "export"
  BY DEF CommandState, NoCommand
<1> HIDE DEF c
<1> QED
  BY <1>2, <1>3

\* An import is refused, or has the whole file before it.
LEMMA StartImportEffect ==
    ASSUME CommandTyped, StartImport
    PROVE  /\ cmd' \in CommandState
           /\ cmd.pc = "idle" /\ cmd'.op = "import" /\ replaced'
           /\ \/ cmd'.pc = "done" /\ cmd'.answer = "error"
              \/ /\ cmd'.pc = "import" /\ cmd'.todo = dump.names \cup dump.rows
                 /\ cmd'.absent = Bucket \ buckets
<1> DEFINE all == dump.names \cup dump.rows
           missing == Bucket \ buckets
           refused == [NoCommand EXCEPT !.pc = "done", !.op = "import", !.answer = "error"]
           begun == [NoCommand EXCEPT !.pc = "import", !.op = "import",
                                      !.todo = all, !.absent = missing]
<1>1. all \subseteq Bucket \cup Row /\ missing \subseteq Bucket
  BY DEF CommandTyped, Dump
<1>2. (cmd' = refused \/ cmd' = begun) /\ cmd.pc = "idle" /\ replaced'
  BY DEF StartImport, Advance, Running
<1>3. /\ refused \in CommandState
      /\ refused.pc = "done" /\ refused.op = "import" /\ refused.answer = "error"
  BY DEF CommandState, NoCommand
<1> HIDE DEF all, missing
<1>4. /\ begun \in CommandState
      /\ begun.pc = "import" /\ begun.op = "import"
      /\ begun.todo = all /\ begun.absent = missing
  BY <1>1 DEF CommandState, NoCommand
<1> HIDE DEF refused, begun
<1> QED
  BY <1>2, <1>3, <1>4 DEF all, missing

\* A record that has been restored is not left to do.
LEMMA RestoredEffect ==
    ASSUME CommandTyped, NEW record, Advance([cmd EXCEPT !.todo = @ \ {record}])
    PROVE  /\ cmd' \in CommandState /\ SameCommand
           /\ cmd'.pc = cmd.pc /\ cmd'.todo = cmd.todo \ {record} /\ cmd'.answer = cmd.answer
<1>1. cmd \in CommandState /\ cmd' = [cmd EXCEPT !.todo = cmd.todo \ {record}]
  BY DEF CommandTyped, Advance
<1>2. cmd' \in CommandState
  BY <1>1 DEF CommandState
<1> QED
  BY <1>1, <1>2 DEF CommandState, SameCommand

\* The sections of the file, each one query; when it fails, part of it is there.
LEMMA ExportBucketsEffect ==
    ASSUME TypeOK, CommandTyped, ExportBuckets
    PROVE  /\ cmd' \in CommandState /\ SameCommand /\ dump' \in Dump
           /\ cmd.pc = "exportBuckets" /\ cmd'.pc \in {"exportObjects", "done"}
           /\ cmd'.todo = cmd.todo
           /\ cmd'.pc = "exportObjects" => dump'.names = buckets
           /\ dump'.rows = dump.rows /\ dump'.absent = dump.absent
<1> DEFINE whole == [dump EXCEPT !.names = buckets]
           part(lines) == [[dump EXCEPT !.names = lines] EXCEPT !.cut = TRUE]
<1>1. dump \in Dump /\ buckets \subseteq Bucket /\ cmd.pc = "exportBuckets"
  BY DEF TypeOK, CommandTyped, ExportBuckets, ExportSection, Running
<1>2. ExportAfter("exportBuckets") = "exportObjects"
  BY DEF ExportAfter
<1>3. \/ dump' = whole /\ Advance([cmd EXCEPT !.pc = "exportObjects"])
      \/ \E lines \in SUBSET buckets : dump' = part(lines) /\ Exit("error")
  BY <1>2 DEF ExportBuckets, ExportSection
<1>4. CASE dump' = whole /\ Advance([cmd EXCEPT !.pc = "exportObjects"])
  <2>1. whole \in Dump /\ whole.names = buckets
        /\ whole.rows = dump.rows /\ whole.absent = dump.absent
    BY <1>1 DEF Dump
  <2> HIDE DEF whole
  <2> QED
    BY <1>1, <1>4, <2>1, SectionEffect
<1>5. ASSUME NEW lines \in SUBSET buckets, dump' = part(lines), Exit("error")
      PROVE  /\ cmd' \in CommandState /\ SameCommand /\ dump' \in Dump
             /\ cmd'.pc = "done" /\ cmd'.todo = cmd.todo
             /\ dump'.rows = dump.rows /\ dump'.absent = dump.absent
  <2>1. /\ part(lines) \in Dump
        /\ part(lines).rows = dump.rows /\ part(lines).absent = dump.absent
    BY <1>1 DEF Dump
  <2> HIDE DEF part
  <2> QED
    BY <1>5, <2>1, ExitEffect
<1> HIDE DEF whole, part
<1>6. CASE \E lines \in SUBSET buckets : dump' = part(lines) /\ Exit("error")
  BY <1>1, <1>5, <1>6
<1> QED
  BY <1>3, <1>4, <1>6

LEMMA ExportObjectsEffect ==
    ASSUME TypeOK, CommandTyped, ExportObjects
    PROVE  /\ cmd' \in CommandState /\ SameCommand /\ dump' \in Dump
           /\ cmd.pc = "exportObjects" /\ cmd'.pc = "done" /\ cmd'.todo = cmd.todo
           /\ dump'.rows \subseteq Rows /\ dump'.names = dump.names
           /\ dump'.absent = dump.absent \cup (Bucket \ buckets)
<1> DEFINE absent == dump.absent \cup (Bucket \ buckets)
           whole == [dump EXCEPT !.rows = Rows, !.absent = absent]
           part(lines) == [[dump EXCEPT !.rows = lines, !.absent = absent] EXCEPT !.cut = TRUE]
<1>1. /\ dump \in Dump /\ cmd.pc = "exportObjects"
      /\ Rows \subseteq Row /\ absent \subseteq Bucket
  BY DEF CommandTyped, ExportObjects, ExportSection, Running, Rows, Dump
<1>2. ExportAfter("exportObjects") = "done"
  BY DEF ExportAfter
<1>3. \/ dump' = whole /\ Advance([cmd EXCEPT !.pc = "done"])
      \/ \E lines \in SUBSET Rows : dump' = part(lines) /\ Exit("error")
  BY <1>2 DEF ExportObjects, ExportSection
<1> HIDE DEF absent
<1>4. CASE dump' = whole /\ Advance([cmd EXCEPT !.pc = "done"])
  <2>1. whole \in Dump /\ whole.rows = Rows
        /\ whole.names = dump.names /\ whole.absent = absent
    BY <1>1 DEF Dump
  <2> HIDE DEF whole
  <2>2. cmd' \in CommandState /\ SameCommand /\ cmd'.pc = "done" /\ cmd'.todo = cmd.todo
    BY <1>4, SectionEffect
  <2> QED
    BY <1>1, <1>4, <2>1, <2>2 DEF absent
<1>5. ASSUME NEW lines \in SUBSET Rows, dump' = part(lines), Exit("error")
      PROVE  /\ cmd' \in CommandState /\ SameCommand /\ dump' \in Dump
             /\ cmd'.pc = "done" /\ cmd'.todo = cmd.todo
             /\ dump'.rows \subseteq Rows /\ dump'.names = dump.names /\ dump'.absent = absent
  <2>1. /\ part(lines) \in Dump /\ part(lines).rows = lines
        /\ part(lines).names = dump.names /\ part(lines).absent = absent
    BY <1>1 DEF Dump
  <2> HIDE DEF part
  <2> QED
    BY <1>5, <2>1, ExitEffect
<1> HIDE DEF whole, part
<1>6. CASE \E lines \in SUBSET Rows : dump' = part(lines) /\ Exit("error")
  BY <1>1, <1>5, <1>6 DEF absent
<1> QED
  BY <1>3, <1>4, <1>6

\* The history of the buckets that the file cannot name.
LEMMA ServiceDump ==
    ASSUME TypeOK, TypeOK', CommandTyped, ServiceStep
    PROVE  /\ dump' \in Dump /\ dump'.names = dump.names /\ dump'.rows = dump.rows
           /\ dump.absent \subseteq dump'.absent
           /\ cmd.op = "export" /\ ~Running("done") => buckets' \ buckets \subseteq dump'.absent
<1> DEFINE absent == dump.absent \cup (buckets' \ buckets)
           d == [dump EXCEPT !.absent = absent]
<1>1. dump \in Dump /\ absent \subseteq Bucket
  BY DEF TypeOK, CommandTyped, Dump
<1>2. IF cmd.op = "export" /\ ~Running("done") THEN dump' = d ELSE dump' = dump
  BY DEF ServiceStep
<1> HIDE DEF absent
<1>3. d \in Dump /\ d.names = dump.names /\ d.rows = dump.rows /\ d.absent = absent
  BY <1>1 DEF Dump
<1> HIDE DEF d
<1> QED
  BY <1>1, <1>2, <1>3 DEF absent

-----------------------------------------------------------------------------
(* Types, and which command takes which step *)

AdminTyped == TypeOK /\ CommandTyped /\ Phases

LEMMA TypedInit == AdminInit => AdminTyped
<1> SUFFICES ASSUME AdminInit PROVE AdminTyped
  OBVIOUS
<1>1. TypeOK
  BY TypeInit DEF AdminInit
<1>2. NoCommand \in CommandState /\ NoCommand.pc = "idle" /\ NoCommand.op = None
  BY DEF CommandState, NoCommand
<1>3. NoDump \in Dump
  BY DEF Dump, NoDump
<1> QED
  BY <1>1, <1>2, <1>3 DEF AdminInit, AdminTyped, CommandTyped, Phases, Running, None

\* A step of a command leaves the requests alone, so that only the rows and the
\* names it writes have to keep their types.
LEMMA TypedStores ==
    ASSUME TypeOK, UNCHANGED req, buckets' \subseteq Bucket,
           objects' \in [Bucket -> [Key -> Message \cup {NoMessage}]],
           cipherCache' \in [Bucket -> DataKey \cup {NoKey}],
           channel' \subseteq Message,
           seen' \in [Request -> SUBSET (Message \cup {NoMessage})],
           UNCHANGED <<keyOf, cached, sealedWith, nextMessage, nextKey>>
    PROVE  TypeOK'
<1>1. StoreTyped /\ ReqTyped
  BY TypeSplit
<1>2. StoreTyped'
  BY <1>1 DEF StoreTyped
<1>3. ReqTyped'
  BY <1>1 DEF ReqTyped, WellFormed
<1> QED
  BY <1>2, <1>3 DEF TypeOK, StoreTyped, ReqTyped, WellFormed, InFlight, HoldsCipher, HoldsMessage

LEMMA TypedStutter ==
    ASSUME TypeOK, UNCHANGED vars
    PROVE  TypeOK'
  BY TypeNext

\* Of the file, a row is what is left when no bucket is.
LEMMA RowsAreLeft ==
    ASSUME CommandTyped, cmd.todo \cap Bucket = {}, NEW row \in cmd.todo
    PROVE  row \in Row
  BY DEF CommandTyped, CommandState

LEMMA StoresTyped ==
    ASSUME TypeOK, CommandTyped, [AdminNext]_allVars
    PROVE  TypeOK'
<1>1. CASE StartFsck \/ FsckCheck \/ FsckReadFails \/ FsckWalked \/ FsckEnd
           \/ StartExport \/ ExportBuckets \/ ExportObjects \/ StartImport \/ ImportEnd
           \/ CommandExits \/ UNCHANGED allVars
  <2>1. UNCHANGED vars
    BY <1>1 DEF StartFsck, FsckCheck, FsckReadFails, FsckWalked, FsckEnd, StartExport,
                ExportBuckets, ExportObjects, ExportSection, StartImport, ImportEnd,
                CommandExits, allVars
  <2> QED
    BY <2>1, TypedStutter
<1>2. CASE ServiceStep
  BY <1>2, TypeNext DEF ServiceStep
<1>3. StoreTyped
  BY TypeSplit
<1>4. CASE FsckFix
  <2>1. /\ UNCHANGED <<buckets, keyOf, cipherCache, cached, channel, sealedWith, nextMessage,
                       nextKey, req>>
        /\ \/ UNCHANGED <<objects, seen>>
           \/ \E row : SetRow(row.bucket, row.key, NoMessage)
    BY <1>4 DEF FsckFix
  <2>2. /\ objects' \in [Bucket -> [Key -> Message \cup {NoMessage}]]
        /\ seen' \in [Request -> SUBSET (Message \cup {NoMessage})]
    BY <1>3, <2>1, SetRowTyped DEF StoreTyped
  <2> QED
    BY <1>3, <2>1, <2>2, TypedStores DEF StoreTyped
<1>5. CASE ImportBucket
  <2>1. /\ UNCHANGED <<objects, keyOf, cipherCache, cached, channel, sealedWith, nextMessage,
                       nextKey, req, seen>>
        /\ \E b \in Bucket : buckets' \in {buckets, buckets \cup {b}}
    BY <1>5 DEF ImportBucket
  <2>2. buckets' \subseteq Bucket
    BY <1>3, <2>1 DEF StoreTyped
  <2> QED
    BY <1>3, <2>1, <2>2, TypedStores DEF StoreTyped
<1>6. CASE ImportObject
  <2>1. /\ UNCHANGED <<buckets, keyOf, cipherCache, cached, channel, sealedWith, nextMessage,
                       nextKey, req>>
        /\ cmd.todo \cap Bucket = {}
        /\ \E row \in cmd.todo : UNCHANGED <<objects, seen>> \/ SetRow(row.bucket, row.key, row.msg)
    BY <1>6 DEF ImportObject
  <2>2. PICK row \in Row : UNCHANGED <<objects, seen>> \/ SetRow(row.bucket, row.key, row.msg)
    BY <2>1, RowsAreLeft
  <2>3. row.msg \in Message \cup {NoMessage}
    BY DEF Row
  <2>4. /\ objects' \in [Bucket -> [Key -> Message \cup {NoMessage}]]
        /\ seen' \in [Request -> SUBSET (Message \cup {NoMessage})]
    BY <1>3, <2>2, <2>3, SetRowTyped DEF StoreTyped
  <2> QED
    BY <1>3, <2>1, <2>4, TypedStores DEF StoreTyped
<1>7. CASE LoseMessage
  <2>1. /\ UNCHANGED <<buckets, objects, keyOf, cipherCache, cached, sealedWith, nextMessage,
                       nextKey, req, seen>>
        /\ channel' \subseteq channel
    BY <1>7 DEF LoseMessage
  <2> QED
    BY <1>3, <2>1, TypedStores DEF StoreTyped
<1>8. CASE LoseIndex
  <2>1. /\ UNCHANGED <<keyOf, cached, channel, sealedWith, nextMessage, nextKey, req, seen>>
        /\ buckets' = {} /\ objects' = [b \in Bucket |-> [k \in Key |-> NoMessage]]
        /\ cipherCache' = [b \in Bucket |-> NoKey]
    BY <1>8 DEF LoseIndex
  <2>2. objects' \in [Bucket -> [Key -> Message \cup {NoMessage}]]
    BY <2>1
  <2> QED
    BY <1>3, <2>1, <2>2, TypedStores DEF StoreTyped
<1> QED
  BY <1>1, <1>2, <1>4, <1>5, <1>6, <1>7, <1>8 DEF AdminNext

LEMMA PhasesNext ==
    ASSUME AdminTyped, [AdminNext]_allVars
    PROVE  CommandTyped' /\ Phases'
<1> USE DEF AdminTyped
<1>1. CASE StartFsck
  BY <1>1, StartFsckEffect DEF CommandTyped, Phases, Running, StartFsck
<1>2. CASE FsckCheck
  <2>1. UNCHANGED <<dump, replaced>>
    BY <1>2 DEF FsckCheck
  <2> QED
    BY <1>2, <2>1, CheckEffect DEF CommandTyped, Phases, Running, SameCommand
<1>3. CASE FsckFix
  <2>1. UNCHANGED <<dump, replaced>>
    BY <1>3 DEF FsckFix
  <2> QED
    BY <1>3, <2>1, FixEffect DEF CommandTyped, Phases, Running, SameCommand
<1>4. CASE FsckWalked
  <2>1. UNCHANGED <<dump, replaced>> /\ cmd.pc = "check" /\ Advance([cmd EXCEPT !.pc = "fix"])
    BY <1>4 DEF FsckWalked, Running
  <2> QED
    BY <2>1, SectionEffect DEF CommandTyped, Phases, Running, SameCommand
<1>5. CASE FsckReadFails \/ FsckEnd \/ ImportEnd
  <2>1. /\ UNCHANGED <<dump, replaced>>
        /\ \E answer \in {"ok", "error"} : Exit(answer)
    BY <1>5 DEF FsckReadFails, FsckEnd, ImportEnd
  <2> QED
    BY <2>1, ExitEffect DEF CommandTyped, Phases, Running, SameCommand
<1>6. CASE StartExport
  BY <1>6, StartExportEffect DEF CommandTyped, Phases, Running, StartExport
<1>7. CASE ExportBuckets
  <2>1. UNCHANGED replaced
    BY <1>7 DEF ExportBuckets, ExportSection
  <2> QED
    BY <1>7, <2>1, ExportBucketsEffect DEF CommandTyped, Phases, Running, SameCommand
<1>8. CASE ExportObjects
  <2>1. UNCHANGED replaced
    BY <1>8 DEF ExportObjects, ExportSection
  <2> QED
    BY <1>8, <2>1, ExportObjectsEffect DEF CommandTyped, Phases, Running, SameCommand
<1>9. CASE StartImport
  BY <1>9, StartImportEffect DEF CommandTyped, Phases, Running, StartImport
<1>10. CASE ImportBucket \/ ImportObject
  <2>1. UNCHANGED <<dump, replaced>> /\ cmd.pc = "import"
    BY <1>10 DEF ImportBucket, ImportObject, Running
  <2>2. Exit("error") \/ \E record : Advance([cmd EXCEPT !.todo = @ \ {record}])
    BY <1>10 DEF ImportBucket, ImportObject
  <2>3. CASE Exit("error")
    BY <2>1, <2>3, ExitEffect DEF CommandTyped, Phases, Running, SameCommand
  <2>4. CASE \E record : Advance([cmd EXCEPT !.todo = @ \ {record}])
    BY <2>1, <2>4, RestoredEffect DEF CommandTyped, Phases, Running, SameCommand
  <2> QED
    BY <2>2, <2>3, <2>4
<1>11. CASE CommandExits
  <2>1. NoCommand \in CommandState /\ NoCommand.pc = "idle" /\ NoCommand.op = None
    BY DEF CommandState, NoCommand
  <2>2. cmd' = NoCommand /\ UNCHANGED <<dump, replaced>>
    BY <1>11 DEF CommandExits, Advance
  <2> QED
    BY <2>1, <2>2 DEF CommandTyped, Phases, Running, None
<1>12. CASE LoseMessage \/ LoseIndex \/ UNCHANGED allVars
  <2>1. UNCHANGED <<cmd, dump>> /\ replaced' \in {replaced, TRUE}
    BY <1>12 DEF LoseMessage, LoseIndex, adminVars, allVars
  <2> QED
    BY <2>1 DEF CommandTyped, Phases, Running
<1>13. CASE ServiceStep
  <2>1. UNCHANGED <<cmd, replaced>> /\ TypeOK'
    BY <1>13, TypeNext DEF ServiceStep
  <2> QED
    BY <1>13, <2>1, ServiceDump DEF CommandTyped, Phases, Running
<1> QED
  BY <1>1, <1>2, <1>3, <1>4, <1>5, <1>6, <1>7, <1>8, <1>9, <1>10, <1>11, <1>12, <1>13
     DEF AdminNext

LEMMA TypedNext == AdminTyped /\ [AdminNext]_allVars => AdminTyped'
  BY StoresTyped, PhasesNext DEF AdminTyped

-----------------------------------------------------------------------------
(* Uploads beside the commands *)

LEMMA UploadsKept ==
    ASSUME Uploads, UNCHANGED <<objects, channel, nextMessage, req>>
    PROVE  Uploads'
  BY DEF Uploads, MessagesSent, UploadPrivate, CommitSent, Holding, Uncommitted, At

LEMMA UploadsNext ==
    ASSUME AdminTyped, ~replaced => Uploads, [AdminNext]_allVars, ~replaced'
    PROVE  Uploads'
<1>1. Uploads
  <2>1. replaced => replaced'
    BY DEF AdminNext, StartFsck, FsckCheck, FsckReadFails, FsckWalked, FsckFix, FsckEnd,
           StartExport, ExportBuckets, ExportObjects, ExportSection, StartImport, ImportBucket,
           ImportObject, ImportEnd, CommandExits, LoseMessage, LoseIndex, ServiceStep,
           adminVars, allVars
  <2> QED
    BY <2>1
<1>2. CASE StartFsck \/ FsckCheck \/ FsckReadFails \/ FsckWalked \/ FsckEnd
           \/ StartExport \/ ExportBuckets \/ ExportObjects \/ StartImport \/ ImportEnd
           \/ CommandExits \/ UNCHANGED allVars
  <2>1. UNCHANGED <<objects, channel, nextMessage, req>>
    BY <1>2 DEF StartFsck, FsckCheck, FsckReadFails, FsckWalked, FsckEnd, StartExport,
                ExportBuckets, ExportObjects, ExportSection, StartImport, ImportEnd,
                CommandExits, allVars, vars
  <2> QED
    BY <1>1, <2>1, UploadsKept
<1>3. CASE ServiceStep
  BY <1>1, <1>3, UploadNext DEF ServiceStep, AdminTyped
<1>4. CASE FsckFix
  <2>1. /\ UNCHANGED <<channel, nextMessage, req>>
        /\ UNCHANGED objects \/ \E row \in Row : SetRow(row.bucket, row.key, NoMessage)
    BY <1>4, FixEffect DEF AdminTyped, FsckFix
  <2>2. \A b \in Bucket, k \in Key : objects'[b][k] \in {objects[b][k], NoMessage}
    BY <2>1, SetRowEffect DEF AdminTyped, Row
  <2>3. /\ \A b \in Bucket, k \in Key : objects[b][k] < nextMessage
        /\ NoMessage < nextMessage
        /\ \A r \in Request : Uncommitted(r) => req[r].msg # NoMessage
    BY <1>1, BoundAssumption DEF Uploads, MessagesSent, AdminTyped, TypeOK, Uncommitted, At,
                                 Message, NoMessage
  <2> QED
    BY <1>1, <2>1, <2>2, <2>3
       DEF Uploads, MessagesSent, UploadPrivate, CommitSent, Holding, Uncommitted, At
<1>5. CASE LoseMessage
  <2>1. PICK row \in Rows : row.msg \in channel /\ channel' = channel \ {row.msg}
    BY <1>5 DEF LoseMessage
  <2>2. row.bucket \in Bucket /\ row.key \in Key /\ objects[row.bucket][row.key] = row.msg
    BY DEF Rows, Row
  <2>3. \A r \in Request : At(r, "commit") => req[r].msg # row.msg
    BY <1>1, <2>2 DEF Uploads, UploadPrivate, Uncommitted
  <2>4. UNCHANGED <<objects, nextMessage, req>>
    BY <1>5 DEF LoseMessage
  <2> QED
    BY <1>1, <2>1, <2>3, <2>4
       DEF Uploads, MessagesSent, UploadPrivate, CommitSent, Holding, Uncommitted, At
<1>6. CASE LoseIndex \/ ImportBucket \/ ImportObject
  <2>1. replaced'
    BY <1>6 DEF LoseIndex, ImportBucket, ImportObject, AdminTyped, Phases
  <2> QED
    BY <2>1
<1> QED
  BY <1>2, <1>3, <1>4, <1>5, <1>6 DEF AdminNext

-----------------------------------------------------------------------------
(* fsck *)

LEMMA RowFacts ==
    ASSUME TypeOK, NEW row \in Row
    PROVE  /\ row.bucket \in Bucket /\ row.key \in Key /\ row.msg \in Message
           /\ row.msg # NoMessage
           /\ row \in Rows <=> objects[row.bucket][row.key] = row.msg
           /\ row \in Rows' <=> objects'[row.bucket][row.key] = row.msg
<1>1. row.bucket \in Bucket /\ row.key \in Key /\ row.msg \in Message
  BY DEF Row
<1>2. row.msg # NoMessage
  BY <1>1 DEF Message, NoMessage
<1> QED
  BY <1>1, <1>2 DEF Rows

\* While fsck walks on, the daemon brings back no message that was lost, and
\* no row of such a message.
LEMMA LostStaysLost ==
    ASSUME TypeOK, Uploads, [Next]_vars
    PROVE  /\ \A row \in Row : Lost(row) => Lost(row)'
           /\ \A row \in Row : row.msg < nextMessage => row.msg < nextMessage'
           /\ \A row \in Row : Lost(row) /\ row \in Rows' => row \in Rows
<1>1. /\ channel' \subseteq channel \cup {nextMessage}
      /\ nextMessage' \in {nextMessage, nextMessage + 1}
      /\ \A b \in Bucket, k \in Key :
            objects'[b][k] \in {objects[b][k], NoMessage} \cup channel
  BY ServiceGains
<1>2. nextMessage \in Nat /\ Message \subseteq Nat
  BY Numbers
<1> SUFFICES ASSUME NEW row \in Row
             PROVE  /\ Lost(row) => Lost(row)'
                    /\ row.msg < nextMessage => row.msg < nextMessage'
                    /\ Lost(row) /\ row \in Rows' => row \in Rows
  OBVIOUS
<1>3. /\ row.bucket \in Bucket /\ row.key \in Key /\ row.msg \in Message
      /\ row.msg # NoMessage
      /\ row \in Rows <=> objects[row.bucket][row.key] = row.msg
      /\ row \in Rows' <=> objects'[row.bucket][row.key] = row.msg
  BY RowFacts
<1>4. row.msg < nextMessage => row.msg < nextMessage' /\ row.msg # nextMessage
  <2>1. nextMessage \in Nat /\ row.msg \in Nat
    BY <1>2, <1>3
  <2>2. nextMessage' = nextMessage \/ nextMessage' = nextMessage + 1
    BY <1>1
  <2> QED
    BY <2>1, <2>2
<1>5. Lost(row) => Lost(row)'
  BY <1>1, <1>4 DEF Lost
<1>6. Lost(row) /\ row \in Rows' => row \in Rows
  BY <1>1, <1>3 DEF Lost
<1> QED
  BY <1>4, <1>5, <1>6

\* A step beside fsck, or of it, that leaves lost messages lost and brings back
\* no row of one.
LEMMA FsckKept ==
    ASSUME AdminTyped, FsckInv, UNCHANGED cmd, UNCHANGED replaced,
           \A row \in Row : Lost(row) => Lost(row)',
           \A row \in Row : row.msg < nextMessage => row.msg < nextMessage',
           \A row \in Row : Lost(row) /\ row \in Rows' => row \in Rows
    PROVE  FsckInv'
<1> SUFFICES ASSUME cmd.op = "fsck"
             PROVE  /\ ~replaced'
                    /\ Running("check") => \A row \in cmd.todo : row.msg < nextMessage'
                    /\ \A row \in cmd.gone \cup cmd.orphans : Lost(row)'
                    /\ cmd.gone \cap Rows' \subseteq cmd.gone \cap Rows
  BY DEF FsckInv, FsckRepairs, Running
<1>1. cmd.gone \subseteq Row /\ cmd.orphans \subseteq Row
  BY DEF AdminTyped, CommandTyped, CommandState
<1>2. /\ \A row \in cmd.gone \cup cmd.orphans : row \in Row /\ Lost(row)
      /\ Running("check") => \A row \in cmd.todo : row \in Row /\ row.msg < nextMessage
  BY <1>1 DEF FsckInv, AdminTyped, CommandTyped
<1> QED
  BY <1>2 DEF FsckInv

LEMMA FsckNext ==
    ASSUME AdminTyped, ~replaced => Uploads, FsckInv, [AdminNext]_allVars
    PROVE  FsckInv'
<1> USE DEF AdminTyped
<1>1. ASSUME cmd'.op # "fsck" PROVE FsckInv'
  BY <1>1 DEF FsckInv
<1>2. ASSUME UNCHANGED <<objects, channel, nextMessage>>
      PROVE  Rows' = Rows /\ \A row \in Row : Lost(row)' <=> Lost(row)
  BY <1>2 DEF Rows, Lost
<1>3. CASE StartFsck
  <2>1. UNCHANGED <<objects, channel, nextMessage, replaced>>
    BY <1>3 DEF StartFsck, vars
  <2>2. \A row \in Rows : row.msg < nextMessage
    BY <1>3, StartFsckEffect DEF Uploads, MessagesSent, Rows, Row
  <2> QED
    BY <1>2, <1>3, <2>1, <2>2, StartFsckEffect DEF FsckInv, FsckRepairs, Running, Lost
<1>4. CASE FsckCheck
  <2>1. UNCHANGED <<objects, channel, nextMessage, replaced>>
    BY <1>4 DEF FsckCheck, vars
  <2>2. cmd.op = "fsck" /\ cmd.gone \subseteq Row
    BY <1>4, CheckEffect DEF Phases, Running, CommandTyped, CommandState
  <2>3. PICK row \in cmd.todo :
           /\ cmd'.todo = cmd.todo \ {row}
           /\ \/ row.msg \in channel /\ cmd'.orphans = cmd.orphans /\ cmd'.errs = cmd.errs
              \/ /\ row.msg \notin channel
                 /\ cmd'.orphans = cmd.orphans \cup {row} /\ cmd'.errs = cmd.errs
              \/ cmd'.orphans = cmd.orphans /\ cmd'.errs
    BY <1>4, CheckEffect
  <2>4. cmd'.pc = "check" /\ SameCommand /\ Running("check") /\ cmd.todo \subseteq Row
    BY <1>4, CheckEffect DEF Running
  <2>5. /\ ~replaced /\ (\A x \in cmd.todo : x.msg < nextMessage)
        /\ \A x \in cmd.gone \cup cmd.orphans : Lost(x)
        /\ ~cmd.errs => cmd.gone \cap Rows \subseteq cmd.todo \cup cmd.orphans
    BY <2>2, <2>4 DEF FsckInv
  <2>6. \A x \in cmd'.orphans : Lost(x)
    BY <2>3, <2>5 DEF Lost
  <2>7. ~cmd'.errs => cmd.gone \cap Rows \subseteq cmd'.todo \cup cmd'.orphans
    <3>1. row \in cmd.gone => row.msg \notin channel
      BY <2>5 DEF Lost
    <3> QED
      BY <2>3, <2>5, <3>1
  <2>8. Rows' = Rows /\ \A x \in Row : Lost(x)' <=> Lost(x)
    BY <1>2, <2>1
  <2>9. cmd'.orphans \subseteq Row
    BY <1>4, CheckEffect DEF CommandState
  <2> QED
    BY <2>1, <2>2, <2>3, <2>4, <2>5, <2>6, <2>7, <2>8, <2>9
       DEF FsckInv, FsckRepairs, Running, SameCommand
<1>5. CASE FsckWalked
  <2>1. /\ UNCHANGED <<objects, channel, nextMessage, replaced>>
        /\ Advance([cmd EXCEPT !.pc = "fix"]) /\ Running("check") /\ cmd.todo = {}
    BY <1>5 DEF FsckWalked, vars
  <2>2. /\ Rows' = Rows
        /\ cmd.gone \subseteq Row /\ cmd.orphans \subseteq Row
        /\ \A row \in Row : Lost(row)' <=> Lost(row)
    BY <1>2, <2>1 DEF CommandTyped, CommandState
  <2> QED
    BY <2>1, <2>2, SectionEffect DEF FsckInv, FsckRepairs, Running, SameCommand, Phases
<1>6. CASE FsckReadFails
  <2>1. /\ UNCHANGED <<objects, channel, nextMessage, replaced>>
        /\ Exit("error") /\ Running("check")
    BY <1>6 DEF FsckReadFails, vars
  <2>2. /\ Rows' = Rows
        /\ cmd.gone \subseteq Row /\ cmd.orphans \subseteq Row
        /\ \A row \in Row : Lost(row)' <=> Lost(row)
    BY <1>2, <2>1 DEF CommandTyped, CommandState
  <2> QED
    BY <2>1, <2>2, ExitEffect DEF FsckInv, FsckRepairs, Running, SameCommand, Phases
<1>7. CASE FsckFix
  <2>1. UNCHANGED <<channel, nextMessage, replaced>>
    BY <1>7 DEF FsckFix
  <2>2. PICK row \in cmd.orphans :
           /\ row \in Row /\ cmd'.orphans = cmd.orphans \ {row}
           /\ \/ SetRow(row.bucket, row.key, NoMessage) /\ cmd'.skipped = cmd.skipped
              \/ UNCHANGED <<objects, seen>> /\ cmd'.skipped
    BY <1>7, FixEffect
  <2>3. /\ cmd'.pc = "fix" /\ Running("fix") /\ SameCommand /\ cmd'.errs = cmd.errs
        /\ cmd.op = "fsck"
    BY <1>7, FixEffect DEF Running, Phases
  <2>4. /\ ~replaced /\ \A x \in cmd.gone \cup cmd.orphans : Lost(x)
        /\ ~cmd.errs /\ ~cmd.skipped => cmd.gone \cap Rows \subseteq cmd.orphans
    BY <2>3 DEF FsckInv
  <2>5. ~cmd'.errs /\ ~cmd'.skipped => cmd.gone \cap Rows' \subseteq cmd'.orphans
    <3> SUFFICES ASSUME ~cmd.errs, ~cmd'.skipped, NEW x \in cmd.gone \cap Rows'
                 PROVE  x \in cmd'.orphans
      BY <2>3
    <3>1. SetRow(row.bucket, row.key, NoMessage) /\ ~cmd.skipped
      BY <2>2
    <3>2. /\ x \in Row /\ x.bucket \in Bucket /\ x.key \in Key /\ x.msg # NoMessage
          /\ objects'[x.bucket][x.key] = x.msg
      BY RowFacts DEF Rows
    <3>3. /\ objects'[row.bucket][row.key] = NoMessage
          /\ \A b \in Bucket, k \in Key :
                b # row.bucket \/ k # row.key => objects'[b][k] = objects[b][k]
      BY <2>2, <3>1, RowFacts, SetRowEffect
    <3>4. x.bucket # row.bucket \/ x.key # row.key
      BY <3>2, <3>3
    <3>5. x \in Rows /\ x # row
      BY <3>2, <3>3, <3>4 DEF Rows
    <3> QED
      BY <2>2, <2>4, <3>1, <3>5
  <2>6. \A x : Lost(x)' <=> Lost(x)
    BY <2>1 DEF Lost
  <2> QED
    BY <2>1, <2>2, <2>3, <2>4, <2>5, <2>6 DEF FsckInv, FsckRepairs, Running, SameCommand
<1>8. CASE FsckEnd
  <2>1. /\ UNCHANGED <<objects, channel, nextMessage, replaced>>
        /\ Running("fix") /\ cmd.orphans = {}
    BY <1>8 DEF FsckEnd, vars
  <2>2. PICK answer \in {"ok", "error"} : Exit(answer) /\ (answer = "ok" => ~cmd.errs)
    BY <1>8 DEF FsckEnd
  <2>3. /\ Rows' = Rows
        /\ cmd.gone \subseteq Row /\ cmd.orphans \subseteq Row
        /\ \A row \in Row : Lost(row)' <=> Lost(row)
    BY <1>2, <2>1 DEF CommandTyped, CommandState
  <2> QED
    BY <2>1, <2>2, <2>3, ExitEffect DEF FsckInv, FsckRepairs, Running, SameCommand, Phases
<1>9. CASE StartExport \/ StartImport
  BY <1>1, <1>9, StartExportEffect, StartImportEffect
<1>10. CASE ExportBuckets \/ ExportObjects
  <2>1. cmd.op = "export" /\ SameCommand
    BY <1>10, ExportBucketsEffect, ExportObjectsEffect DEF Phases, Running
  <2> QED
    BY <1>1, <2>1 DEF SameCommand
<1>11. CASE ImportBucket \/ ImportObject \/ ImportEnd
  <2>1. cmd.op = "import"
    BY <1>11 DEF ImportBucket, ImportObject, ImportEnd, Phases
  <2>2. (\E answer \in {"ok", "error"} : Exit(answer))
          \/ \E record : Advance([cmd EXCEPT !.todo = @ \ {record}])
    BY <1>11 DEF ImportBucket, ImportObject, ImportEnd
  <2>3. SameCommand
    BY <2>2, ExitEffect, RestoredEffect
  <2> QED
    BY <1>1, <2>1, <2>3 DEF SameCommand
<1>12. CASE CommandExits
  <2>1. NoCommand.op = None
    BY DEF NoCommand
  <2> QED
    BY <1>1, <1>12, <2>1 DEF CommandExits, Advance, None
<1>13. CASE LoseMessage
  <2>1. UNCHANGED <<objects, nextMessage, cmd, replaced>> /\ channel' \subseteq channel
    BY <1>13 DEF LoseMessage, adminVars
  <2> QED
    BY <2>1, FsckKept DEF Lost, Rows
<1>14. CASE LoseIndex
  <2>1. UNCHANGED cmd /\ cmd.op = None
    BY <1>14 DEF LoseIndex, Phases
  <2> QED
    BY <1>1, <2>1 DEF None
<1>15. CASE ServiceStep
  <2>1. Next /\ UNCHANGED <<cmd, replaced>> /\ ~replaced
    BY <1>15 DEF ServiceStep
  <2> QED
    BY <2>1, LostStaysLost, FsckKept
<1>16. CASE UNCHANGED allVars
  <2>1. UNCHANGED <<objects, nextMessage, channel, cmd, replaced>>
    BY <1>16 DEF allVars, vars, adminVars
  <2> QED
    BY <2>1, FsckKept DEF Lost, Rows
<1> QED
  BY <1>3, <1>4, <1>5, <1>6, <1>7, <1>8, <1>9, <1>10, <1>11, <1>12, <1>13, <1>14, <1>15, <1>16
     DEF AdminNext

-----------------------------------------------------------------------------
(* export-metadata *)

LEMMA DumpKept ==
    ASSUME DumpInv, UNCHANGED dump, ~Running("exportBuckets")', ~Running("exportObjects")'
    PROVE  DumpInv'
  BY DEF DumpInv

LEMMA DumpNext ==
    ASSUME AdminTyped, DumpInv, [AdminNext]_allVars
    PROVE  DumpInv'
<1> USE DEF AdminTyped
<1>1. CASE StartExport
  <2>1. dump' = NoDump /\ cmd'.pc = "exportBuckets"
    BY <1>1, StartExportEffect DEF StartExport
  <2>2. NoDump.rows = {}
    BY DEF NoDump
  <2> QED
    BY <2>1, <2>2 DEF DumpInv, Running
<1>2. CASE ExportBuckets
  <2>1. /\ dump.rows = {} /\ dump'.rows = {}
        /\ cmd'.pc \in {"exportObjects", "done"}
        /\ cmd'.pc = "exportObjects" => dump'.names = buckets
        /\ UNCHANGED buckets
    BY <1>2, ExportBucketsEffect DEF DumpInv, Running, ExportBuckets, ExportSection, vars
  <2> QED
    BY <2>1 DEF DumpInv, Running
<1>3. CASE ExportObjects
  <2>1. /\ buckets \subseteq dump.names \cup dump.absent
        /\ cmd'.pc = "done"
        /\ dump'.rows \subseteq Rows /\ dump'.names = dump.names
        /\ dump'.absent = dump.absent \cup (Bucket \ buckets)
    BY <1>3, ExportObjectsEffect DEF DumpInv, Running
  <2>2. \A row1, row2 \in dump'.rows :
           row1.bucket = row2.bucket /\ row1.key = row2.key => row1 = row2
    <3> SUFFICES ASSUME NEW row1 \in Rows, NEW row2 \in Rows,
                        row1.bucket = row2.bucket, row1.key = row2.key
                 PROVE  row1 = row2
      BY <2>1
    <3>1. row1 \in Row /\ row2 \in Row /\ row1.msg = row2.msg
      BY DEF Rows
    <3> QED
      BY <3>1 DEF Row
  <2>3. \A row \in dump'.rows : row.bucket \in dump'.names \cup dump'.absent
    BY <2>1 DEF Rows, Row
  <2> QED
    BY <2>1, <2>2, <2>3 DEF DumpInv, Running
<1>4. CASE ServiceStep
  <2>1. /\ UNCHANGED cmd /\ dump'.names = dump.names /\ dump'.rows = dump.rows
        /\ dump.absent \subseteq dump'.absent
        /\ cmd.op = "export" /\ ~Running("done") => buckets' \ buckets \subseteq dump'.absent
    <3>1. TypeOK'
      BY <1>4, TypeNext DEF ServiceStep
    <3> QED
      BY <1>4, <3>1, ServiceDump DEF ServiceStep
  <2> QED
    BY <2>1 DEF DumpInv, Running, Phases
<1>5. CASE LoseMessage \/ UNCHANGED allVars
  <2>1. UNCHANGED <<buckets, cmd, dump>>
    BY <1>5 DEF LoseMessage, allVars, vars, adminVars
  <2> QED
    BY <2>1 DEF DumpInv, Running
<1>6. CASE LoseIndex
  <2>1. cmd'.pc = "idle" /\ UNCHANGED dump
    BY <1>6 DEF LoseIndex, Running
  <2> QED
    BY <2>1, DumpKept DEF Running
<1>7. CASE FsckReadFails \/ FsckEnd \/ ImportEnd
  <2>1. UNCHANGED dump /\ \E answer \in {"ok", "error"} : Exit(answer)
    BY <1>7 DEF FsckReadFails, FsckEnd, ImportEnd
  <2> QED
    BY <2>1, ExitEffect, DumpKept DEF Running
<1>8. CASE StartFsck \/ FsckCheck \/ FsckFix
  <2>1. UNCHANGED dump
    BY <1>8 DEF StartFsck, FsckCheck, FsckFix
  <2> QED
    BY <1>8, <2>1, StartFsckEffect, CheckEffect, FixEffect, DumpKept DEF Running
<1>9. CASE FsckWalked
  BY <1>9, SectionEffect, DumpKept DEF FsckWalked, Running
<1>10. CASE StartImport
  <2>1. UNCHANGED dump
    BY <1>10 DEF StartImport
  <2> QED
    BY <1>10, <2>1, StartImportEffect, DumpKept DEF Running
<1>11. CASE ImportBucket \/ ImportObject
  <2>1. UNCHANGED dump /\ cmd.pc = "import"
    BY <1>11 DEF ImportBucket, ImportObject, Running
  <2>2. Exit("error") \/ \E record : Advance([cmd EXCEPT !.todo = @ \ {record}])
    BY <1>11 DEF ImportBucket, ImportObject
  <2>3. cmd'.pc \in {"done", "import"}
    BY <2>1, <2>2, ExitEffect, RestoredEffect
  <2> QED
    BY <2>1, <2>3, DumpKept DEF Running
<1>12. CASE CommandExits
  <2>1. NoCommand.pc = "idle"
    BY DEF NoCommand
  <2> QED
    BY <1>12, <2>1, DumpKept DEF CommandExits, Advance, Running
<1> QED
  BY <1>1, <1>2, <1>3, <1>4, <1>5, <1>6, <1>7, <1>8, <1>9, <1>10, <1>11, <1>12 DEF AdminNext

-----------------------------------------------------------------------------
(* import-metadata *)

\* A command that is not an import, or an import that failed.
LEMMA ImportOver ==
    ASSUME cmd'.pc # "import", cmd'.op # "import" \/ cmd'.answer # "ok" \/ cmd'.pc # "done"
    PROVE  ImportInv'
  BY DEF ImportInv, ImportRestoresAll, Running

LEMMA ImportNext ==
    ASSUME AdminTyped, DumpInv, ImportInv, [AdminNext]_allVars
    PROVE  ImportInv'
<1> USE DEF AdminTyped
<1>1. dump.names \subseteq Bucket /\ dump.rows \subseteq Row
  BY DEF CommandTyped, Dump
<1>2. CASE StartImport
  <2>1. UNCHANGED <<buckets, objects, dump>>
    BY <1>2 DEF StartImport, vars
  <2>2. CASE cmd'.pc = "done" /\ cmd'.answer = "error"
    BY <2>2, ImportOver
  <2>3. CASE /\ cmd'.pc = "import" /\ cmd'.todo = dump.names \cup dump.rows
             /\ cmd'.absent = Bucket \ buckets
    BY <1>1, <2>1, <2>3 DEF ImportInv, ImportRestoresAll, Running
  <2> QED
    BY <1>2, <2>2, <2>3, StartImportEffect
<1>3. CASE Exit("error")
  BY <1>3, ExitEffect, ImportOver
<1>4. CASE ImportBucket
  <2>1. cmd.pc = "import" /\ UNCHANGED <<objects, dump>>
    BY <1>4 DEF ImportBucket, Running
  <2>2. PICK b \in cmd.todo \cap Bucket :
           \/ /\ b \notin buckets /\ buckets' = buckets \cup {b}
              /\ Advance([cmd EXCEPT !.todo = @ \ {b}])
           \/ Exit("error")
    BY <1>4 DEF ImportBucket
  <2>3. CASE /\ b \notin buckets /\ buckets' = buckets \cup {b}
             /\ Advance([cmd EXCEPT !.todo = @ \ {b}])
    <3>1. cmd'.pc = "import" /\ cmd'.todo = cmd.todo \ {b} /\ cmd'.absent = cmd.absent
      BY <2>1, <2>3, RestoredEffect DEF SameCommand
    <3>2. Rows' = Rows
      BY <2>1 DEF Rows
    <3>3. b \notin dump.rows
      BY <1>1, KindsAssumption
    <3> QED
      BY <2>1, <2>2, <2>3, <3>1, <3>2, <3>3 DEF ImportInv, ImportRestoresAll, Running
  <2> QED
    BY <1>3, <2>2, <2>3
<1>5. CASE ImportObject
  <2>1. cmd.pc = "import" /\ cmd.todo \cap Bucket = {} /\ UNCHANGED <<buckets, dump>>
    BY <1>5 DEF ImportObject, Running
  <2>2. PICK row \in cmd.todo :
           \/ /\ SetRow(row.bucket, row.key, row.msg)
              /\ Advance([cmd EXCEPT !.todo = @ \ {row}])
           \/ Exit("error")
    BY <1>5 DEF ImportObject
  <2>3. CASE /\ SetRow(row.bucket, row.key, row.msg)
             /\ Advance([cmd EXCEPT !.todo = @ \ {row}])
    <3>1. cmd'.pc = "import" /\ cmd'.todo = cmd.todo \ {row} /\ cmd'.absent = cmd.absent
      BY <2>1, <2>3, RestoredEffect DEF SameCommand
    <3>2. /\ cmd.todo \subseteq dump.names \cup dump.rows
          /\ dump.names \ cmd.todo \subseteq buckets
          /\ dump.rows \ cmd.todo \subseteq Rows
          /\ dump.names \ cmd.absent \subseteq buckets \cap cmd.todo
      BY <2>1 DEF ImportInv, Running
    <3>3. row \in dump.rows /\ row \in Row /\ row \notin dump.names
      BY <1>1, <2>1, <2>2, <3>2, KindsAssumption
    <3>4. row.bucket \in Bucket /\ row.key \in Key
      BY <3>3, RowFacts
    <3>5. /\ objects'[row.bucket][row.key] = row.msg
          /\ \A b \in Bucket, k \in Key :
                b # row.bucket \/ k # row.key => objects'[b][k] = objects[b][k]
      BY <2>3, <3>4, SetRowEffect
    <3>6. dump.rows \ cmd'.todo \subseteq Rows'
      <4> SUFFICES ASSUME NEW x \in dump.rows \ cmd'.todo PROVE x \in Rows'
        OBVIOUS
      <4>1. x \in Row /\ x.bucket \in Bucket /\ x.key \in Key
            /\ (x \in Rows <=> objects[x.bucket][x.key] = x.msg)
            /\ (x \in Rows' <=> objects'[x.bucket][x.key] = x.msg)
        BY <1>1, RowFacts
      <4>2. CASE x = row
        BY <3>5, <4>1, <4>2
      <4>3. CASE x # row
        <5>1. x \in Rows
          BY <3>1, <3>2, <4>3
        <5>2. x.bucket # row.bucket \/ x.key # row.key
          BY <3>3, <4>3 DEF DumpInv
        <5> QED
          BY <3>5, <4>1, <5>1, <5>2
      <4> QED
        BY <4>2, <4>3
    <3>7. dump.names \ cmd.absent = {}
      BY <1>1, <2>1, <3>2
    <3> QED
      BY <2>1, <3>1, <3>2, <3>3, <3>6, <3>7 DEF ImportInv, ImportRestoresAll, Running
  <2> QED
    BY <1>3, <2>2, <2>3
<1>6. CASE ImportEnd
  <2>1. /\ cmd.pc = "import" /\ cmd.todo = {}
        /\ UNCHANGED <<buckets, objects, dump>>
        /\ \E answer \in {"ok", "error"} : Exit(answer)
    BY <1>6 DEF ImportEnd, Running, vars
  <2>2. dump.names \subseteq buckets /\ dump.rows \subseteq Rows /\ Rows' = Rows
    BY <2>1 DEF ImportInv, Running, Rows
  <2> QED
    BY <2>1, <2>2, ExitEffect DEF ImportInv, ImportRestoresAll, Running
<1>7. CASE StartFsck \/ StartExport
  BY <1>7, StartFsckEffect, StartExportEffect, ImportOver
<1>8. CASE FsckCheck \/ FsckFix \/ FsckWalked
  <2>1. cmd'.pc \in {"check", "fix"}
    BY <1>8, CheckEffect, FixEffect, SectionEffect DEF FsckWalked
  <2> QED
    BY <2>1, ImportOver
<1>9. CASE FsckReadFails
  BY <1>3, <1>9 DEF FsckReadFails
<1>10. CASE FsckEnd
  <2>1. /\ cmd.op = "fsck"
        /\ \E answer \in {"ok", "error"} : Exit(answer)
    BY <1>10 DEF FsckEnd, Phases
  <2> QED
    BY <2>1, ExitEffect, ImportOver DEF SameCommand
<1>11. CASE ExportBuckets \/ ExportObjects
  <2>1. cmd'.op = "export" /\ cmd'.pc # "import"
    BY <1>11, ExportBucketsEffect, ExportObjectsEffect DEF Phases, Running, SameCommand
  <2> QED
    BY <2>1, ImportOver
<1>12. CASE CommandExits \/ LoseIndex
  <2>1. NoCommand.pc = "idle"
    BY DEF NoCommand
  <2>2. cmd'.pc = "idle"
    BY <1>12, <2>1 DEF CommandExits, Advance, LoseIndex, Running
  <2> QED
    BY <2>2, ImportOver
<1>13. CASE LoseMessage \/ ServiceStep
  <2>1. UNCHANGED cmd /\ cmd.op # "import"
    BY <1>13 DEF LoseMessage, ServiceStep, BeforeDump, adminVars, Phases
  <2>2. cmd.pc # "import"
    BY <2>1 DEF Phases, Running
  <2> QED
    BY <2>1, <2>2, ImportOver
<1>14. CASE UNCHANGED allVars
  <2>1. UNCHANGED <<buckets, objects, cmd, dump>>
    BY <1>14 DEF allVars, vars, adminVars
  <2> QED
    BY <2>1 DEF ImportInv, ImportRestoresAll, Running, Rows
<1> QED
  BY <1>2, <1>4, <1>5, <1>6, <1>7, <1>8, <1>9, <1>10, <1>11, <1>12, <1>13, <1>14 DEF AdminNext

-----------------------------------------------------------------------------
(* The inductive invariant *)

LEMMA AdminInvInit == AdminInit => AdminInv
<1> SUFFICES ASSUME AdminInit PROVE AdminInv
  OBVIOUS
<1>1. AdminTyped
  BY TypedInit
<1>2. Init /\ cmd = NoCommand /\ dump = NoDump
  BY DEF AdminInit
<1>3. Uploads
  BY <1>2, MessageInit DEF MessageInv, Uploads
<1>4. NoCommand.pc = "idle" /\ NoCommand.op = None /\ NoDump.rows = {}
  BY DEF NoCommand, NoDump
<1>5. FsckInv /\ DumpInv /\ ImportInv
  BY <1>2, <1>4 DEF FsckInv, DumpInv, ImportInv, ImportRestoresAll, Running, None
<1> QED
  BY <1>1, <1>3, <1>5 DEF AdminInv, AdminTyped

LEMMA AdminInvNext == AdminInv /\ [AdminNext]_allVars => AdminInv'
<1> SUFFICES ASSUME AdminInv, [AdminNext]_allVars PROVE AdminInv'
  OBVIOUS
<1>1. AdminTyped /\ (~replaced => Uploads) /\ FsckInv /\ DumpInv /\ ImportInv
  BY DEF AdminInv, AdminTyped
<1>2. AdminTyped'
  BY <1>1, TypedNext
<1>3. ~replaced' => Uploads'
  BY <1>1, UploadsNext
<1>4. FsckInv' /\ DumpInv' /\ ImportInv'
  BY <1>1, FsckNext, DumpNext, ImportNext
<1> QED
  BY <1>2, <1>3, <1>4 DEF AdminInv, AdminTyped

LEMMA AdminSafe == AdminSpec => []AdminInv
  BY AdminInvInit, AdminInvNext, PTL DEF AdminSpec

\* A repair that reports success, and whose deletions were not refused, leaves
\* no row that had lost its message when it began, whatever clients overwrite,
\* upload and delete all the while (fsckCmd).
THEOREM RepairsWhatWasLost == AdminSpec => []FsckRepairs
<1>1. AdminInv => FsckRepairs
  BY DEF AdminInv, FsckInv, FsckRepairs
<1> QED
  BY <1>1, AdminSafe, PTL

\* fsck deletes no row whose message Telegram still holds, unless the object was
\* overwritten since fsck read the index (the deletion is by bucket and key).
THEOREM SparesTheLiving == AdminSpec => FsckSparesTheLiving
<1>1. ASSUME AdminInv
      PROVE  Running("fix") =>
                \A row \in cmd.orphans \ cmd'.orphans :
                   objects[row.bucket][row.key] = row.msg => row.msg \notin channel
  BY <1>1 DEF AdminInv, Phases, FsckInv, Lost
<1>2. AdminInv /\ [AdminNext]_allVars =>
         [Running("fix") =>
             \A row \in cmd.orphans \ cmd'.orphans :
                objects[row.bucket][row.key] = row.msg => row.msg \notin channel]_allVars
  BY <1>1
<1> QED
  BY <1>2, AdminSafe, PTL DEF AdminSpec, FsckSparesTheLiving

\* An import that reports success has restored every record of the file, also
\* when an earlier import of it failed half way (importMetadata).
THEOREM RestoresAll == AdminSpec => []ImportRestoresAll
<1>1. AdminInv => ImportRestoresAll
  BY DEF AdminInv, ImportInv
<1> QED
  BY <1>1, AdminSafe, PTL

\* An import changes no object of a bucket that the index has and the file names,
\* even when the test for an empty database fails (importMetadata stops at the
\* first bucket that exists, and objects come after buckets).
THEOREM OverwritesNothing == AdminSpec => ImportOverwritesNothing
<1> DEFINE Kept == Running("import") =>
                      \A row \in Rows : row.bucket \in dump.names \ cmd.absent
                                          => objects'[row.bucket][row.key] = row.msg
<1>1. ASSUME AdminInv, [AdminNext]_allVars PROVE Kept
  <2> SUFFICES ASSUME cmd.pc = "import", NEW row \in Rows,
                      row.bucket \in dump.names \ cmd.absent
               PROVE  UNCHANGED objects
    BY DEF Running, Rows
  <2>1. row.bucket \in cmd.todo \cap Bucket
    BY <1>1 DEF AdminInv, ImportInv, Running, Rows, Row
  <2>2. replaced
    BY <1>1 DEF AdminInv, Phases, Running
  <2>3. ~ImportObject /\ ~ServiceStep /\ ~LoseIndex /\ ~FsckFix
    BY <2>1, <2>2 DEF ImportObject, ServiceStep, LoseIndex, FsckFix, Running
  <2> QED
    BY <1>1, <2>3
       DEF AdminNext, StartFsck, FsckCheck, FsckReadFails, FsckWalked, FsckEnd, StartExport,
           ExportBuckets, ExportObjects, ExportSection, StartImport, ImportBucket, ImportEnd,
           CommandExits, LoseMessage, allVars, vars
<1>2. AdminInv /\ [AdminNext]_allVars => [Kept]_allVars
  BY <1>1
<1> QED
  BY <1>2, AdminSafe, PTL DEF AdminSpec, ImportOverwritesNothing

\* What a successful import has restored has its bucket, although export reads
\* buckets and objects in two queries beside the daemon: but for objects of a
\* bucket that was created in between, or that the index did not have.
THEOREM RestoredHaveBuckets == AdminSpec => []RestoredInBuckets
<1>1. AdminInv => RestoredInBuckets
  BY DEF AdminInv, DumpInv, ImportInv, ImportRestoresAll, RestoredInBuckets
<1> QED
  BY <1>1, AdminSafe, PTL

-----------------------------------------------------------------------------
(* Keys and buckets *)

\* The request has changed one of the two stores and not yet the other.
HalfSteps == {"createRow", "createUndo", "dropKey"}
HalfWay(r) == req[r].pc \in HalfSteps

\* At most one request is half way through a bucket, which then has a key and no
\* row; every other bucket has both or neither.
PairInv ==
    /\ TypeOK
    /\ \A r \in Request : HalfWay(r) => keyOf[req[r].bucket] # NoKey /\ req[r].bucket \notin buckets
    /\ \A r, s \in Request : HalfWay(r) /\ HalfWay(s) /\ req[r].bucket = req[s].bucket => r = s
    /\ \A b \in buckets : keyOf[b] # NoKey
    /\ \A b \in Bucket : keyOf[b] # NoKey /\ b \notin buckets
                            => \E r \in Request : HalfWay(r) /\ req[r].bucket = b

LEMMA PairMatches == PairInv => KeysMatchBuckets
  BY DEF PairInv, KeysMatchBuckets, HalfWay, HalfSteps

LEMMA PairInit == Init => PairInv
<1> SUFFICES ASSUME Init PROVE PairInv
  OBVIOUS
<1>1. \A r \in Request : req[r].pc = "idle"
  BY DEF Init, Idle
<1> QED
  BY <1>1, TypeInit DEF Init, PairInv, HalfWay, HalfSteps

\* A step that touches neither store, of a request that is not half way.
LEMMA PairQuiet ==
    ASSUME PairInv, TypeOK', NEW r \in Request, Only(r), UNCHANGED <<buckets, keyOf>>,
           ~HalfWay(r), ~HalfWay(r)'
    PROVE  PairInv'
<1>1. \A s \in Request : HalfWay(s)' <=> HalfWay(s)
  BY DEF Only, HalfWay
<1>2. \A s \in Request : HalfWay(s) => req'[s] = req[s]
  BY DEF Only
<1> QED
  BY <1>1, <1>2 DEF PairInv

\* A request that stays half way.
LEMMA PairStays ==
    ASSUME PairInv, TypeOK', NEW r \in Request, Only(r), UNCHANGED <<buckets, keyOf>>,
           HalfWay(r), HalfWay(r)', req'[r].bucket = req[r].bucket
    PROVE  PairInv'
<1>1. \A s \in Request : /\ HalfWay(s)' <=> HalfWay(s)
                         /\ HalfWay(s) => req'[s].bucket = req[s].bucket
  BY DEF Only, HalfWay
<1> QED
  BY <1>1 DEF PairInv

\* The key is there and the row is not: a creation that begins, or a deletion.
LEMMA PairBegins ==
    ASSUME PairInv, TypeOK', NEW r \in Request, Only(r), ~HalfWay(r), HalfWay(r)',
           NEW b \in Bucket, req'[r].bucket = b,
           \A s \in Request : HalfWay(s) => req[s].bucket # b,
           keyOf'[b] # NoKey, b \notin buckets',
           \A x \in Bucket \ {b} : keyOf'[x] = keyOf[x] /\ (x \in buckets' <=> x \in buckets)
    PROVE  PairInv'
<1>1. \A s \in Request \ {r} : (HalfWay(s)' <=> HalfWay(s)) /\ req'[s] = req[s]
  BY DEF Only, HalfWay
<1>2. \A s \in Request : HalfWay(s) => s # r /\ req[s].bucket \in Bucket /\ req[s].bucket # b
  BY StepFacts DEF PairInv, TypeOK, HalfWay, HalfSteps, InFlight
<1>3. buckets' \subseteq Bucket
  BY DEF TypeOK
<1>4. \A s \in Request : HalfWay(s)' => /\ keyOf'[req'[s].bucket] # NoKey
                                        /\ req'[s].bucket \notin buckets'
  BY <1>1, <1>2 DEF PairInv
<1>5. \A s, x \in Request : HalfWay(s)' /\ HalfWay(x)' /\ req'[s].bucket = req'[x].bucket => s = x
  BY <1>1, <1>2 DEF PairInv
<1>6. \A x \in buckets' : keyOf'[x] # NoKey
  BY <1>3 DEF PairInv
<1>7. \A x \in Bucket : keyOf'[x] # NoKey /\ x \notin buckets'
                           => \E s \in Request : HalfWay(s)' /\ req'[s].bucket = x
  <2> SUFFICES ASSUME NEW x \in Bucket \ {b}, keyOf'[x] # NoKey, x \notin buckets'
               PROVE  \E s \in Request : HalfWay(s)' /\ req'[s].bucket = x
    OBVIOUS
  <2>1. PICK s \in Request : HalfWay(s) /\ req[s].bucket = x
    BY DEF PairInv
  <2> QED
    BY <1>1, <1>2, <2>1
<1> QED
  BY <1>4, <1>5, <1>6, <1>7 DEF PairInv

\* The bucket has both again, or neither.
LEMMA PairEnds ==
    ASSUME PairInv, TypeOK', NEW r \in Request, Only(r), HalfWay(r), ~HalfWay(r)',
           NEW b \in Bucket, req[r].bucket = b,
           b \in buckets' <=> keyOf'[b] # NoKey,
           \A x \in Bucket \ {b} : keyOf'[x] = keyOf[x] /\ (x \in buckets' <=> x \in buckets)
    PROVE  PairInv'
<1>1. \A s \in Request \ {r} : (HalfWay(s)' <=> HalfWay(s)) /\ req'[s] = req[s]
  BY DEF Only, HalfWay
<1>2. \A s \in Request : HalfWay(s)' => s # r /\ HalfWay(s) /\ req[s].bucket \in Bucket
                                        /\ req[s].bucket # b
  BY <1>1, StepFacts DEF PairInv, TypeOK, HalfWay, HalfSteps, InFlight
<1>3. buckets' \subseteq Bucket
  BY DEF TypeOK
<1>4. \A s \in Request : HalfWay(s)' => /\ keyOf'[req'[s].bucket] # NoKey
                                        /\ req'[s].bucket \notin buckets'
  BY <1>1, <1>2 DEF PairInv
<1>5. \A s, x \in Request : HalfWay(s)' /\ HalfWay(x)' /\ req'[s].bucket = req'[x].bucket => s = x
  BY <1>1, <1>2 DEF PairInv
<1>6. \A x \in buckets' : keyOf'[x] # NoKey
  BY <1>3 DEF PairInv
<1>7. \A x \in Bucket : keyOf'[x] # NoKey /\ x \notin buckets'
                           => \E s \in Request : HalfWay(s)' /\ req'[s].bucket = x
  <2> SUFFICES ASSUME NEW x \in Bucket \ {b}, keyOf'[x] # NoKey, x \notin buckets'
               PROVE  \E s \in Request : HalfWay(s)' /\ req'[s].bucket = x
    OBVIOUS
  <2>1. PICK s \in Request : HalfWay(s) /\ req[s].bucket = x
    BY DEF PairInv
  <2> QED
    BY <1>1, <2>1
<1> QED
  BY <1>4, <1>5, <1>6, <1>7 DEF PairInv

\* No request is cut short, and keys.toml can be written.
Uncut == Faults \cap {"cancel", "keysFile", "crash"} = {}

LEMMA PairReplied ==
    ASSUME PairInv, TypeOK', NEW r \in Request, NEW answer, Reply(r, answer), ~HalfWay(r),
           UNCHANGED <<buckets, keyOf>>
    PROVE  PairInv'
<1>1. Only(r) /\ ~HalfWay(r)'
  BY ReplyEffect DEF PairInv, HalfWay, HalfSteps
<1> QED
  BY <1>1, PairQuiet

LEMMA PairBucketSteps ==
    ASSUME Uncut, PairInv, TypeOK', NEW r \in Request,
           \/ CreateKey(r) \/ CreateRow(r) \/ CreateUndo(r)
           \/ DropRow(r) \/ DropKey(r) \/ DropCipher(r)
    PROVE  PairInv'
<1> DEFINE b == req[r].bucket
<1>1. TypeOK /\ "cancel" \notin Faults /\ "keysFile" \notin Faults
  BY DEF PairInv, Uncut
<1>2. b \in Bucket
  BY <1>1, StepFacts DEF TypeOK, InFlight, At, CreateKey, CreateRow, CreateUndo, DropRow, DropKey,
                         DropCipher
<1>3. CASE CreateKey(r)
  <2>1. ~HalfWay(r) /\ UNCHANGED buckets
    BY <1>3 DEF CreateKey, At, HalfWay, HalfSteps
  <2>2. ASSUME NEW answer, Reply(r, answer), UNCHANGED keyOf PROVE PairInv'
    BY <2>1, <2>2, PairReplied
  <2>3. CASE /\ keyOf[b] = NoKey /\ nextKey \in DataKey
             /\ keyOf' = [keyOf EXCEPT ![b] = nextKey]
             /\ Goto(r, "createRow")
    <3>1. Only(r) /\ HalfWay(r)' /\ req'[r].bucket = b
      BY <1>1, <2>3, GotoEffect DEF HalfWay, HalfSteps, SameRequest
    <3>2. /\ keyOf'[b] # NoKey
          /\ \A x \in Bucket \ {b} : keyOf'[x] = keyOf[x]
      BY <1>1, <1>2, <2>3 DEF TypeOK, DataKey, NoKey
    <3>3. b \notin buckets' /\ \A s \in Request : HalfWay(s) => req[s].bucket # b
      BY <2>1, <2>3 DEF PairInv
    <3> QED
      BY <1>2, <2>1, <3>1, <3>2, <3>3, PairBegins
  <2> QED
    BY <1>3, <2>2, <2>3 DEF CreateKey
<1>4. CASE CreateRow(r)
  <2>1. HalfWay(r) /\ UNCHANGED keyOf
    BY <1>4 DEF CreateRow, At, HalfWay, HalfSteps
  <2>2. keyOf[b] # NoKey
    BY <2>1 DEF PairInv
  <2>3. CASE buckets' = buckets \cup {b} /\ Reply(r, "ok")
    <3>1. Only(r) /\ ~HalfWay(r)'
      BY <1>1, <2>3, ReplyEffect DEF HalfWay, HalfSteps
    <3> QED
      BY <1>2, <2>1, <2>2, <2>3, <3>1, PairEnds
  <2>4. ASSUME NEW answer, NEW live, UNCHANGED buckets,
               Become(r, [req[r] EXCEPT !.pc = "createUndo", !.answer = answer, !.live = live])
        PROVE  PairInv'
    <3> DEFINE q == [req[r] EXCEPT !.pc = "createUndo", !.answer = answer, !.live = live]
    <3>1. req[r] \in RequestState
      BY <1>1 DEF TypeOK
    <3>2. q.pc = "createUndo" /\ q.bucket = req[r].bucket
      BY <3>1 DEF RequestState
    <3> HIDE DEF q
    <3>3. req'[r] = q /\ Only(r)
      BY <1>1, <2>4, BecomeEffect DEF q
    <3> QED
      BY <2>1, <2>4, <3>2, <3>3, PairStays DEF HalfWay, HalfSteps
  <2> QED
    BY <1>1, <1>4, <2>3, <2>4 DEF CreateRow
<1>5. CASE CreateUndo(r) \/ DropKey(r)
  <2>1. HalfWay(r) /\ UNCHANGED buckets /\ KeysRemove(b)
    BY <1>5 DEF CreateUndo, DropKey, At, HalfWay, HalfSteps
  <2>2. /\ keyOf'[b] = NoKey /\ b \notin buckets'
        /\ \A x \in Bucket \ {b} : keyOf'[x] = keyOf[x]
    BY <1>1, <1>2, <2>1 DEF KeysRemove, TypeOK, PairInv
  <2>3. (\E answer : Reply(r, answer)) \/ Goto(r, "dropCipher")
    BY <1>5 DEF CreateUndo, DropKey
  <2>4. Only(r) /\ ~HalfWay(r)'
    BY <1>1, <2>3, ReplyEffect, GotoEffect DEF HalfWay, HalfSteps
  <2> QED
    BY <1>2, <2>1, <2>2, <2>4, PairEnds
<1>6. CASE DropRow(r)
  <2>1. ~HalfWay(r) /\ UNCHANGED keyOf
    BY <1>6 DEF DropRow, At, HalfWay, HalfSteps
  <2>2. ASSUME NEW answer, Reply(r, answer), UNCHANGED buckets PROVE PairInv'
    BY <2>1, <2>2, PairReplied
  <2>3. CASE b \in buckets /\ buckets' = buckets \ {b} /\ Goto(r, "dropKey")
    <3>1. Only(r) /\ HalfWay(r)' /\ req'[r].bucket = b
      BY <1>1, <2>3, GotoEffect DEF HalfWay, HalfSteps, SameRequest
    <3>2. keyOf'[b] # NoKey /\ \A s \in Request : HalfWay(s) => req[s].bucket # b
      BY <2>1, <2>3 DEF PairInv
    <3> QED
      BY <1>2, <2>1, <2>3, <3>1, <3>2, PairBegins
  <2> QED
    BY <1>6, <2>2, <2>3 DEF DropRow
<1>7. CASE DropCipher(r)
  <2>1. ~HalfWay(r) /\ UNCHANGED <<buckets, keyOf>> /\ Reply(r, "ok")
    BY <1>7 DEF DropCipher, At, HalfWay, HalfSteps
  <2> QED
    BY <2>1, PairReplied
<1> QED
  BY <1>3, <1>4, <1>5, <1>6, <1>7

\* The steps on objects.
LEMMA PairObjectSteps ==
    ASSUME PairInv, TypeOK', NEW r \in Request,
           \/ PutCheck(r) \/ PutCipher(r) \/ PutTooLarge(r) \/ Upload(r) \/ Commit(r)
           \/ Rollback(r) \/ GetRow(r) \/ GetCipher(r) \/ Fetch(r)
           \/ DeleteRow(r) \/ Evict(r) \/ DeleteMessage(r)
    PROVE  PairInv'
<1>1. /\ UNCHANGED <<buckets, keyOf>> /\ req[r].pc \in PutStep \cup GetStep \cup DeleteStep
      /\ ~HalfWay(r)
  BY DEF PutCheck, PutCipher, PutTooLarge, Upload, Commit, Rollback, GetRow, GetCipher, Fetch,
         CipherFor, DeleteRow, Evict, DeleteMessage, stores, At, PutStep, GetStep, DeleteStep,
         HalfWay, HalfSteps
<1>2. \E q : Become(r, q)
  BY DEF PutCheck, PutCipher, PutTooLarge, Upload, Commit, Rollback, GetRow, GetCipher, Fetch,
         CipherFor, DeleteRow, Evict, DeleteMessage, Reply, Goto
<1>3. Only(r)
  BY <1>2, BecomeEffect DEF PairInv
<1>4. ~HalfWay(r)'
  <2>1. ASSUME NEW answer, Reply(r, answer) PROVE ~HalfWay(r)'
    BY <2>1, ReplyEffect DEF PairInv, HalfWay, HalfSteps
  <2>2. ASSUME NEW step \in PutStep \cup GetStep \cup DeleteStep, Goto(r, step)
        PROVE  ~HalfWay(r)'
    BY <2>2, GotoEffect DEF PairInv, HalfWay, HalfSteps, PutStep, GetStep, DeleteStep
  <2>3. ASSUME NEW step \in PutStep \cup GetStep \cup DeleteStep, NEW m, Hold(r, step, m)
        PROVE  ~HalfWay(r)'
    BY <2>3, HoldEffect DEF PairInv, HalfWay, HalfSteps, PutStep, GetStep, DeleteStep
  <2>4. CASE PutCheck(r) \/ PutTooLarge(r) \/ Rollback(r) \/ Fetch(r) \/ Evict(r)
             \/ DeleteMessage(r)
    BY <2>1, <2>2, <2>4 DEF PutCheck, PutTooLarge, Rollback, Fetch, Evict, DeleteMessage,
                            PutStep, DeleteStep
  <2>5. CASE Upload(r) \/ GetRow(r) \/ DeleteRow(r)
    BY <2>1, <2>3, <2>5 DEF Upload, GetRow, DeleteRow, Hold, PutStep, GetStep, DeleteStep
  <2>6. CASE PutCipher(r) \/ GetCipher(r)
    <3>1. PICK step \in {"upload", "fetch"} : CipherFor(r, step)
      BY <2>6 DEF PutCipher, GetCipher
    <3>2. ASSUME NEW cipher, Become(r, [req[r] EXCEPT !.pc = step, !.cipher = cipher])
          PROVE  ~HalfWay(r)'
      <4>1. req'[r] = [req[r] EXCEPT !.pc = step, !.cipher = cipher] /\ req[r] \in RequestState
        BY <3>2, BecomeEffect DEF PairInv, TypeOK
      <4>2. req'[r].pc = step
        BY <4>1 DEF RequestState
      <4> QED
        BY <3>1, <4>2 DEF HalfWay, HalfSteps
    <3> QED
      BY <2>1, <3>1, <3>2 DEF CipherFor
  <2>7. CASE Commit(r)
    <3>1. CASE Become(r, [req[r] EXCEPT !.pc = "rollback", !.live = FALSE])
      <4>1. req'[r] = [req[r] EXCEPT !.pc = "rollback", !.live = FALSE] /\ req[r] \in RequestState
        BY <3>1, BecomeEffect DEF PairInv, TypeOK
      <4>2. req'[r].pc = "rollback"
        BY <4>1 DEF RequestState
      <4> QED
        BY <4>2 DEF HalfWay, HalfSteps
    <3> QED
      BY <2>1, <2>2, <2>7, <3>1 DEF Commit, PutStep
  <2> QED
    BY <2>4, <2>5, <2>6, <2>7
<1> QED
  BY <1>1, <1>3, <1>4, PairQuiet

LEMMA PairClient ==
    ASSUME Uncut, PairInv, TypeOK', NEW r \in Request,
           BeginBucketOp(r) \/ BeginObjectOp(r) \/ Finish(r) \/ Cancel(r)
    PROVE  PairInv'
<1>1. ASSUME NEW op \in Operation, NEW b, NEW k, Begin(r, op, b, k) PROVE PairInv'
  <2> DEFINE q == [Idle EXCEPT !.pc = FirstStep(op), !.op = op, !.bucket = b, !.key = k]
  <2>1. q.pc = FirstStep(op)
    BY DEF Idle
  <2>2. FirstStep(op) \notin HalfSteps
    BY DEF FirstStep, Operation, BucketOp, ObjectOp, HalfSteps
  <2>3. Become(r, q) /\ UNCHANGED <<buckets, keyOf>> /\ ~HalfWay(r)
    BY <1>1 DEF Begin, stores, At, HalfWay, HalfSteps
  <2> HIDE DEF q
  <2>4. req'[r] = q /\ Only(r)
    BY <2>3, BecomeEffect DEF PairInv
  <2> QED
    BY <2>1, <2>2, <2>3, <2>4, PairQuiet DEF HalfWay
<1>2. CASE BeginBucketOp(r) \/ BeginObjectOp(r)
  BY <1>1, <1>2 DEF BeginBucketOp, BeginObjectOp, Operation
<1>3. CASE Finish(r)
  <2>1. Idle.pc \notin HalfSteps
    BY DEF Idle, HalfSteps
  <2>2. Become(r, Idle) /\ UNCHANGED <<buckets, keyOf>> /\ ~HalfWay(r)
    BY <1>3 DEF Finish, stores, At, HalfWay, HalfSteps
  <2> HIDE DEF Idle
  <2>3. req'[r] = Idle /\ Only(r)
    BY <2>2, BecomeEffect DEF PairInv
  <2> QED
    BY <2>1, <2>2, <2>3, PairQuiet DEF HalfWay
<1>4. ~Cancel(r)
  BY DEF Cancel, Uncut
<1> QED
  BY <1>2, <1>3, <1>4

LEMMA PairKept ==
    ASSUME PairInv, TypeOK', UNCHANGED <<buckets, keyOf, req>>
    PROVE  PairInv'
  BY DEF PairInv, HalfWay

LEMMA PairNext == Uncut /\ PairInv /\ [Next]_vars => PairInv'
<1> SUFFICES ASSUME Uncut, PairInv, [Next]_vars PROVE PairInv'
  OBVIOUS
<1>1. TypeOK'
  BY TypeNext DEF PairInv
<1>2. ASSUME NEW r \in Request, RequestStep(r) PROVE PairInv'
  BY <1>1, <1>2, PairBucketSteps, PairObjectSteps DEF RequestStep
<1>3. ASSUME NEW r \in Request,
             BeginBucketOp(r) \/ BeginObjectOp(r) \/ Finish(r) \/ Cancel(r)
      PROVE  PairInv'
  BY <1>1, <1>3, PairClient
<1>4. CASE LruEvict \/ UNCHANGED vars
  BY <1>1, <1>4, PairKept DEF LruEvict, vars
<1>5. ~Crash
  BY DEF Crash, Uncut
<1> QED
  BY <1>2, <1>3, <1>4, <1>5 DEF Next

\* No command but an import, or the loss of the index, touches buckets and keys.
LEMMA PairAdminNext ==
    ASSUME Uncut, AdminInv, replaced \/ PairInv, [AdminNext]_allVars
    PROVE  (replaced \/ PairInv)'
<1> SUFFICES ASSUME ~replaced' PROVE PairInv'
  OBVIOUS
<1>1. AdminTyped /\ TypeOK'
  BY StoresTyped DEF AdminInv, AdminTyped
<1>2. CASE ServiceStep
  BY <1>2, PairNext DEF ServiceStep
<1>3. CASE ImportBucket \/ ImportObject \/ LoseIndex
  BY <1>1, <1>3 DEF ImportBucket, ImportObject, LoseIndex, AdminTyped, Phases
<1>4. CASE \/ StartFsck \/ FsckCheck \/ FsckReadFails \/ FsckWalked \/ FsckFix \/ FsckEnd
           \/ StartExport \/ ExportBuckets \/ ExportObjects \/ StartImport \/ ImportEnd
           \/ CommandExits \/ LoseMessage \/ UNCHANGED allVars
  <2>1. UNCHANGED <<buckets, keyOf, req>>
    BY <1>4 DEF StartFsck, FsckCheck, FsckReadFails, FsckWalked, FsckFix, FsckEnd, StartExport,
                ExportBuckets, ExportObjects, ExportSection, StartImport, ImportEnd,
                CommandExits, LoseMessage, allVars, vars
  <2>2. ~replaced
    BY <1>4 DEF StartFsck, FsckCheck, FsckReadFails, FsckWalked, FsckFix, FsckEnd, StartExport,
                ExportBuckets, ExportObjects, ExportSection, StartImport, ImportEnd,
                CommandExits, LoseMessage, adminVars, allVars
  <2> QED
    BY <1>1, <2>1, <2>2, PairKept
<1> QED
  BY <1>2, <1>3, <1>4 DEF AdminNext

\* Concurrent creations and deletions of one bucket never leave a key without
\* its bucket or a bucket without its key, once no request is between the two
\* steps, with fsck and export at work too: as long as no request is cut short
\* and keys.toml can be written (CreateBucket, DeleteBucket and their undo).
THEOREM KeysStayMatched == ASSUME Uncut PROVE AdminSpec => []KeysMatchIndex
<1>1. AdminInit => AdminInv /\ (replaced \/ PairInv)
  BY AdminInvInit, PairInit DEF AdminInit
<1>2. AdminInv /\ (replaced \/ PairInv) /\ [AdminNext]_allVars
         => AdminInv' /\ (replaced \/ PairInv)'
  BY AdminInvNext, PairAdminNext
<1>3. replaced \/ PairInv => KeysMatchIndex
  BY PairMatches DEF KeysMatchIndex
<1> QED
  BY <1>1, <1>2, <1>3, PTL DEF AdminSpec
=============================================================================

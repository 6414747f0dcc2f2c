------------------- MODULE ObjectServiceRefinementProofs -------------------
(***************************************************************************)
(* The object service implements S3Store: every step of a request, of a    *)
(* client and of the process is a step of the abstract store or none.      *)
(***************************************************************************)
EXTENDS ObjectServiceRefinement, ObjectServiceProofs

-----------------------------------------------------------------------------
(* What clients see of a state *)

Store == [b \in Bucket |-> [k \in Key |-> VersionOf(b, k)]]
Calls == [r \in Request |-> CallOf(r)]

\* An object that can be read back is seen as its message: there are no others.
LEMMA StoreIsObjects == KeyInv => Store = objects
<1> SUFFICES ASSUME KeyInv PROVE Store = objects
  OBVIOUS
<1>1. ASSUME NEW b \in Bucket, NEW k \in Key PROVE VersionOf(b, k) = objects[b][k]
  <2>1. CASE objects[b][k] = NoMessage
    BY <2>1 DEF VersionOf
  <2>2. CASE objects[b][k] # NoMessage
    <3>1. objects[b][k] \in channel /\ sealedWith[objects[b][k]] = keyOf[b]
      BY <2>2 DEF KeyInv, MessageInv, NoDanglingRow, RowsReadable
    <3> QED
      BY <2>2, <3>1 DEF VersionOf
  <2> QED
    BY <2>1, <2>2
<1>2. objects \in [Bucket -> [Key -> Message \cup {NoMessage}]]
  BY DEF KeyInv, MessageInv, TypeOK
<1> QED
  BY <1>1, <1>2 DEF Store

\* The phase of a request, step by step.
OpenStep == {"createKey", "createRow", "createUndo", "dropRow", "putCheck", "putCipher",
             "upload", "commit", "getRow", "getCipher", "fetch", "deleteRow"}
DoneStep == {"dropKey", "dropCipher", "evict", "deleteMessage"}

LEMMA PhaseFacts ==
    ASSUME NEW r \in Request
    PROVE  /\ req[r].pc \in {"idle", "replied"} => PhaseOf(r) = req[r].pc
           /\ req[r].pc \in DoneStep => PhaseOf(r) = "done"
           /\ req[r].pc = "rollback" => PhaseOf(r) = "failing"
           /\ req[r].pc \in OpenStep => PhaseOf(r) = "open"
<1>1. CASE req[r].pc \in {"idle", "replied"}
  BY <1>1 DEF PhaseOf, DoneStep, OpenStep
<1>2. CASE req[r].pc \in DoneStep
  BY <1>2 DEF PhaseOf, DoneStep, OpenStep
<1>3. CASE req[r].pc = "rollback"
  BY <1>3 DEF PhaseOf, DoneStep, OpenStep
<1>4. CASE req[r].pc \in OpenStep
  <2>1. /\ req[r].pc \notin {"idle", "replied"} /\ req[r].pc # "rollback"
        /\ req[r].pc \notin {"dropKey", "dropCipher", "evict", "deleteMessage"}
    BY <1>4 DEF OpenStep
  <2>2. PhaseOf(r) = "open"
    BY <2>1 DEF PhaseOf
  <2> QED
    BY <1>4, <2>1, <2>2 DEF DoneStep
<1> QED
  BY <1>1, <1>2, <1>3, <1>4

LEMMA StepsHavePhase ==
    /\ Step = OpenStep \cup DoneStep \cup {"rollback"}
    /\ GetStep \subseteq OpenStep
  BY DEF Step, CreateStep, DropStep, PutStep, GetStep, DeleteStep, OpenStep, DoneStep

\* An answered GET shows its version, and nothing else does.
LEMMA CallFields ==
    ASSUME NEW r \in Request
    PROVE  /\ Calls[r].phase = PhaseOf(r) /\ Calls[r].op = req[r].op
           /\ Calls[r].bucket = req[r].bucket /\ Calls[r].key = req[r].key
  BY DEF Calls, CallOf

LEMMA OpenCalls ==
    ASSUME NEW r \in Request, req[r].pc \in OpenStep
    PROVE  Promise!Open(r, req[r].op) /\ Calls[r].phase = "open"
<1>1. Calls[r].phase = "open" /\ Calls[r].op = req[r].op
  BY CallFields, PhaseFacts
<1> QED
  BY <1>1 DEF Promise!Open, Calls

\* Only the request that takes a step is seen to change.
LEMMA OthersCalls ==
    ASSUME NEW r \in Request, Only(r)
    PROVE  Calls' = [Calls EXCEPT ![r] = CallOf(r)']
<1>1. ASSUME NEW s \in Request \ {r} PROVE CallOf(s)' = CallOf(s)
  BY <1>1 DEF Only, CallOf, PhaseOf, Answered
<1> QED
  BY <1>1 DEF Calls

\* A request that goes on: its phase is all that a client may notice.
LEMMA EnterStep ==
    ASSUME NEW r \in Request, InFlight(r), InFlight(r)', Only(r), SameRequest(r),
           NEW phase, PhaseOf(r)' = phase
    PROVE  Promise!Enter(r, phase)
<1>1. req[r].pc # "replied" /\ req'[r].pc # "replied"
  BY StepFacts DEF InFlight
<1>2. CallOf(r) = [phase |-> PhaseOf(r), op |-> req[r].op, bucket |-> req[r].bucket,
                   key |-> req[r].key, version |-> NoMessage, answer |-> None]
  BY <1>1 DEF CallOf, Answered
<1>3. CallOf(r)' = [phase |-> phase, op |-> req[r].op, bucket |-> req[r].bucket,
                    key |-> req[r].key, version |-> NoMessage, answer |-> None]
  BY <1>1 DEF CallOf, Answered, SameRequest
<1>4. CallOf(r)' = [CallOf(r) EXCEPT !.phase = phase]
  BY <1>2, <1>3
<1>5. Calls[r] = CallOf(r)
  BY DEF Calls
<1>6. Calls' = [Calls EXCEPT ![r] = [@ EXCEPT !.phase = phase]]
  BY <1>4, <1>5, OthersCalls
<1> QED
  BY <1>6 DEF Promise!Enter, Calls

\* ... and nothing, if the phase is the same.
LEMMA StaySame ==
    ASSUME NEW r \in Request, InFlight(r), InFlight(r)', Only(r), SameRequest(r),
           PhaseOf(r)' = PhaseOf(r)
    PROVE  Calls' = Calls
<1>1. req[r].pc # "replied" /\ req'[r].pc # "replied"
  BY StepFacts DEF InFlight
<1>2. CallOf(r)' = CallOf(r)
  BY <1>1 DEF CallOf, Answered, SameRequest
<1>3. ASSUME NEW s \in Request \ {r} PROVE CallOf(s)' = CallOf(s)
  BY <1>3 DEF Only, CallOf, PhaseOf, Answered
<1> QED
  BY <1>2, <1>3 DEF Calls

\* A call that is answered, as a record of the abstract store.
Shown(phase, r, version, answer) ==
    [phase |-> phase, op |-> req[r].op, bucket |-> req[r].bucket, key |-> req[r].key,
     version |-> version, answer |-> answer]

Replied(c, answer) == [c EXCEPT !.phase = "replied", !.answer = answer]
RepliedWith(c, answer, version) ==
    [c EXCEPT !.phase = "replied", !.answer = answer, !.version = version]

LEMMA AnsweredRecord ==
    ASSUME NEW r, NEW phase, NEW version, NEW answer, NEW c, c = Shown(phase, r, NoMessage, None)
    PROVE  /\ Replied(c, answer) = Shown("replied", r, NoMessage, answer)
           /\ RepliedWith(c, answer, version) = Shown("replied", r, version, answer)
<1> DEFINE p == [c EXCEPT !.phase = "replied"]
           q == [p EXCEPT !.answer = answer]
<1>1. p = Shown("replied", r, NoMessage, None)
  BY DEF Shown
<1>2. Replied(c, answer) = q /\ RepliedWith(c, answer, version) = [q EXCEPT !.version = version]
  BY DEF Replied, RepliedWith
<1> HIDE DEF p
<1>3. q = Shown("replied", r, NoMessage, answer)
  BY <1>1 DEF Shown
<1> HIDE DEF q
<1>4. [q EXCEPT !.version = version] = Shown("replied", r, version, answer)
  BY <1>3 DEF Shown
<1> QED
  BY <1>2, <1>3, <1>4

\* A request that is answered, but for a GET that shows what it has read.
LEMMA AnswerStep ==
    ASSUME NEW r \in Request, NEW answer, InFlight(r), Only(r), SameRequest(r),
           req'[r].pc = "replied", req'[r].answer = answer,
           req[r].op # "getObject" \/ answer # "ok"
    PROVE  Promise!Answer(r, answer)
<1>1. req[r].pc # "replied"
  BY StepFacts DEF InFlight
<1>2. CallOf(r) = Shown(PhaseOf(r), r, NoMessage, None)
  BY <1>1 DEF CallOf, Answered, Shown
<1>3. PhaseOf(r)' = "replied"
  BY DEF PhaseOf
<1>4. CallOf(r)' = Shown("replied", r, NoMessage, answer)
  BY <1>3 DEF CallOf, Answered, SameRequest, Shown
<1>5. CallOf(r)' = Replied(CallOf(r), answer)
  BY <1>2, <1>4, AnsweredRecord
<1>6. Calls[r] = CallOf(r)
  BY DEF Calls
<1>7. Calls' = [Calls EXCEPT ![r] = Replied(@, answer)]
  BY <1>5, <1>6, OthersCalls
<1> QED
  BY <1>7 DEF Promise!Answer, Calls, Replied

\* Buckets appear and disappear with their row and their key only, and while
\* they are created.
Making(b) == \E r \in Request : req[r].pc \in {"createRow", "createUndo"} /\ req[r].bucket = b

LEMMA ExistingIs == Existing = {b \in buckets : keyOf[b] # NoKey /\ ~Making(b)}
  BY DEF Existing, Making

LEMMA ExistingKept ==
    ASSUME UNCHANGED <<buckets, keyOf>>, NEW r \in Request, Only(r),
           req[r].pc \notin {"createRow", "createUndo"},
           req'[r].pc \notin {"createRow", "createUndo"}
    PROVE  Existing' = Existing
<1>1. ASSUME NEW b PROVE Making(b)' <=> Making(b)
  BY DEF Making, Only
<1> QED
  BY <1>1 DEF Existing, Making

\* What the abstract store calls an unchanged store.
Unseen == UNCHANGED <<Existing, Store, seen>>

LEMMA StoreIsObjectsNext == KeyInv' => Store' = objects'
<1>1. (KeyInv => Store = objects)'
  BY StoreIsObjects, PTL
<1> QED
  BY <1>1

-----------------------------------------------------------------------------
(* Steps of the abstract store *)

\* A step that clients may see as one of the abstract store, or not at all.
Abstract == [Promise!Next]_(Promise!storeVars)

LEMMA UnseenStep ==
    ASSUME KeyInv, KeyInv', NEW r \in Request, Only(r),
           req[r].pc \notin {"createRow", "createUndo"},
           req'[r].pc \notin {"createRow", "createUndo"},
           UNCHANGED <<buckets, keyOf, objects, seen>>
    PROVE  Unseen
  BY ExistingKept, StoreIsObjects, StoreIsObjectsNext DEF Unseen

LEMMA StutterStep ==
    ASSUME NEW r \in Request, InFlight(r), InFlight(r)', Only(r), SameRequest(r),
           PhaseOf(r)' = PhaseOf(r), Unseen
    PROVE  Abstract
<1>1. Calls' = Calls
  BY StaySame
<1> QED
  BY <1>1 DEF Abstract, Promise!storeVars, Unseen, Calls, Store

LEMMA ErrorStep ==
    ASSUME TypeOK, NEW r \in Request, req[r].pc \in OpenStep \cup {"rollback"},
           Reply(r, "error"), Unseen
    PROVE  Abstract
<1>1. InFlight(r)
  BY StepsHavePhase DEF InFlight
<1>2. Promise!Answer(r, "error")
  BY <1>1, ReplyEffect, AnswerStep
<1>3. Calls[r].phase \in {"open", "failing"}
  BY CallFields, PhaseFacts
<1>4. Promise!AnswerError(r)
  BY <1>2, <1>3 DEF Promise!AnswerError, Unseen, Calls, Store
<1> QED
  BY <1>4 DEF Abstract, Promise!Next

\* What justifies a refusal in the state that the handler has read.
Justified(r, answer) ==
    \/ req[r].op = "createBucket" /\ answer = "BucketAlreadyOwnedByYou"
    \/ /\ req[r].op \in {"deleteBucket", "putObject"} /\ answer = "NoSuchBucket"
       /\ req[r].bucket \notin Existing
    \/ /\ req[r].op = "deleteBucket" /\ answer = "BucketNotEmpty"
       /\ \E k \in Key : Store[req[r].bucket][k] # NoMessage
    \/ req[r].op = "putObject" /\ answer = "EntityTooLarge"
    \/ req[r].op = "getObject" /\ answer = "NoSuchKey" /\ NoMessage \in seen[r]

LEMMA RefuseStep ==
    ASSUME TypeOK, NEW r \in Request, req[r].pc \in OpenStep,
           NEW answer, Reply(r, answer), Justified(r, answer), Unseen
    PROVE  Abstract
<1>1. InFlight(r)
  BY StepsHavePhase DEF InFlight
<1>2. Promise!Answer(r, answer)
  BY <1>1, ReplyEffect, AnswerStep DEF Justified
<1>3. Promise!Open(r, req[r].op) /\ Calls[r].bucket = req[r].bucket
  BY OpenCalls, CallFields
<1>4. Promise!Refuse(r)
  <2>1. CASE req[r].op = "createBucket" /\ answer = "BucketAlreadyOwnedByYou"
    BY <1>2, <1>3, <2>1 DEF Promise!Refuse, Unseen, Calls, Store
  <2>2. CASE /\ req[r].op \in {"deleteBucket", "putObject"} /\ answer = "NoSuchBucket"
             /\ req[r].bucket \notin Existing
    BY <1>2, <1>3, <2>2 DEF Promise!Refuse, Unseen, Calls, Store
  <2>3. CASE /\ req[r].op = "deleteBucket" /\ answer = "BucketNotEmpty"
             /\ \E k \in Key : Store[req[r].bucket][k] # NoMessage
    BY <1>2, <1>3, <2>3 DEF Promise!Refuse, Unseen, Calls, Store
  <2>4. CASE req[r].op = "putObject" /\ answer = "EntityTooLarge"
    BY <1>2, <1>3, <2>4 DEF Promise!Refuse, Unseen, Calls, Store
  <2>5. CASE req[r].op = "getObject" /\ answer = "NoSuchKey" /\ NoMessage \in seen[r]
    BY <1>2, <1>3, <2>5 DEF Promise!Refuse, Unseen, Calls, Store
  <2> QED
    BY <2>1, <2>2, <2>3, <2>4, <2>5 DEF Justified
<1> QED
  BY <1>4 DEF Abstract, Promise!Next

LEMMA DoneAnswered ==
    ASSUME TypeOK, NEW r \in Request, req[r].pc \in DoneStep, Reply(r, "ok"), Unseen
    PROVE  Abstract
<1>1. InFlight(r) /\ req[r].op # "getObject"
  BY StepFacts DEF InFlight, DoneStep, TypeOK
<1>2. Promise!Answer(r, "ok")
  BY <1>1, ReplyEffect, AnswerStep
<1>3. Calls[r].phase = "done"
  BY CallFields, PhaseFacts
<1>4. Promise!AnswerDone(r)
  BY <1>2, <1>3 DEF Promise!AnswerDone, Unseen, Calls, Store
<1> QED
  BY <1>4 DEF Abstract, Promise!Next

-----------------------------------------------------------------------------
(* The steps of bucket operations *)

\* Whether a bucket exists for clients depends on the request that creates or
\* deletes it, which is alone with it.
LEMMA ExistingOfStep ==
    ASSUME KeyInv, KeyInv', NEW r \in Request, Only(r), SameRequest(r), InFlight(r),
           req[r].op \in BucketOp, NEW b, b = req[r].bucket,
           \A c \in Bucket \ {b} : (c \in buckets' <=> c \in buckets) /\ keyOf'[c] = keyOf[c]
    PROVE  /\ \A c : c # b => (c \in Existing' <=> c \in Existing)
           /\ b \in Existing <=> /\ b \in buckets /\ keyOf[b] # NoKey
                                 /\ req[r].pc \notin {"createRow", "createUndo"}
           /\ b \in Existing' <=> /\ b \in buckets' /\ keyOf'[b] # NoKey
                                  /\ req'[r].pc \notin {"createRow", "createUndo"}
<1>1. buckets \subseteq Bucket /\ buckets' \subseteq Bucket
  BY DEF KeyInv, MessageInv, TypeOK
<1>2. ASSUME NEW s \in Request \ {r}, req[s].pc \in {"createRow", "createUndo"}
      PROVE  req[s].bucket # b
  <2>1. InFlight(s)
    BY <1>2, StepFacts DEF InFlight
  <2> QED
    BY <2>1, NobodyElse DEF KeyInv
<1>3. \A s \in Request \ {r} : req'[s] = req[s]
  BY DEF Only
<1>4. ASSUME NEW c, c # b PROVE Making(c)' <=> Making(c)
  BY <1>3, <1>4 DEF Making, SameRequest
<1>5. Making(b) <=> req[r].pc \in {"createRow", "createUndo"}
  BY <1>2 DEF Making
<1>6. Making(b)' <=> req'[r].pc \in {"createRow", "createUndo"}
  BY <1>2, <1>3 DEF Making, SameRequest
<1>7. \A c : c \in Existing <=> c \in buckets /\ keyOf[c] # NoKey /\ ~Making(c)
  BY DEF Existing, Making
<1>8. \A c : c \in Existing' <=> c \in buckets' /\ keyOf'[c] # NoKey /\ ~Making(c)'
  BY DEF Existing, Making
<1> QED
  BY <1>1, <1>4, <1>5, <1>6, <1>7, <1>8

\* The buckets that exist change by one at most.
LEMMA SameExisting ==
    ASSUME NEW b, \A c : c # b => (c \in Existing' <=> c \in Existing),
           b \in Existing' <=> b \in Existing
    PROVE  Existing' = Existing
<1>1. \A c : c \in Existing' <=> c \in Existing
  OBVIOUS
<1> QED
  BY <1>1 DEF Existing

LEMMA AbstractCreateKey ==
    ASSUME KeyInv, KeyInv', NEW r \in Request, CreateKey(r)
    PROVE  Abstract
<1> DEFINE b == req[r].bucket
<1>1. TypeOK /\ At(r, "createKey") /\ UNCHANGED <<buckets, objects, seen>>
  BY DEF KeyInv, MessageInv, CreateKey
<1>2. /\ InFlight(r) /\ req[r].op \in BucketOp /\ req[r].op = "createBucket" /\ b \in Bucket
      /\ req[r].pc \in OpenStep
  BY <1>1, BucketSteps, InFlightFacts, StepFacts DEF At, CreateStep, OpenStep
<1>3. ASSUME NEW answer \in {"BucketAlreadyOwnedByYou", "error"}, Reply(r, answer),
             UNCHANGED keyOf
      PROVE  Abstract
  <2>1. Only(r) /\ SameRequest(r) /\ req'[r].pc = "replied"
    BY <1>1, <1>3, ReplyEffect
  <2>2. Unseen
    BY <1>1, <1>3, <2>1, UnseenStep DEF At
  <2> QED
    BY <1>1, <1>2, <1>3, <2>2, ErrorStep, RefuseStep DEF Justified
<1>4. CASE keyOf[b] = NoKey /\ keyOf' = [keyOf EXCEPT ![b] = nextKey] /\ Goto(r, "createRow")
  <2>1. Only(r) /\ SameRequest(r) /\ req'[r].pc = "createRow"
    BY <1>1, <1>4, GotoEffect
  <2>2. \A c \in Bucket \ {b} : keyOf'[c] = keyOf[c]
    BY <1>1, <1>4 DEF TypeOK
  <2>3. /\ \A c : c # b => (c \in Existing' <=> c \in Existing)
        /\ b \notin Existing /\ b \notin Existing'
    BY <1>1, <1>2, <1>4, <2>1, <2>2, ExistingOfStep
  <2>4. Unseen
    BY <1>1, <2>3, SameExisting, StoreIsObjects, StoreIsObjectsNext DEF Unseen
  <2>5. PhaseOf(r) = "open" /\ PhaseOf(r)' = "open"
    BY <1>1, <2>1 DEF At, PhaseOf
  <2>6. InFlight(r)'
    BY <2>1, StepFacts DEF InFlight
  <2> QED
    BY <1>2, <2>1, <2>4, <2>5, <2>6, StutterStep
<1> QED
  BY <1>3, <1>4 DEF CreateKey

LEMMA AbstractCreateRow ==
    ASSUME KeyInv, KeyInv', NEW r \in Request, CreateRow(r)
    PROVE  Abstract
<1> DEFINE b == req[r].bucket
<1>1. /\ TypeOK /\ At(r, "createRow") /\ UNCHANGED <<keyOf, objects, seen>>
      /\ buckets' \in {buckets, buckets \cup {b}}
  BY DEF KeyInv, MessageInv, CreateRow
<1>2. /\ InFlight(r) /\ req[r].op \in BucketOp /\ req[r].op = "createBucket" /\ b \in Bucket
      /\ req[r].pc \in OpenStep
  BY <1>1, BucketSteps, InFlightFacts, StepFacts DEF At, CreateStep, OpenStep
<1>3. keyOf[b] # NoKey
  BY <1>1 DEF KeyInv, Knows, At
<1>4. ASSUME Only(r), SameRequest(r)
      PROVE  /\ \A c : c # b => (c \in Existing' <=> c \in Existing)
             /\ b \notin Existing
             /\ b \in Existing' <=> b \in buckets' /\ req'[r].pc # "createRow"
                                                   /\ req'[r].pc # "createUndo"
  BY <1>1, <1>2, <1>3, <1>4, ExistingOfStep DEF At
<1>5. CASE Reply(r, "ok") /\ buckets' = buckets \cup {b}
  <2>1. Only(r) /\ SameRequest(r) /\ req'[r].pc = "replied" /\ req'[r].answer = "ok"
    BY <1>1, <1>5, ReplyEffect
  <2>2. Existing' = Existing \cup {b}
    <3>1. \A c : c \in Existing' <=> c \in Existing \cup {b}
      BY <1>4, <1>5, <2>1
    <3> QED
      BY <3>1 DEF Existing
  <2>3. Promise!Answer(r, "ok") /\ Promise!Open(r, "createBucket")
    BY <1>2, <2>1, AnswerStep, OpenCalls
  <2>4. Calls[r].bucket = b /\ Store' = Store
    BY <1>1, CallFields, StoreIsObjects, StoreIsObjectsNext
  <2>5. Promise!MakeBucket(r)
    BY <1>1, <2>2, <2>3, <2>4 DEF Promise!MakeBucket, Calls, Store
  <2> QED
    BY <2>5 DEF Abstract, Promise!Next
<1>6. ASSUME NEW answer, NEW live,
             Become(r, [req[r] EXCEPT !.pc = "createUndo", !.answer = answer, !.live = live])
      PROVE  Abstract
  <2> DEFINE q == [req[r] EXCEPT !.pc = "createUndo", !.answer = answer, !.live = live]
  <2>1. req[r] \in RequestState
    BY <1>1 DEF TypeOK
  <2>2. q.pc = "createUndo" /\ q.op = req[r].op /\ q.bucket = b /\ q.key = req[r].key
    BY <2>1 DEF RequestState
  <2>3. req'[r] = q /\ Only(r)
    BY <1>1, <1>6 DEF Become, TypeOK, Only
  <2> HIDE DEF q
  <2>4. SameRequest(r) /\ req'[r].pc = "createUndo"
    BY <2>2, <2>3 DEF SameRequest
  <2>5. Unseen
    BY <1>1, <1>4, <2>3, <2>4, SameExisting, StoreIsObjects, StoreIsObjectsNext DEF Unseen
  <2>6. PhaseOf(r) = "open" /\ PhaseOf(r)' = "open"
    BY <1>1, <2>4 DEF At, PhaseOf
  <2>7. InFlight(r)'
    BY <2>4, StepFacts DEF InFlight
  <2> QED
    BY <1>2, <2>3, <2>4, <2>5, <2>6, <2>7, StutterStep
<1> QED
  BY <1>5, <1>6 DEF CreateRow

\* When the key stays although it should be taken back, the client sees a
\* bucket that was made, whatever it is told.
LEMMA AbstractCreateUndo ==
    ASSUME KeyInv, KeyInv', NEW r \in Request, CreateUndo(r)
    PROVE  Abstract
<1> DEFINE b == req[r].bucket
           answer == req[r].answer
<1>1. /\ TypeOK /\ At(r, "createUndo") /\ UNCHANGED <<buckets, objects, seen>>
      /\ KeysRemove(b) /\ Reply(r, answer)
  BY DEF KeyInv, MessageInv, CreateUndo
<1>2. /\ InFlight(r) /\ req[r].op \in BucketOp /\ req[r].op = "createBucket" /\ b \in Bucket
      /\ req[r].pc \in OpenStep
  BY <1>1, BucketSteps, InFlightFacts, StepFacts DEF At, CreateStep, OpenStep
<1>3. answer \in {"error", "BucketAlreadyOwnedByYou"}
  BY <1>1 DEF KeyInv, Knows, At
<1>4. Only(r) /\ SameRequest(r) /\ req'[r].pc = "replied" /\ req'[r].answer = answer
  BY <1>1, ReplyEffect
<1>5. \A c \in Bucket \ {b} : keyOf'[c] = keyOf[c]
  BY <1>1 DEF KeysRemove, TypeOK
<1>6. /\ \A c : c # b => (c \in Existing' <=> c \in Existing)
      /\ b \notin Existing
  BY <1>1, <1>2, <1>4, <1>5, ExistingOfStep DEF At
<1> HIDE DEF answer
<1>7. CASE b \in Existing'
  <2>1. Existing' = Existing \cup {b}
    <3>1. \A c : c \in Existing' <=> c \in Existing \cup {b}
      BY <1>6, <1>7
    <3> QED
      BY <3>1 DEF Existing
  <2>2. Promise!Answer(r, answer) /\ Promise!Open(r, "createBucket")
    BY <1>2, <1>3, <1>4, AnswerStep, OpenCalls
  <2>3. Calls[r].bucket = b /\ Store' = Store
    BY <1>1, CallFields, StoreIsObjects, StoreIsObjectsNext
  <2>4. Promise!MakeBucket(r)
    BY <1>1, <1>3, <2>1, <2>2, <2>3 DEF Promise!MakeBucket, Calls, Store
  <2> QED
    BY <2>4 DEF Abstract, Promise!Next
<1>8. CASE b \notin Existing'
  <2>1. Unseen
    BY <1>1, <1>6, <1>8, SameExisting, StoreIsObjects, StoreIsObjectsNext DEF Unseen
  <2> QED
    BY <1>1, <1>2, <1>3, <2>1, ErrorStep, RefuseStep DEF Justified
<1> QED
  BY <1>7, <1>8

LEMMA AbstractDropRow ==
    ASSUME KeyInv, KeyInv', NEW r \in Request, DropRow(r)
    PROVE  Abstract
<1> DEFINE b == req[r].bucket
<1>1. TypeOK /\ At(r, "dropRow") /\ UNCHANGED <<keyOf, objects, seen>>
  BY DEF KeyInv, MessageInv, DropRow
<1>2. /\ InFlight(r) /\ req[r].op \in BucketOp /\ req[r].op = "deleteBucket" /\ b \in Bucket
      /\ req[r].pc \in OpenStep
  BY <1>1, BucketSteps, InFlightFacts, StepFacts DEF At, DropStep, OpenStep
<1>3. Store = objects /\ Store' = objects'
  BY StoreIsObjects, StoreIsObjectsNext
<1>4. ASSUME NEW answer \in {"BucketNotEmpty", "NoSuchBucket", "error"}, Reply(r, answer),
             UNCHANGED buckets,
             answer = "BucketNotEmpty" => ~Empty(b),
             answer = "NoSuchBucket" => b \notin buckets
      PROVE  Abstract
  <2>1. Only(r) /\ SameRequest(r) /\ req'[r].pc = "replied"
    BY <1>1, <1>4, ReplyEffect
  <2>2. Unseen
    BY <1>1, <1>4, <2>1, UnseenStep DEF At
  <2>3. answer = "BucketNotEmpty" => \E k \in Key : Store[b][k] # NoMessage
    BY <1>3, <1>4 DEF Empty
  <2>4. answer = "NoSuchBucket" => b \notin Existing
    BY <1>4 DEF Existing
  <2> QED
    BY <1>1, <1>2, <1>4, <2>2, <2>3, <2>4, ErrorStep, RefuseStep DEF Justified
<1>5. CASE Empty(b) /\ buckets' = buckets \ {b} /\ Goto(r, "dropKey")
  <2>1. Only(r) /\ SameRequest(r) /\ req'[r].pc = "dropKey"
    BY <1>1, <1>5, GotoEffect
  <2>2. Existing' = Existing \ {b}
    <3>1. \A c : c # b => (c \in Existing' <=> c \in Existing)
      BY <1>1, <1>2, <1>5, <2>1, ExistingOfStep
    <3>2. b \notin Existing'
      BY <1>5 DEF Existing
    <3>3. \A c : c \in Existing' <=> c \in Existing \ {b}
      BY <3>1, <3>2
    <3> QED
      BY <3>3 DEF Existing
  <2>3. PhaseOf(r)' = "done" /\ InFlight(r)'
    BY <2>1, StepFacts DEF PhaseOf, InFlight
  <2>4. Promise!Enter(r, "done") /\ Promise!Open(r, "deleteBucket")
    BY <1>2, <2>1, <2>3, EnterStep, OpenCalls
  <2>5. Calls[r].bucket = b
    BY CallFields
  <2>6. \A k \in Key : Store[b][k] = NoMessage
    BY <1>3, <1>5 DEF Empty
  <2>7. Store' = Store
    BY <1>1, <1>3
  <2>8. Promise!RemoveBucket(r)
    BY <1>1, <2>2, <2>4, <2>5, <2>6, <2>7 DEF Promise!RemoveBucket, Calls, Store
  <2> QED
    BY <2>8 DEF Abstract, Promise!Next
<1> QED
  BY <1>4, <1>5 DEF DropRow

LEMMA AbstractDropKey ==
    ASSUME KeyInv, KeyInv', NEW r \in Request, DropKey(r)
    PROVE  Abstract
<1> DEFINE b == req[r].bucket
<1>1. /\ TypeOK /\ At(r, "dropKey") /\ UNCHANGED <<buckets, objects, seen>>
      /\ KeysRemove(b) /\ Goto(r, "dropCipher")
  BY DEF KeyInv, MessageInv, DropKey
<1>2. InFlight(r) /\ req[r].op \in BucketOp /\ b \in Bucket
  BY <1>1, BucketSteps, InFlightFacts DEF At, DropStep
<1>3. Only(r) /\ SameRequest(r) /\ req'[r].pc = "dropCipher"
  BY <1>1, GotoEffect
<1>4. b \notin buckets
  BY <1>1 DEF KeyInv, Knows, At
<1>5. \A c \in Bucket \ {b} : keyOf'[c] = keyOf[c]
  BY <1>1 DEF KeysRemove, TypeOK
<1>6. /\ \A c : c # b => (c \in Existing' <=> c \in Existing)
      /\ b \notin Existing /\ b \notin Existing'
  BY <1>1, <1>2, <1>3, <1>4, <1>5, ExistingOfStep
<1>7. Unseen
  BY <1>1, <1>6, SameExisting, StoreIsObjects, StoreIsObjectsNext DEF Unseen
<1>8. PhaseOf(r) = "done" /\ PhaseOf(r)' = "done" /\ InFlight(r)'
  BY <1>1, <1>3, StepFacts DEF At, PhaseOf, InFlight
<1> QED
  BY <1>2, <1>3, <1>7, <1>8, StutterStep

LEMMA AbstractDropCipher ==
    ASSUME KeyInv, KeyInv', NEW r \in Request, DropCipher(r)
    PROVE  Abstract
<1>1. /\ TypeOK /\ At(r, "dropCipher") /\ Reply(r, "ok")
      /\ UNCHANGED <<buckets, keyOf, objects, seen>>
  BY DEF KeyInv, MessageInv, DropCipher
<1>2. Only(r) /\ req'[r].pc = "replied"
  BY <1>1, ReplyEffect
<1>3. Unseen
  BY <1>1, <1>2, UnseenStep DEF At
<1> QED
  BY <1>1, <1>3, DoneAnswered DEF At, DoneStep

-----------------------------------------------------------------------------
(* The steps of object operations *)

ObjectStep == PutStep \cup GetStep \cup DeleteStep

\* What an object operation that changes no row leaves alone.
KeptRows == UNCHANGED <<buckets, keyOf, objects, seen>>

LEMMA ObjectPhases ==
    /\ ObjectStep \subseteq OpenStep \cup DoneStep \cup {"rollback"}
    /\ "createRow" \notin ObjectStep /\ "createUndo" \notin ObjectStep
    /\ ObjectStep \subseteq Step
  BY DEF ObjectStep, PutStep, GetStep, DeleteStep, OpenStep, DoneStep, Step

LEMMA ObjectMove ==
    ASSUME KeyInv, KeyInv', NEW r \in Request, Only(r), SameRequest(r),
           req[r].pc \in ObjectStep, req'[r].pc \in ObjectStep, KeptRows,
           \/ req[r].pc \in OpenStep /\ req'[r].pc \in OpenStep
           \/ req[r].pc \in DoneStep /\ req'[r].pc \in DoneStep
    PROVE  Abstract
<1>1. Unseen
  BY ObjectPhases, UnseenStep DEF KeptRows
<1>2. InFlight(r) /\ InFlight(r)'
  BY ObjectPhases DEF InFlight
<1>3. PhaseOf(r)' = PhaseOf(r)
  <2>1. CASE req[r].pc \in OpenStep /\ req'[r].pc \in OpenStep
    <3>1. PhaseOf(r)' = "open"
      <4>1. /\ req'[r].pc \notin {"idle", "replied"} /\ req'[r].pc # "rollback"
            /\ req'[r].pc \notin {"dropKey", "dropCipher", "evict", "deleteMessage"}
        BY <2>1 DEF OpenStep
      <4> QED
        BY <4>1 DEF PhaseOf
    <3> QED
      BY <2>1, <3>1, PhaseFacts
  <2>2. CASE req[r].pc \in DoneStep /\ req'[r].pc \in DoneStep
    <3>1. PhaseOf(r)' = "done"
      <4>1. /\ req'[r].pc \notin {"idle", "replied"}
            /\ req'[r].pc \in {"dropKey", "dropCipher", "evict", "deleteMessage"}
        BY <2>2 DEF DoneStep
      <4> QED
        BY <4>1 DEF PhaseOf
    <3> QED
      BY <2>2, <3>1, PhaseFacts
  <2> QED
    BY <2>1, <2>2
<1> QED
  BY <1>1, <1>2, <1>3, StutterStep

LEMMA ObjectReply ==
    ASSUME KeyInv, KeyInv', NEW r \in Request, NEW answer, Reply(r, answer),
           req[r].pc \in ObjectStep, KeptRows,
           \/ answer = "error" /\ req[r].pc \in OpenStep \cup {"rollback"}
           \/ Justified(r, answer) /\ req[r].pc \in OpenStep
           \/ answer = "ok" /\ req[r].pc \in DoneStep
    PROVE  Abstract
<1>1. TypeOK
  BY DEF KeyInv, MessageInv
<1>2. Only(r) /\ req'[r].pc = "replied"
  BY <1>1, ReplyEffect
<1>3. Unseen
  BY <1>2, ObjectPhases, UnseenStep DEF KeptRows
<1> QED
  BY <1>1, <1>3, ErrorStep, RefuseStep, DoneAnswered

LEMMA AbstractPutCheck ==
    ASSUME KeyInv, KeyInv', NEW r \in Request, PutCheck(r) \/ PutTooLarge(r)
    PROVE  Abstract
<1>1. /\ TypeOK /\ req[r].pc \in {"putCheck", "upload"} /\ KeptRows
      /\ PutCheck(r) => At(r, "putCheck")
  BY DEF KeyInv, MessageInv, PutCheck, PutTooLarge, stores, KeptRows, At
<1>2. req[r].pc \in ObjectStep /\ req[r].pc \in OpenStep /\ req[r].op = "putObject"
  BY <1>1, StepFacts DEF ObjectStep, PutStep, OpenStep, TypeOK, InFlight
<1>3. CASE Goto(r, "putCipher")
  <2>1. Only(r) /\ SameRequest(r) /\ req'[r].pc = "putCipher"
    BY <1>1, <1>3, GotoEffect
  <2> QED
    BY <1>1, <1>2, <2>1, ObjectMove DEF ObjectStep, PutStep, OpenStep
<1>4. CASE req[r].bucket \notin buckets /\ Reply(r, "NoSuchBucket")
  <2>1. Justified(r, "NoSuchBucket")
    BY <1>2, <1>4 DEF Justified, Existing
  <2> QED
    BY <1>1, <1>2, <1>4, <2>1, ObjectReply
<1>5. CASE Reply(r, "EntityTooLarge")
  <2>1. Justified(r, "EntityTooLarge")
    BY <1>2 DEF Justified
  <2> QED
    BY <1>1, <1>2, <1>5, <2>1, ObjectReply
<1>6. CASE Reply(r, "error")
  BY <1>1, <1>2, <1>6, ObjectReply
<1> QED
  BY <1>3, <1>4, <1>5, <1>6 DEF PutCheck, PutTooLarge

\* A bucket without a key does not exist; the bucket of a GET has one.
LEMMA AbstractCipherFor ==
    ASSUME KeyInv, KeyInv', NEW r \in Request, PutCipher(r) \/ GetCipher(r)
    PROVE  Abstract
<1> DEFINE b == req[r].bucket
<1>1. /\ TypeOK /\ req[r].pc \in {"putCipher", "getCipher"} /\ ~At(r, "dropCipher")
      /\ KeptRows
  BY DEF KeyInv, MessageInv, PutCipher, GetCipher, CipherFor, At, KeptRows
<1>2. /\ req[r].pc \in ObjectStep /\ req[r].pc \in OpenStep /\ InFlight(r)
      /\ At(r, "putCipher") => req[r].op = "putObject"
  BY <1>1, StepFacts DEF ObjectStep, PutStep, GetStep, OpenStep, TypeOK, InFlight, At
<1>3. CipherKey(b) = keyOf[b]
  BY <1>1, <1>2, CacheOfRequest DEF CipherKey
<1>4. CASE CipherKey(b) = NoKey /\ Reply(r, "NoSuchBucket")
  <2>1. keyOf[b] = NoKey /\ At(r, "putCipher")
    BY <1>1, <1>3, <1>4 DEF KeyInv, Knows, At
  <2>2. Justified(r, "NoSuchBucket")
    BY <1>2, <2>1 DEF Justified, Existing
  <2> QED
    BY <1>1, <1>2, <1>4, <2>2, ObjectReply
<1>5. ASSUME NEW step \in {"upload", "fetch"},
             Become(r, [req[r] EXCEPT !.pc = step, !.cipher = CipherKey(b)])
      PROVE  Abstract
  <2> DEFINE q == [req[r] EXCEPT !.pc = step, !.cipher = CipherKey(b)]
  <2>1. req[r] \in RequestState
    BY <1>1 DEF TypeOK
  <2>2. q.pc = step /\ q.op = req[r].op /\ q.bucket = b /\ q.key = req[r].key
    BY <2>1 DEF RequestState
  <2>3. req'[r] = q /\ Only(r)
    BY <1>1, <1>5 DEF Become, TypeOK, Only
  <2> HIDE DEF q
  <2>4. SameRequest(r) /\ req'[r].pc \in {"upload", "fetch"}
    BY <2>2, <2>3 DEF SameRequest
  <2> QED
    BY <1>1, <1>2, <2>3, <2>4, ObjectMove DEF ObjectStep, PutStep, GetStep, OpenStep
<1> QED
  BY <1>4, <1>5 DEF PutCipher, GetCipher, CipherFor

LEMMA AbstractUpload ==
    ASSUME KeyInv, KeyInv', NEW r \in Request, Upload(r) \/ Rollback(r)
    PROVE  Abstract
<1>1. /\ TypeOK /\ req[r].pc \in {"upload", "rollback"} /\ KeptRows
      /\ Upload(r) => At(r, "upload")
  BY DEF KeyInv, MessageInv, Upload, Rollback, At, KeptRows
<1>2. req[r].pc \in ObjectStep /\ req[r].pc \in OpenStep \cup {"rollback"}
  BY <1>1 DEF ObjectStep, PutStep, OpenStep
<1>3. CASE At(r, "upload") /\ Hold(r, "commit", nextMessage)
  <2>1. Only(r) /\ SameRequest(r) /\ req'[r].pc = "commit"
    BY <1>1, <1>3, HoldEffect DEF Only, SameRequest
  <2> QED
    BY <1>1, <1>2, <1>3, <2>1, ObjectMove DEF ObjectStep, PutStep, OpenStep, At
<1>4. CASE Reply(r, "error")
  BY <1>1, <1>2, <1>4, ObjectReply
<1> QED
  BY <1>1, <1>3, <1>4 DEF Upload, Rollback, Hold

\* A GET is open from its arrival to its answer.
LEMMA ReadersOpen ==
    ASSUME TypeOK, NEW s \in Request
    PROVE  Promise!Open(s, "getObject") <=> Reading(s)
<1>1. Calls[s].phase = PhaseOf(s) /\ Calls[s].op = req[s].op
  BY CallFields
<1>2. req[s].pc \in OpenStep \cup DoneStep \cup {"rollback", "idle", "replied"}
  BY StepsHavePhase DEF TypeOK, RequestState
<1>3. PhaseOf(s) = "open" <=> req[s].pc \in OpenStep
  BY <1>2, PhaseFacts
<1>4. Reading(s) => req[s].pc \in OpenStep
  <2>1. Reading(s) => req[s].pc \in GetStep
    BY StepFacts DEF Reading, InFlight, TypeOK, Step, CreateStep, DropStep, PutStep, GetStep,
                     DeleteStep
  <2> QED
    BY <2>1, StepsHavePhase
<1>5. req[s].pc \in OpenStep => InFlight(s)
  BY StepsHavePhase DEF InFlight
<1> QED
  BY <1>1, <1>3, <1>4, <1>5 DEF Promise!Open, Calls, Reading

LEMMA VersionStep ==
    ASSUME KeyInv, KeyInv', NEW b, NEW k, NEW m, SetRow(b, k, m)
    PROVE  Promise!SetVersion(b, k, m)
<1>1. Store = objects /\ Store' = objects' /\ TypeOK
  BY StoreIsObjects, StoreIsObjectsNext DEF KeyInv, MessageInv
<1>2. Store' = [Store EXCEPT ![b] = [@ EXCEPT ![k] = m]]
  BY <1>1 DEF SetRow
<1>3. ASSUME NEW s \in Request
      PROVE  /\ Promise!Open(s, "getObject") <=> Reading(s)
             /\ Calls[s].bucket = req[s].bucket /\ Calls[s].key = req[s].key
  BY <1>1, ReadersOpen, CallFields
<1>4. seen' = [s \in Request |->
                 IF /\ Promise!Open(s, "getObject")
                    /\ Calls[s].bucket = b /\ Calls[s].key = k
                 THEN seen[s] \cup {m} ELSE seen[s]]
  BY <1>3 DEF SetRow
<1> QED
  BY <1>2, <1>4 DEF Promise!SetVersion, Store, Calls

LEMMA AbstractCommit ==
    ASSUME KeyInv, KeyInv', NEW r \in Request, Commit(r)
    PROVE  Abstract
<1> DEFINE b == req[r].bucket
           k == req[r].key
           m == req[r].msg
<1>1. TypeOK /\ At(r, "commit") /\ UNCHANGED <<buckets, keyOf>>
  BY DEF KeyInv, MessageInv, Commit
<1>2. /\ InFlight(r) /\ req[r].op = "putObject" /\ b \in Bucket /\ k \in Key /\ m \in Message
      /\ req[r].op \notin BucketOp
      /\ req[r].pc \in OpenStep /\ req[r].pc \in ObjectStep
  BY <1>1, StepFacts DEF At, TypeOK, InFlight, ObjectOp, BucketOp, OpenStep, ObjectStep, PutStep
<1>3. b \in buckets /\ keyOf[b] # NoKey
  BY <1>1 DEF KeyInv, Knows, At
<1>4. b \in Existing
  <2>1. ASSUME NEW s \in Request, req[s].pc \in {"createRow", "createUndo"}
        PROVE  req[s].bucket # b
    <3>1. req[s].pc \in CreateStep
      BY <2>1 DEF CreateStep
    <3>2. InFlight(s) /\ req[s].op \in BucketOp /\ s # r
      BY <1>1, <1>2, <3>1, BucketSteps
    <3> QED
      BY <1>2, <3>2, NobodyElse DEF KeyInv
  <2> QED
    BY <1>3, <2>1 DEF Existing
<1>5. \A c \in Bucket, x \in Key : Store[c][x] # m
  <2>1. \A c \in Bucket, x \in Key : objects[c][x] # m
    BY <1>1 DEF KeyInv, MessageInv, UploadPrivate, Uncommitted
  <2> QED
    BY <2>1, StoreIsObjects
<1>6. Promise!Open(r, "putObject") /\ Calls[r].bucket = b /\ Calls[r].key = k
  BY <1>2, OpenCalls, CallFields
<1>7. ASSUME SetRow(b, k, m), Only(r), req'[r].pc \in {"replied", "rollback"},
             Promise!Answer(r, "ok") \/ Promise!Enter(r, "failing")
      PROVE  Abstract
  <2>1. Existing' = Existing
    BY <1>1, <1>7, ExistingKept DEF At
  <2>2. Promise!SetVersion(b, k, m)
    BY <1>7, VersionStep
  <2>3. Promise!WriteObject(r, m)
    BY <1>4, <1>5, <1>6, <1>7, <2>1, <2>2 DEF Promise!WriteObject, Calls, Store
  <2> QED
    BY <1>2, <2>3 DEF Abstract, Promise!Next
<1>8. CASE SetRow(b, k, m) /\ Reply(r, "ok")
  <2>1. Only(r) /\ SameRequest(r) /\ req'[r].pc = "replied" /\ req'[r].answer = "ok"
    BY <1>1, <1>8, ReplyEffect
  <2>2. Promise!Answer(r, "ok")
    BY <1>2, <2>1, AnswerStep
  <2> QED
    BY <1>7, <1>8, <2>1, <2>2
<1>9. CASE SetRow(b, k, m) /\ Become(r, [req[r] EXCEPT !.pc = "rollback", !.live = FALSE])
  <2> DEFINE q == [req[r] EXCEPT !.pc = "rollback", !.live = FALSE]
  <2>1. req[r] \in RequestState
    BY <1>1 DEF TypeOK
  <2>2. q.pc = "rollback" /\ q.op = req[r].op /\ q.bucket = b /\ q.key = k
    BY <2>1 DEF RequestState
  <2>3. req'[r] = q /\ Only(r)
    BY <1>1, <1>9 DEF Become, TypeOK, Only
  <2> HIDE DEF q
  <2>4. SameRequest(r) /\ req'[r].pc = "rollback"
    BY <2>2, <2>3 DEF SameRequest
  <2>5. PhaseOf(r)' = "failing" /\ InFlight(r)'
    BY <2>4, StepFacts DEF PhaseOf, InFlight
  <2>6. Promise!Enter(r, "failing")
    BY <1>2, <2>3, <2>4, <2>5, EnterStep
  <2> QED
    BY <1>7, <1>9, <2>3, <2>4, <2>6
<1>10. CASE Goto(r, "rollback") /\ UNCHANGED <<objects, seen>>
  <2>1. Only(r) /\ SameRequest(r) /\ req'[r].pc = "rollback"
    BY <1>1, <1>10, GotoEffect
  <2>2. Unseen
    BY <1>1, <1>10, <2>1, UnseenStep DEF At
  <2>3. PhaseOf(r)' = "failing" /\ InFlight(r)'
    BY <2>1, StepFacts DEF PhaseOf, InFlight
  <2>4. Promise!Enter(r, "failing") /\ Calls[r].phase = "open"
    BY <1>2, <2>1, <2>3, EnterStep, OpenCalls
  <2>5. Promise!GiveUp(r)
    BY <2>2, <2>4 DEF Promise!GiveUp, Unseen, Calls, Store
  <2> QED
    BY <2>5 DEF Abstract, Promise!Next
<1> QED
  BY <1>8, <1>9, <1>10 DEF Commit

LEMMA AbstractGetRow ==
    ASSUME KeyInv, KeyInv', NEW r \in Request, GetRow(r)
    PROVE  Abstract
<1> DEFINE m == objects[req[r].bucket][req[r].key]
<1>1. TypeOK /\ At(r, "getRow") /\ KeptRows
  BY DEF KeyInv, MessageInv, GetRow, stores, KeptRows
<1>2. /\ req[r].op = "getObject" /\ Reading(r)
      /\ req[r].pc \in OpenStep /\ req[r].pc \in ObjectStep
  BY <1>1, StepFacts DEF At, TypeOK, InFlight, Reading, OpenStep, ObjectStep, GetStep
<1>3. CASE Hold(r, "getCipher", m)
  <2>1. Only(r) /\ SameRequest(r) /\ req'[r].pc = "getCipher"
    BY <1>1, <1>3, HoldEffect DEF Only, SameRequest
  <2> QED
    BY <1>1, <1>2, <2>1, ObjectMove DEF ObjectStep, GetStep, OpenStep
<1>4. CASE m = NoMessage /\ Reply(r, "NoSuchKey")
  <2>1. NoMessage \in seen[r]
    BY <1>2, <1>4 DEF KeyInv, MessageInv, ReadersSee
  <2>2. Justified(r, "NoSuchKey")
    BY <1>2, <2>1 DEF Justified
  <2> QED
    BY <1>1, <1>2, <1>4, <2>2, ObjectReply
<1>5. CASE Reply(r, "error")
  BY <1>1, <1>2, <1>5, ObjectReply
<1> QED
  BY <1>3, <1>4, <1>5 DEF GetRow, Hold

\* A GET shows a version that its object has had since the request began.
LEMMA AbstractFetch ==
    ASSUME KeyInv, KeyInv', NEW r \in Request, Fetch(r)
    PROVE  Abstract
<1> DEFINE m == req[r].msg
<1>1. TypeOK /\ At(r, "fetch") /\ KeptRows
  BY DEF KeyInv, MessageInv, Fetch, KeptRows
<1>2. /\ req[r].op = "getObject" /\ InFlight(r) /\ m \in Message
      /\ req[r].pc \in OpenStep /\ req[r].pc \in ObjectStep
  BY <1>1, StepFacts DEF At, TypeOK, InFlight, OpenStep, ObjectStep, GetStep
<1>3. m \in seen[r] /\ (m \in channel \/ NoMessage \in seen[r])
  BY <1>1 DEF KeyInv, MessageInv, ReadersHold, At
<1>4. sealedWith[m] = req[r].cipher
  BY <1>1 DEF KeyInv, Knows, At
<1>5. CASE Reply(r, "ok")
  <2> DEFINE q == [req[r] EXCEPT !.pc = "replied", !.answer = "ok",
                                 !.cipher = NoKey, !.live = TRUE]
  <2>1. req[r] \in RequestState
    BY <1>1 DEF TypeOK
  <2>2. q.msg = m
    BY <2>1 DEF RequestState
  <2>3. req'[r] = q
    BY <1>1, <1>5 DEF Reply, Become, TypeOK
  <2> HIDE DEF q
  <2>4. /\ Only(r) /\ SameRequest(r) /\ req'[r].pc = "replied" /\ req'[r].answer = "ok"
        /\ req'[r].msg = m
    BY <1>1, <1>5, <2>2, <2>3, ReplyEffect
  <2>5. CallOf(r) = Shown(PhaseOf(r), r, NoMessage, None)
    BY <1>1 DEF CallOf, Answered, Shown, At
  <2>6. PhaseOf(r)' = "replied"
    BY <2>4 DEF PhaseOf
  <2>7. CallOf(r)' = Shown("replied", r, m, "ok")
    BY <1>2, <2>4, <2>6 DEF CallOf, Answered, SameRequest, Shown
  <2>8. CallOf(r)' = RepliedWith(CallOf(r), "ok", m)
    BY <2>5, <2>7, AnsweredRecord
  <2>9. Calls' = [Calls EXCEPT ![r] = RepliedWith(@, "ok", m)]
    <3>1. Calls[r] = CallOf(r)
      BY DEF Calls
    <3> QED
      BY <2>4, <2>8, <3>1, OthersCalls
  <2>10. Promise!Open(r, "getObject") /\ m \in seen[r] \ {NoMessage}
    BY <1>2, <1>3, OpenCalls DEF Message, NoMessage
  <2>11. Unseen
    BY <1>1, <2>4, UnseenStep DEF At, KeptRows
  <2>12. Promise!AnswerRead(r)
    BY <2>9, <2>10, <2>11 DEF Promise!AnswerRead, RepliedWith, Unseen, Calls, Store
  <2> QED
    BY <2>12 DEF Abstract, Promise!Next
<1>6. CASE m \notin channel /\ Reply(r, "NoSuchKey")
  <2>1. Justified(r, "NoSuchKey")
    BY <1>2, <1>3, <1>6 DEF Justified
  <2> QED
    BY <1>1, <1>2, <1>6, <2>1, ObjectReply
<1>7. CASE Reply(r, "error")
  BY <1>1, <1>2, <1>7, ObjectReply
<1> QED
  BY <1>4, <1>5, <1>6, <1>7 DEF Fetch

LEMMA AbstractDeleteRow ==
    ASSUME KeyInv, KeyInv', NEW r \in Request, DeleteRow(r)
    PROVE  Abstract
<1> DEFINE b == req[r].bucket
           k == req[r].key
<1>1. TypeOK /\ At(r, "deleteRow") /\ UNCHANGED <<buckets, keyOf>>
  BY DEF KeyInv, MessageInv, DeleteRow
<1>2. /\ req[r].op = "deleteObject" /\ InFlight(r) /\ b \in Bucket /\ k \in Key
      /\ req[r].pc \in OpenStep /\ req[r].pc \in ObjectStep
  BY <1>1, StepFacts DEF At, TypeOK, InFlight, ObjectOp, OpenStep, ObjectStep, DeleteStep
<1>3. /\ Promise!Open(r, "deleteObject") /\ Calls[r].bucket = b /\ Calls[r].key = k
      /\ Store = objects
  BY <1>2, OpenCalls, CallFields, StoreIsObjects
<1>4. CASE /\ objects[b][k] # NoMessage /\ SetRow(b, k, NoMessage)
           /\ Hold(r, "evict", objects[b][k])
  <2>1. Only(r) /\ SameRequest(r) /\ req'[r].pc = "evict"
    BY <1>1, <1>4, HoldEffect DEF Only, SameRequest
  <2>2. PhaseOf(r)' = "done" /\ InFlight(r)'
    BY <2>1, StepFacts DEF PhaseOf, InFlight
  <2>3. Promise!Enter(r, "done")
    BY <1>2, <2>1, <2>2, EnterStep
  <2>4. Existing' = Existing
    BY <1>1, <2>1, ExistingKept DEF At
  <2>5. Promise!SetVersion(b, k, NoMessage)
    BY <1>4, VersionStep
  <2>6. Store[b][k] # NoMessage
    BY <1>3, <1>4
  <2>7. Promise!EraseObject(r)
    BY <1>3, <2>3, <2>4, <2>5, <2>6 DEF Promise!EraseObject, Calls, Store
  <2> QED
    BY <2>7 DEF Abstract, Promise!Next
<1>5. CASE objects[b][k] = NoMessage /\ Reply(r, "ok") /\ UNCHANGED <<objects, seen>>
  <2>1. Only(r) /\ SameRequest(r) /\ req'[r].pc = "replied" /\ req'[r].answer = "ok"
    BY <1>1, <1>5, ReplyEffect
  <2>2. Promise!Answer(r, "ok")
    BY <1>2, <2>1, AnswerStep
  <2>3. Unseen
    BY <1>1, <1>5, <2>1, UnseenStep DEF At
  <2>4. Store[b][k] = NoMessage
    BY <1>3, <1>5
  <2>5. Promise!AnswerDone(r)
    BY <1>3, <2>2, <2>3, <2>4 DEF Promise!AnswerDone, Unseen, Calls, Store
  <2> QED
    BY <2>5 DEF Abstract, Promise!Next
<1>6. CASE Reply(r, "error") /\ UNCHANGED <<objects, seen>>
  BY <1>1, <1>2, <1>6, ObjectReply DEF KeptRows
<1> QED
  BY <1>4, <1>5, <1>6 DEF DeleteRow, Hold

LEMMA AbstractDeleteMessage ==
    ASSUME KeyInv, KeyInv', NEW r \in Request, Evict(r) \/ DeleteMessage(r)
    PROVE  Abstract
<1>1. /\ TypeOK /\ req[r].pc \in {"evict", "deleteMessage"} /\ KeptRows
  BY DEF KeyInv, MessageInv, Evict, DeleteMessage, At, KeptRows
<1>2. req[r].pc \in ObjectStep /\ req[r].pc \in DoneStep
  BY <1>1 DEF ObjectStep, DeleteStep, DoneStep
<1>3. CASE Goto(r, "deleteMessage")
  <2>1. Only(r) /\ SameRequest(r) /\ req'[r].pc = "deleteMessage"
    BY <1>1, <1>3, GotoEffect
  <2> QED
    BY <1>1, <1>2, <2>1, ObjectMove DEF ObjectStep, DeleteStep, DoneStep
<1>4. CASE Reply(r, "ok")
  BY <1>1, <1>2, <1>4, ObjectReply
<1> QED
  BY <1>3, <1>4 DEF Evict, DeleteMessage

-----------------------------------------------------------------------------
(* Clients, the process and its surroundings *)

\* A client without a request, and one that has sent it.
LEMMA IdleCall ==
    ASSUME NEW r \in Request, req[r] = Idle
    PROVE  CallOf(r) = Promise!NoCall
<1>1. /\ req[r].pc = "idle" /\ req[r].op = None /\ req[r].bucket = None /\ req[r].key = None
  BY DEF Idle
<1>2. PhaseOf(r) = "idle"
  BY <1>1, PhaseFacts
<1> QED
  BY <1>1, <1>2 DEF CallOf, Answered, Promise!NoCall

NewCall(op, b) == [Promise!NoCall EXCEPT !.phase = "open", !.op = op, !.bucket = b]
NewObjectCall(op, b, k) ==
    [Promise!NoCall EXCEPT !.phase = "open", !.op = op, !.bucket = b, !.key = k]

LEMMA NewCalls ==
    ASSUME NEW op, NEW b, NEW k
    PROVE  /\ NewCall(op, b) = [phase |-> "open", op |-> op, bucket |-> b, key |-> None,
                                version |-> NoMessage, answer |-> None]
           /\ NewObjectCall(op, b, k) = [phase |-> "open", op |-> op, bucket |-> b, key |-> k,
                                         version |-> NoMessage, answer |-> None]
<1> DEFINE p == [Promise!NoCall EXCEPT !.phase = "open"]
           q == [p EXCEPT !.op = op]
           s == [q EXCEPT !.bucket = b]
<1>1. p = [phase |-> "open", op |-> None, bucket |-> None, key |-> None,
           version |-> NoMessage, answer |-> None]
  BY DEF Promise!NoCall
<1>2. NewCall(op, b) = s /\ NewObjectCall(op, b, k) = [s EXCEPT !.key = k]
  BY DEF NewCall, NewObjectCall
<1> HIDE DEF p
<1>3. q = [phase |-> "open", op |-> op, bucket |-> None, key |-> None,
           version |-> NoMessage, answer |-> None]
  BY <1>1
<1> HIDE DEF q
<1>4. s = [phase |-> "open", op |-> op, bucket |-> b, key |-> None,
           version |-> NoMessage, answer |-> None]
  BY <1>3
<1> HIDE DEF s
<1>5. [s EXCEPT !.key = k] = [phase |-> "open", op |-> op, bucket |-> b, key |-> k,
                              version |-> NoMessage, answer |-> None]
  BY <1>4
<1> QED
  BY <1>2, <1>4, <1>5

LEMMA AbstractBegin ==
    ASSUME KeyInv, KeyInv', NEW r \in Request, BeginBucketOp(r) \/ BeginObjectOp(r)
    PROVE  Abstract
<1> DEFINE started(op, b, k) ==
        [Idle EXCEPT !.pc = FirstStep(op), !.op = op, !.bucket = b, !.key = k]
<1>1. TypeOK /\ Store = objects /\ Store' = objects'
  BY StoreIsObjects, StoreIsObjectsNext DEF KeyInv, MessageInv
<1>2. ASSUME NEW op \in Operation, NEW b \in Bucket, NEW k \in Key \cup {None}, Begin(r, op, b, k)
      PROVE  /\ Calls[r].phase = "idle" /\ Existing' = Existing /\ Store' = Store
             /\ Calls' = [Calls EXCEPT ![r] = [phase |-> "open", op |-> op, bucket |-> b,
                                               key |-> k, version |-> NoMessage, answer |-> None]]
  <2>1. /\ started(op, b, k).pc = FirstStep(op) /\ started(op, b, k).op = op
        /\ started(op, b, k).bucket = b /\ started(op, b, k).key = k
    BY DEF Idle
  <2>2. Become(r, started(op, b, k))
    BY <1>2 DEF Begin
  <2> HIDE DEF started
  <2>3. /\ Only(r) /\ req'[r].pc = FirstStep(op) /\ req'[r].op = op /\ req'[r].bucket = b
        /\ req'[r].key = k /\ At(r, "idle")
        /\ UNCHANGED <<buckets, objects, keyOf>>
    BY <1>1, <1>2, <2>1, <2>2 DEF Begin, Become, Only, TypeOK, stores
  <2>4. FirstStep(op) \in {"createKey", "dropRow", "putCheck", "getRow", "deleteRow"}
    BY DEF Operation, BucketOp, ObjectOp, FirstStep
  <2>5. PhaseOf(r)' = "open"
    <3>1. /\ req'[r].pc \notin {"idle", "replied"} /\ req'[r].pc # "rollback"
          /\ req'[r].pc \notin {"dropKey", "dropCipher", "evict", "deleteMessage"}
      BY <2>3, <2>4
    <3> QED
      BY <3>1 DEF PhaseOf
  <2>6. CallOf(r)' = [phase |-> "open", op |-> op, bucket |-> b, key |-> k,
                      version |-> NoMessage, answer |-> None]
    BY <2>3, <2>4, <2>5 DEF CallOf, Answered
  <2>7. Calls[r].phase = "idle"
    BY <2>3, PhaseFacts, CallFields DEF At
  <2>8. Existing' = Existing
    BY <2>3, <2>4, ExistingKept DEF At
  <2> QED
    BY <1>1, <2>3, <2>6, <2>7, <2>8, OthersCalls
<1>3. CASE BeginBucketOp(r)
  <2>1. PICK op \in BucketOp, b \in Bucket : Begin(r, op, b, None)
    BY <1>3 DEF BeginBucketOp
  <2>2. /\ Calls[r].phase = "idle" /\ Existing' = Existing /\ Store' = Store
        /\ Calls' = [Calls EXCEPT ![r] = NewCall(op, b)]
    BY <1>2, <2>1, NewCalls DEF Operation
  <2>3. op \in {"createBucket", "deleteBucket"} /\ UNCHANGED seen
    BY <1>3 DEF BucketOp, BeginBucketOp
  <2>4. Promise!Call(r)
    BY <2>2, <2>3 DEF Promise!Call, NewCall, Calls, Store
  <2> QED
    BY <2>4 DEF Abstract, Promise!Next
<1>4. CASE BeginObjectOp(r)
  <2>1. PICK op \in ObjectOp, b \in Bucket, k \in Key :
            /\ Begin(r, op, b, k)
            /\ seen' = [seen EXCEPT ![r] = IF op = "getObject" THEN {objects[b][k]} ELSE {}]
    BY <1>4 DEF BeginObjectOp
  <2>2. /\ Calls[r].phase = "idle" /\ Existing' = Existing /\ Store' = Store
        /\ Calls' = [Calls EXCEPT ![r] = NewObjectCall(op, b, k)]
    BY <1>2, <2>1, NewCalls DEF Operation
  <2>3. op \in {"putObject", "getObject", "deleteObject"}
    BY DEF ObjectOp
  <2>4. seen' = [seen EXCEPT ![r] = IF op = "getObject" THEN {Store[b][k]} ELSE {}]
    BY <1>1, <2>1
  <2>5. Promise!Call(r)
    BY <2>2, <2>3, <2>4 DEF Promise!Call, NewObjectCall, Calls, Store
  <2> QED
    BY <2>5 DEF Abstract, Promise!Next
<1> QED
  BY <1>3, <1>4

LEMMA AbstractEnd ==
    ASSUME KeyInv, KeyInv', NEW r \in Request, Finish(r) \/ Cancel(r)
    PROVE  Abstract
<1>1. TypeOK /\ UNCHANGED <<buckets, objects, keyOf>>
  BY DEF KeyInv, MessageInv, Finish, Cancel, stores
<1>2. CASE Finish(r)
  <2>1. Only(r) /\ req'[r] = Idle /\ req'[r].pc = "idle" /\ At(r, "replied")
    BY <1>1, <1>2 DEF Finish, Become, Only, TypeOK, Idle
  <2>2. CallOf(r)' = Promise!NoCall
    <3>1. PhaseOf(r)' = "idle"
      BY <2>1 DEF PhaseOf
    <3>2. /\ req'[r].op = None /\ req'[r].bucket = None /\ req'[r].key = None
      BY <2>1 DEF Idle
    <3> QED
      BY <2>1, <3>1, <3>2 DEF CallOf, Answered, Promise!NoCall
  <2>3. Calls' = [Calls EXCEPT ![r] = Promise!NoCall]
    BY <2>1, <2>2, OthersCalls
  <2>4. Calls[r].phase = "replied"
    BY <2>1, PhaseFacts, CallFields DEF At
  <2>5. Existing' = Existing /\ Store' = Store
    BY <1>1, <2>1, ExistingKept, StoreIsObjects, StoreIsObjectsNext DEF At
  <2>6. Promise!Return(r)
    BY <1>2, <2>3, <2>4, <2>5 DEF Promise!Return, Finish, Calls, Store
  <2> QED
    BY <2>6 DEF Abstract, Promise!Next
<1>3. CASE Cancel(r)
  <2> DEFINE q == [req[r] EXCEPT !.live = FALSE]
  <2>1. req[r] \in RequestState
    BY <1>1 DEF TypeOK
  <2>2. q.pc = req[r].pc /\ q.op = req[r].op /\ q.bucket = req[r].bucket /\ q.key = req[r].key
    BY <2>1 DEF RequestState
  <2>3. req'[r] = q /\ Only(r)
    BY <1>1, <1>3 DEF Cancel, Become, TypeOK, Only
  <2> HIDE DEF q
  <2>4. SameRequest(r) /\ req'[r].pc = req[r].pc
    BY <2>2, <2>3 DEF SameRequest
  <2>5. PhaseOf(r)' = PhaseOf(r) /\ InFlight(r) /\ InFlight(r)'
    BY <1>3, <2>4 DEF PhaseOf, Cancel, InFlight
  <2>6. Existing' = Existing
    <3>1. \A s \in Request : req'[s].pc = req[s].pc /\ req'[s].bucket = req[s].bucket
      BY <2>3, <2>4 DEF Only, SameRequest
    <3> QED
      BY <1>1, <3>1 DEF Existing
  <2>7. Unseen
    BY <1>1, <1>3, <2>6, StoreIsObjects, StoreIsObjectsNext DEF Unseen, Cancel
  <2> QED
    BY <2>3, <2>4, <2>5, <2>7, StutterStep
<1> QED
  BY <1>2, <1>3

\* A crash: a creation that was cut short after its row leaves a bucket.
LEMMA AbstractCrash ==
    ASSUME KeyInv, KeyInv', Crash
    PROVE  Abstract
<1> DEFINE creating == {s \in Request : Promise!Open(s, "createBucket")}
           made == Existing' \ Existing
<1>1. /\ TypeOK /\ req' = [r \in Request |-> Idle] /\ seen' = [r \in Request |-> {}]
      /\ UNCHANGED <<buckets, objects, keyOf>>
  BY DEF KeyInv, MessageInv, Crash
<1>2. \A r \in Request : req'[r] = Idle /\ req'[r].pc = "idle"
  BY <1>1 DEF Idle
<1>3. Existing \subseteq Existing'
  BY <1>1, <1>2 DEF Existing
<1>4. ASSUME NEW b \in made
      PROVE  \E r \in creating : Calls[r].bucket = b
  <2>1. PICK r \in Request : req[r].pc \in {"createRow", "createUndo"} /\ req[r].bucket = b
    BY <1>1, <1>4 DEF Existing
  <2>2. req[r].pc \in OpenStep /\ req[r].op = "createBucket"
    BY <1>1, <2>1, StepFacts DEF OpenStep, TypeOK, InFlight
  <2>3. Promise!Open(r, "createBucket")
    BY <2>2, OpenCalls
  <2> QED
    BY <2>1, <2>3, CallFields
<1>5. made \in SUBSET {Calls[r].bucket : r \in creating}
  BY <1>4
<1>6. Existing' = Existing \cup made
  BY <1>3
<1>7. Existing' \in {Existing \cup m : m \in SUBSET {Calls[r].bucket : r \in creating}}
  BY <1>5, <1>6
<1>8. Calls' = [r \in Request |-> Promise!NoCall]
  <2>1. ASSUME NEW r \in Request PROVE CallOf(r)' = Promise!NoCall
    <3>1. /\ req'[r].op = None /\ req'[r].bucket = None /\ req'[r].key = None
          /\ req'[r].pc = "idle"
      BY <1>2 DEF Idle
    <3>2. PhaseOf(r)' = "idle"
      BY <3>1 DEF PhaseOf
    <3> QED
      BY <3>1, <3>2 DEF CallOf, Answered, Promise!NoCall
  <2> QED
    BY <2>1 DEF Calls
<1>9. Store' = Store
  BY <1>1, StoreIsObjects, StoreIsObjectsNext
<1>10. Promise!Forget
  BY <1>1, <1>7, <1>8, <1>9 DEF Promise!Forget, Calls, Store
<1> QED
  BY <1>10 DEF Abstract, Promise!Next

\* The disk cache is nothing that clients see.
LEMMA AbstractUnseen ==
    ASSUME KeyInv, KeyInv', LruEvict \/ UNCHANGED vars
    PROVE  Abstract
<1>1. UNCHANGED <<buckets, objects, keyOf, req, seen>>
  BY DEF LruEvict, vars
<1>2. Existing' = Existing /\ Store' = Store
  BY <1>1, StoreIsObjects, StoreIsObjectsNext DEF Existing
<1>3. ASSUME NEW r \in Request PROVE CallOf(r)' = CallOf(r)
  BY <1>1 DEF CallOf, PhaseOf, Answered
<1>4. Calls' = Calls
  BY <1>3 DEF Calls
<1> QED
  BY <1>1, <1>2, <1>4 DEF Abstract, Promise!storeVars, Calls, Store

-----------------------------------------------------------------------------
(* The refinement *)

LEMMA AbstractInit == Init => Promise!Init
<1> SUFFICES ASSUME Init PROVE Promise!Init
  OBVIOUS
<1>1. Existing = {}
  BY DEF Init, Existing
<1>2. Store = [b \in Bucket |-> [k \in Key |-> NoMessage]]
  <2>1. Store = objects
    BY KeyInit, StoreIsObjects
  <2> QED
    BY <2>1 DEF Init
<1>3. Calls = [r \in Request |-> Promise!NoCall]
  <2>1. \A r \in Request : CallOf(r) = Promise!NoCall
    BY IdleCall DEF Init
  <2> QED
    BY <2>1 DEF Calls
<1>4. seen = [r \in Request |-> {}]
  BY DEF Init
<1> QED
  BY <1>1, <1>2, <1>3, <1>4 DEF Promise!Init, Calls, Store

LEMMA AbstractNext == KeyInv /\ KeyInv' /\ [Next]_vars => Abstract
<1> SUFFICES ASSUME KeyInv, KeyInv', [Next]_vars PROVE Abstract
  OBVIOUS
<1>1. ASSUME NEW r \in Request, RequestStep(r) PROVE Abstract
  BY <1>1, AbstractCreateKey, AbstractCreateRow, AbstractCreateUndo, AbstractDropRow,
     AbstractDropKey, AbstractDropCipher, AbstractPutCheck, AbstractCipherFor, AbstractUpload,
     AbstractCommit, AbstractGetRow, AbstractFetch, AbstractDeleteRow, AbstractDeleteMessage
     DEF RequestStep
<1>2. ASSUME NEW r \in Request,
             BeginBucketOp(r) \/ BeginObjectOp(r) \/ Finish(r) \/ Cancel(r)
      PROVE  Abstract
  BY <1>2, AbstractBegin, AbstractEnd
<1>3. CASE LruEvict \/ UNCHANGED vars
  BY <1>3, AbstractUnseen
<1>4. CASE Crash
  BY <1>4, AbstractCrash
<1> QED
  BY <1>1, <1>2, <1>3, <1>4 DEF Next

\* With clients that leave a bucket alone while they create or delete it,
\* service.go implements S3Store: whatever requests interleave, fail, are
\* cancelled or die with the process, every request takes effect in one step
\* between its arrival and its answer, and answers what that step justifies.
THEOREM ImplementsStore == ASSUME BucketOpsAlone PROVE Spec => KeepsPromise
<1>1. Init => KeyInv /\ Promise!Init
  BY KeyInit, AbstractInit
<1>2. KeyInv /\ [Next]_vars => KeyInv'
  BY KeyNext
<1>3. KeyInv /\ KeyInv' /\ [Next]_vars => [Promise!Next]_(Promise!storeVars)
  BY AbstractNext DEF Abstract
<1> QED
  BY <1>1, <1>2, <1>3, PTL DEF Spec, KeepsPromise, Promise!Spec
=============================================================================

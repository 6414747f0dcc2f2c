--------------------------- MODULE ObjectService ---------------------------
(***************************************************************************)
(* The object store of the daemon: internal/s3api/service.go over          *)
(* internal/metadata (SQLite), internal/keys (keys.toml), the in-memory    *)
(* cipher cache, the disk cache of ciphertext and a Telegram channel.      *)
(*                                                                         *)
(* Every HTTP request runs in a goroutine of its own and nothing locks a   *)
(* bucket or an object across the steps of a request, so a request is a    *)
(* sequence of atomic steps that interleave with those of the others:      *)
(*   - a metadata call is one step (SetMaxOpenConns(1), one statement or   *)
(*     one transaction each);                                              *)
(*   - a keys.Store call is one step (its mutex, and an atomic rename);    *)
(*   - cipherFor is one step (Service.mu);                                 *)
(*   - a backend call is one step, seen from the channel.                  *)
(* Each request carries the context of its connection: when the client     *)
(* goes away the context is cancelled and every later call that takes it   *)
(* fails at once, without effect.                                          *)
(***************************************************************************)
EXTENDS Naturals, FiniteSets

CONSTANTS
    Bucket,          \* bucket names (valid ones: validBucketName is checked on entry)
    Key,             \* object keys
    Request,         \* handler goroutines that may run at the same time
    Ops,             \* the operations clients issue, a subset of Operation
    Faults,          \* what may go wrong, a subset of Fault
    BucketOpsAlone,  \* TRUE: clients never overlap creating or deleting a
                     \* bucket with any other request on that bucket
    CacheEnabled,    \* Service.Cache is not nil
    MaxMessages,     \* bound: messages ever sent to the channel
    MaxDataKeys      \* bound: data keys ever generated

BucketOp == {"createBucket", "deleteBucket"}
ObjectOp == {"putObject", "getObject", "deleteObject"}
Operation == BucketOp \cup ObjectOp

\* cancel: the client disconnects; telegram: the backend call fails; database:
\* SQLite refuses a statement (disk full, busy); keysFile: keys.toml cannot be
\* written; crash: the process dies and is started again.
Fault == {"cancel", "telegram", "database", "keysFile", "crash"}

ASSUME OpsAssumption == Ops \subseteq Operation
ASSUME FaultsAssumption == Faults \subseteq Fault
ASSUME SwitchAssumption == BucketOpsAlone \in BOOLEAN /\ CacheEnabled \in BOOLEAN
ASSUME BoundAssumption == MaxMessages \in Nat /\ MaxDataKeys \in Nat

Message == 1..MaxMessages
DataKey == 1..MaxDataKeys
NoMessage == 0
NoKey == 0
None == "none"

VARIABLES
    buckets,      \* names in table buckets
    objects,      \* table objects: objects[b][k] is the row's message_id
    keyOf,        \* keys.Store: the data key of each bucket, as in keys.toml
    cipherCache,  \* Service.cipherCache: the data key of the cached cipher
    cached,       \* messages whose ciphertext the disk cache holds
    channel,      \* messages now in the Telegram channel
    sealedWith,   \* the data key each message's content was encrypted under
    nextMessage,  \* next message id of the channel
    nextKey,      \* next data key
    req,          \* the request each goroutine is serving
    seen          \* history: the rows a GET's object has had since it began

stores == <<buckets, objects, keyOf, cipherCache, cached, channel, sealedWith,
            nextMessage, nextKey>>
vars == <<buckets, objects, keyOf, cipherCache, cached, channel, sealedWith,
          nextMessage, nextKey, req, seen>>

-----------------------------------------------------------------------------
(* Requests *)

CreateStep == {"createKey", "createRow", "createUndo"}
DropStep == {"dropRow", "dropKey", "dropCipher"}
PutStep == {"putCheck", "putCipher", "upload", "commit", "rollback"}
GetStep == {"getRow", "getCipher", "fetch"}
DeleteStep == {"deleteRow", "evict", "deleteMessage"}
Step == CreateStep \cup DropStep \cup PutStep \cup GetStep \cup DeleteStep

OpOf(step) == CASE step \in CreateStep -> "createBucket"
                [] step \in DropStep   -> "deleteBucket"
                [] step \in PutStep    -> "putObject"
                [] step \in GetStep    -> "getObject"
                [] step \in DeleteStep -> "deleteObject"

Answer == {"ok", "error", "broken", "NoSuchBucket", "NoSuchKey", "BucketNotEmpty",
           "BucketAlreadyOwnedByYou", "EntityTooLarge"}

\* msg is the message the handler holds a reference to, cipher the data key of
\* the cipher it holds, live whether its context is still live. "error" stands
\* for every 5xx answer, "broken" for a 200 whose body stops at a frame that
\* does not authenticate.
RequestState ==
    [pc : Step \cup {"idle", "replied"}, op : Operation \cup {None},
     bucket : Bucket \cup {None}, key : Key \cup {None},
     cipher : DataKey \cup {NoKey}, msg : Message \cup {NoMessage},
     live : BOOLEAN, answer : Answer \cup {None}]

Idle == [pc |-> "idle", op |-> None, bucket |-> None, key |-> None,
         cipher |-> NoKey, msg |-> NoMessage, live |-> TRUE, answer |-> None]

FirstStep(op) == CASE op = "createBucket" -> "createKey"
                   [] op = "deleteBucket" -> "dropRow"
                   [] op = "putObject"    -> "putCheck"
                   [] op = "getObject"    -> "getRow"
                   [] op = "deleteObject" -> "deleteRow"

InFlight(r) == req[r].pc \in Step
At(r, step) == req[r].pc = step
Reading(r) == InFlight(r) /\ req[r].op = "getObject"

Become(r, state) == req' = [req EXCEPT ![r] = state]
Goto(r, step) == Become(r, [req[r] EXCEPT !.pc = step])

\* The handler is done with its cipher and its context.
Reply(r, answer) ==
    Become(r, [req[r] EXCEPT !.pc = "replied", !.answer = answer,
                             !.cipher = NoKey, !.live = TRUE])

\* A call that takes the request's context fails without effect when the
\* context is cancelled, and when the service behind it fails.
CallFails(r, fault) == ~req[r].live \/ fault \in Faults

\* The row of (b, k) becomes m: every GET of (b, k) in flight sees it.
SetRow(b, k, m) ==
    /\ objects' = [objects EXCEPT ![b] = [@ EXCEPT ![k] = m]]
    /\ seen' = [r \in Request |->
                  IF Reading(r) /\ req[r].bucket = b /\ req[r].key = k
                  THEN seen[r] \cup {m} ELSE seen[r]]

MayBegin(op, b) ==
    BucketOpsAlone =>
        \A r \in Request : InFlight(r) /\ req[r].bucket = b
                             => op \notin BucketOp /\ req[r].op \notin BucketOp

\* ServeHTTP dispatches a request to its handler (router.go).
Begin(r, op, b, k) ==
    /\ At(r, "idle")
    /\ op \in Ops
    /\ MayBegin(op, b)
    /\ Become(r, [Idle EXCEPT !.pc = FirstStep(op), !.op = op, !.bucket = b, !.key = k])
    /\ UNCHANGED stores

BeginBucketOp(r) ==
    /\ \E op \in BucketOp, b \in Bucket : Begin(r, op, b, None)
    /\ UNCHANGED seen

BeginObjectOp(r) ==
    \E op \in ObjectOp, b \in Bucket, k \in Key :
        /\ Begin(r, op, b, k)
        /\ seen' = [seen EXCEPT ![r] = IF op = "getObject" THEN {objects[b][k]} ELSE {}]

\* The handler has written its answer and returns.
Finish(r) ==
    /\ At(r, "replied")
    /\ Become(r, Idle)
    /\ seen' = [seen EXCEPT ![r] = {}]
    /\ UNCHANGED stores

\* The client disconnects: the request's context is cancelled.
Cancel(r) ==
    /\ "cancel" \in Faults
    /\ InFlight(r) /\ req[r].live
    /\ Become(r, [req[r] EXCEPT !.live = FALSE])
    /\ UNCHANGED <<stores, seen>>

-----------------------------------------------------------------------------
(* CreateBucket *)

\* Keys.Create: an error when the bucket has a key, else a fresh key in
\* keys.toml; when the file cannot be written the key is taken back.
CreateKey(r) ==
    LET b == req[r].bucket IN
    /\ At(r, "createKey")
    /\ \/ /\ keyOf[b] # NoKey
          /\ Reply(r, "BucketAlreadyOwnedByYou")
          /\ UNCHANGED <<keyOf, nextKey>>
       \/ /\ keyOf[b] = NoKey /\ nextKey \in DataKey
          /\ keyOf' = [keyOf EXCEPT ![b] = nextKey]
          /\ nextKey' = nextKey + 1
          /\ Goto(r, "createRow")
       \/ /\ keyOf[b] = NoKey
          /\ "keysFile" \in Faults \/ nextKey \notin DataKey
          /\ Reply(r, "error")
          /\ UNCHANGED <<keyOf, nextKey>>
    /\ UNCHANGED <<buckets, objects, cipherCache, cached, channel, sealedWith,
                   nextMessage, seen>>

\* Meta.CreateBucket. The answer of the failing branches is given after the
\* key has been taken back. A statement that is cancelled while it runs may
\* have been applied and yet be reported as failed.
CreateRow(r) ==
    LET b == req[r].bucket
        undo(answer, live) ==
            Become(r, [req[r] EXCEPT !.pc = "createUndo", !.answer = answer, !.live = live])
    IN
    /\ At(r, "createRow")
    /\ \/ /\ req[r].live /\ b \notin buckets
          /\ buckets' = buckets \cup {b}
          /\ \/ Reply(r, "ok")
             \/ "cancel" \in Faults /\ undo("error", FALSE)
       \/ /\ req[r].live /\ b \in buckets
          /\ undo("BucketAlreadyOwnedByYou", TRUE)
          /\ UNCHANGED buckets
       \/ /\ CallFails(r, "database")
          /\ undo("error", req[r].live)
          /\ UNCHANGED buckets
    /\ UNCHANGED <<objects, keyOf, cipherCache, cached, channel, sealedWith,
                   nextMessage, nextKey, seen>>

\* Keys.Remove, whose error both callers ignore: a bucket without a key is
\* left alone, a file that cannot be written keeps the key.
KeysRemove(b) ==
    \/ keyOf' = [keyOf EXCEPT ![b] = NoKey]
    \/ "keysFile" \in Faults /\ UNCHANGED keyOf

\* Mutant: the key of a failed creation is not taken back.
CreateUndoForgotten(r) ==
    /\ At(r, "createUndo")
    /\ Reply(r, req[r].answer)
    /\ UNCHANGED <<stores, seen>>

CreateUndo(r) ==
    /\ At(r, "createUndo")
    /\ KeysRemove(req[r].bucket)
    /\ Reply(r, req[r].answer)
    /\ UNCHANGED <<buckets, objects, cipherCache, cached, channel, sealedWith,
                   nextMessage, nextKey, seen>>

-----------------------------------------------------------------------------
(* DeleteBucket *)

Empty(b) == \A k \in Key : objects[b][k] = NoMessage

\* Mutant: the bucket's objects are not counted.
DropRowUncounted(r) ==
    /\ At(r, "dropRow")
    /\ req[r].bucket \in buckets
    /\ buckets' = buckets \ {req[r].bucket}
    /\ Goto(r, "dropKey")
    /\ UNCHANGED <<objects, keyOf, cipherCache, cached, channel, sealedWith,
                   nextMessage, nextKey, seen>>

\* Meta.DeleteBucket: the count of the bucket's objects and the deletion of
\* its row are one transaction.
DropRow(r) ==
    LET b == req[r].bucket IN
    /\ At(r, "dropRow")
    /\ \/ /\ req[r].live /\ ~Empty(b)
          /\ Reply(r, "BucketNotEmpty")
          /\ UNCHANGED buckets
       \/ /\ req[r].live /\ Empty(b) /\ b \notin buckets
          /\ Reply(r, "NoSuchBucket")
          /\ UNCHANGED buckets
       \/ /\ req[r].live /\ Empty(b) /\ b \in buckets
          /\ buckets' = buckets \ {b}
          /\ Goto(r, "dropKey")
       \/ /\ CallFails(r, "database")
          /\ Reply(r, "error")
          /\ UNCHANGED buckets
    /\ UNCHANGED <<objects, keyOf, cipherCache, cached, channel, sealedWith,
                   nextMessage, nextKey, seen>>

DropKey(r) ==
    /\ At(r, "dropKey")
    /\ KeysRemove(req[r].bucket)
    /\ Goto(r, "dropCipher")
    /\ UNCHANGED <<buckets, objects, cipherCache, cached, channel, sealedWith,
                   nextMessage, nextKey, seen>>

\* Mutant: the cipher of a deleted bucket stays in the cache.
DropCipherForgotten(r) ==
    /\ At(r, "dropCipher")
    /\ Reply(r, "ok")
    /\ UNCHANGED <<stores, seen>>

DropCipher(r) ==
    /\ At(r, "dropCipher")
    /\ cipherCache' = [cipherCache EXCEPT ![req[r].bucket] = NoKey]
    /\ Reply(r, "ok")
    /\ UNCHANGED <<buckets, objects, keyOf, cached, channel, sealedWith,
                   nextMessage, nextKey, seen>>

-----------------------------------------------------------------------------
(* PutObject *)

\* Mutant: only the key of the bucket is looked for, not its row.
PutCheckSkipped(r) ==
    /\ At(r, "putCheck")
    /\ Goto(r, "putCipher")
    /\ UNCHANGED <<stores, seen>>

\* Meta.GetBucket.
PutCheck(r) ==
    /\ At(r, "putCheck")
    /\ \/ req[r].live /\ req[r].bucket \in buckets /\ Goto(r, "putCipher")
       \/ req[r].live /\ req[r].bucket \notin buckets /\ Reply(r, "NoSuchBucket")
       \/ CallFails(r, "database") /\ Reply(r, "error")
    /\ UNCHANGED <<stores, seen>>

\* cipherFor: the cached cipher, else one made of the bucket's key and cached.
CipherKey(b) == IF cipherCache[b] # NoKey THEN cipherCache[b] ELSE keyOf[b]

\* Mutant: a bucket without a key is not refused.
CipherForUnchecked(r, step) ==
    LET b == req[r].bucket IN
    /\ cipherCache' = [cipherCache EXCEPT ![b] = CipherKey(b)]
    /\ Become(r, [req[r] EXCEPT !.pc = step, !.cipher = CipherKey(b)])
    /\ UNCHANGED <<buckets, objects, keyOf, cached, channel, sealedWith,
                   nextMessage, nextKey, seen>>

CipherFor(r, step) ==
    LET b == req[r].bucket IN
    /\ cipherCache' = [cipherCache EXCEPT ![b] = CipherKey(b)]
    /\ IF CipherKey(b) = NoKey
       THEN Reply(r, "NoSuchBucket")
       ELSE Become(r, [req[r] EXCEPT !.pc = step, !.cipher = CipherKey(b)])
    /\ UNCHANGED <<buckets, objects, keyOf, cached, channel, sealedWith,
                   nextMessage, nextKey, seen>>

PutCipher(r) == At(r, "putCipher") /\ CipherFor(r, "upload")

\* The size ceiling is tested twice: by the handler, on the size of the body,
\* and before the upload, on the size of the ciphertext.
PutTooLarge(r) ==
    /\ At(r, "putCheck") \/ At(r, "upload")
    /\ Reply(r, "EntityTooLarge")
    /\ UNCHANGED <<stores, seen>>

\* Backend.Put sends the encrypted body as one message. A call that fails may
\* have sent it all the same (the answer was lost); its id is then unknown.
Upload(r) ==
    /\ At(r, "upload")
    /\ \/ /\ req[r].live /\ nextMessage \in Message
          /\ channel' = channel \cup {nextMessage}
          /\ sealedWith' = [sealedWith EXCEPT ![nextMessage] = req[r].cipher]
          /\ nextMessage' = nextMessage + 1
          /\ \/ Become(r, [req[r] EXCEPT !.pc = "commit", !.msg = nextMessage])
             \/ {"cancel", "telegram"} \cap Faults # {} /\ Reply(r, "error")
       \/ /\ CallFails(r, "telegram") \/ nextMessage \notin Message
          /\ Reply(r, "error")
          /\ UNCHANGED <<channel, sealedWith, nextMessage>>
    /\ UNCHANGED <<buckets, objects, keyOf, cipherCache, cached, nextKey, seen>>

\* Mutant: an overwrite also deletes the message of the version it replaces.
CommitReclaiming(r) ==
    LET old == objects[req[r].bucket][req[r].key] IN
    /\ At(r, "commit")
    /\ req[r].live
    /\ SetRow(req[r].bucket, req[r].key, req[r].msg)
    /\ channel' = channel \ {old}
    /\ Reply(r, "ok")
    /\ UNCHANGED <<buckets, keyOf, cipherCache, cached, sealedWith, nextMessage, nextKey>>

\* Meta.PutObject, an upsert: the acknowledgement follows the row. A statement
\* cancelled while it runs may have been applied.
Commit(r) ==
    /\ At(r, "commit")
    /\ \/ /\ req[r].live
          /\ SetRow(req[r].bucket, req[r].key, req[r].msg)
          /\ \/ Reply(r, "ok")
             \/ /\ "cancel" \in Faults
                /\ Become(r, [req[r] EXCEPT !.pc = "rollback", !.live = FALSE])
       \/ /\ CallFails(r, "database")
          /\ Goto(r, "rollback")
          /\ UNCHANGED <<objects, seen>>
    /\ UNCHANGED <<buckets, keyOf, cipherCache, cached, channel, sealedWith,
                   nextMessage, nextKey>>

\* Mutant: the message is deleted in a context of its own, which no
\* disconnecting client cancels.
BackendDeleteDetached(r) ==
    \/ channel' = channel \ {req[r].msg}
    \/ "telegram" \in Faults /\ UNCHANGED channel

\* Backend.Delete, whose error its callers ignore.
BackendDelete(r) ==
    \/ req[r].live /\ channel' = channel \ {req[r].msg}
    \/ CallFails(r, "telegram") /\ UNCHANGED channel

Rollback(r) ==
    /\ At(r, "rollback")
    /\ BackendDelete(r)
    /\ Reply(r, "error")
    /\ UNCHANGED <<buckets, objects, keyOf, cipherCache, cached, sealedWith,
                   nextMessage, nextKey, seen>>

-----------------------------------------------------------------------------
(* GetObject *)

\* Meta.GetObject.
GetRow(r) ==
    LET m == objects[req[r].bucket][req[r].key] IN
    /\ At(r, "getRow")
    /\ \/ /\ req[r].live /\ m # NoMessage
          /\ Become(r, [req[r] EXCEPT !.pc = "getCipher", !.msg = m])
       \/ req[r].live /\ m = NoMessage /\ Reply(r, "NoSuchKey")
       \/ CallFails(r, "database") /\ Reply(r, "error")
    /\ UNCHANGED <<stores, seen>>

GetCipher(r) == At(r, "getCipher") /\ CipherFor(r, "fetch")

\* openCiphertext and the decryption of what it returns: from the disk cache,
\* else from the channel, whose answer the cache may keep.
Fetch(r) ==
    LET m == req[r].msg
        decrypt == Reply(r, IF sealedWith[m] = req[r].cipher THEN "ok" ELSE "broken")
    IN
    /\ At(r, "fetch")
    /\ \/ m \in cached /\ decrypt /\ UNCHANGED cached
       \/ /\ m \notin cached /\ req[r].live /\ m \in channel
          /\ decrypt
          /\ cached' \in {cached} \cup (IF CacheEnabled THEN {cached \cup {m}} ELSE {})
       \/ /\ m \notin cached /\ req[r].live /\ m \notin channel
          /\ Reply(r, "NoSuchKey")
          /\ UNCHANGED cached
       \/ /\ m \notin cached /\ CallFails(r, "telegram")
          /\ Reply(r, "error")
          /\ UNCHANGED cached
    /\ UNCHANGED <<buckets, objects, keyOf, cipherCache, channel, sealedWith,
                   nextMessage, nextKey, seen>>

-----------------------------------------------------------------------------
(* DeleteObject *)

\* Meta.DeleteObject: the row is read and deleted in one transaction.
DeleteRow(r) ==
    LET b == req[r].bucket
        k == req[r].key
    IN
    /\ At(r, "deleteRow")
    /\ \/ /\ req[r].live /\ objects[b][k] # NoMessage
          /\ SetRow(b, k, NoMessage)
          /\ Become(r, [req[r] EXCEPT !.pc = "evict", !.msg = objects[b][k]])
       \/ /\ req[r].live /\ objects[b][k] = NoMessage
          /\ Reply(r, "ok")
          /\ UNCHANGED <<objects, seen>>
       \/ /\ CallFails(r, "database")
          /\ Reply(r, "error")
          /\ UNCHANGED <<objects, seen>>
    /\ UNCHANGED <<buckets, keyOf, cipherCache, cached, channel, sealedWith,
                   nextMessage, nextKey>>

Evict(r) ==
    /\ At(r, "evict")
    /\ cached' = cached \ {req[r].msg}
    /\ Goto(r, "deleteMessage")
    /\ UNCHANGED <<buckets, objects, keyOf, cipherCache, channel, sealedWith,
                   nextMessage, nextKey, seen>>

DeleteMessage(r) ==
    /\ At(r, "deleteMessage")
    /\ BackendDelete(r)
    /\ Reply(r, "ok")
    /\ UNCHANGED <<buckets, objects, keyOf, cipherCache, cached, sealedWith,
                   nextMessage, nextKey, seen>>

-----------------------------------------------------------------------------
(* The process and its surroundings *)

\* The disk cache drops entries to stay within its size.
LruEvict ==
    /\ \E m \in cached : cached' = cached \ {m}
    /\ UNCHANGED <<buckets, objects, keyOf, cipherCache, channel, sealedWith,
                   nextMessage, nextKey, req, seen>>

\* The process dies and serve starts again over the same files: requests and
\* the cipher cache are gone, SQLite, keys.toml and the disk cache stay.
Crash ==
    /\ "crash" \in Faults
    /\ \E r \in Request : InFlight(r)
    /\ req' = [r \in Request |-> Idle]
    /\ seen' = [r \in Request |-> {}]
    /\ cipherCache' = [b \in Bucket |-> NoKey]
    /\ UNCHANGED <<buckets, objects, keyOf, cached, channel, sealedWith,
                   nextMessage, nextKey>>

Init ==
    /\ buckets = {}
    /\ objects = [b \in Bucket |-> [k \in Key |-> NoMessage]]
    /\ keyOf = [b \in Bucket |-> NoKey]
    /\ cipherCache = [b \in Bucket |-> NoKey]
    /\ cached = {}
    /\ channel = {}
    /\ sealedWith = [m \in Message |-> NoKey]
    /\ nextMessage = 1
    /\ nextKey = 1
    /\ req = [r \in Request |-> Idle]
    /\ seen = [r \in Request |-> {}]

RequestStep(r) ==
    \/ CreateKey(r) \/ CreateRow(r) \/ CreateUndo(r)
    \/ DropRow(r) \/ DropKey(r) \/ DropCipher(r)
    \/ PutCheck(r) \/ PutCipher(r) \/ PutTooLarge(r) \/ Upload(r) \/ Commit(r) \/ Rollback(r)
    \/ GetRow(r) \/ GetCipher(r) \/ Fetch(r)
    \/ DeleteRow(r) \/ Evict(r) \/ DeleteMessage(r)

Next ==
    \/ \E r \in Request :
          \/ BeginBucketOp(r) \/ BeginObjectOp(r) \/ Finish(r) \/ Cancel(r)
          \/ RequestStep(r)
    \/ LruEvict
    \/ Crash

Spec == Init /\ [][Next]_vars
-----------------------------------------------------------------------------
(* Properties *)

\* Every variable keeps its type: in particular a handler that encrypts,
\* commits, fetches or deletes holds the cipher or the reference it needs.
TypeOK ==
    /\ buckets \subseteq Bucket
    /\ objects \in [Bucket -> [Key -> Message \cup {NoMessage}]]
    /\ keyOf \in [Bucket -> DataKey \cup {NoKey}]
    /\ cipherCache \in [Bucket -> DataKey \cup {NoKey}]
    /\ cached \subseteq Message
    /\ channel \subseteq Message
    /\ sealedWith \in [Message -> DataKey \cup {NoKey}]
    /\ nextMessage \in 1..(MaxMessages + 1)
    /\ nextKey \in 1..(MaxDataKeys + 1)
    /\ req \in [Request -> RequestState]
    /\ seen \in [Request -> SUBSET (Message \cup {NoMessage})]
    /\ \A r \in Request :
          /\ InFlight(r) => /\ req[r].op = OpOf(req[r].pc) /\ req[r].op \in Ops
                            /\ req[r].bucket \in Bucket
                            /\ req[r].op \in ObjectOp => req[r].key \in Key
          /\ req[r].pc \in {"upload", "commit", "fetch"} => req[r].cipher \in DataKey
          /\ req[r].pc \in {"commit", "rollback", "getCipher", "fetch", "evict", "deleteMessage"}
                => req[r].msg \in Message
          /\ req[r].pc \in {"createUndo", "replied"} => req[r].answer \in Answer

Answered(r, op, answer) ==
    req[r].pc = "replied" /\ req[r].op = op /\ req[r].answer = answer

\* The message of every object row is in the channel, whatever uploads,
\* overwrites, deletions and rollbacks overlap, fail or are cut short: a
\* message is deleted only when no row refers to it and none ever will.
\* (PutObject commits its row last, DeleteObject deletes its row first, and a
\* rollback whose row may have been applied has no context left to delete with.)
NoDanglingRow ==
    \A b \in Bucket, k \in Key : objects[b][k] # NoMessage => objects[b][k] \in channel

\* What a GET answers was true of the object at a moment of the request: the
\* bytes are those of a row the object had meanwhile, and NoSuchKey, even when
\* it comes from the backend after the row was found, means that the object was
\* meanwhile absent.
GetAnswersTruly ==
    \A r \in Request :
        /\ Answered(r, "getObject", "ok") => req[r].msg \in seen[r]
        /\ Answered(r, "getObject", "NoSuchKey") => NoMessage \in seen[r]

\* Every stored object can be read back: its bucket exists and its content was
\* encrypted under the key that keys.toml holds for the bucket. It needs
\* clients that leave a bucket alone while they create or delete it.
RowsReadable ==
    \A b \in Bucket, k \in Key :
        objects[b][k] # NoMessage =>
            /\ b \in buckets
            /\ keyOf[b] # NoKey
            /\ sealedWith[objects[b][k]] = keyOf[b]

\* The cipher cache never outlives its key: apart from a bucket that is being
\* created or deleted, what cipherFor hands out is the key of keys.toml.
CipherCoherent ==
    \A b \in Bucket :
        \/ cipherCache[b] \in {NoKey, keyOf[b]}
        \/ \E r \in Request : InFlight(r) /\ req[r].op \in BucketOp /\ req[r].bucket = b

\* No GET is cut short by a frame that does not authenticate (decrypter.nextFrame).
NoBrokenRead == \A r \in Request : ~Answered(r, "getObject", "broken")

\* A bucket has a key exactly when it has a row, once no request is between the
\* two steps that add or remove both: concurrent creations and deletions of one
\* bucket never leave half of it behind, as long as keys.toml can be written and
\* no request is cut short.
KeysMatchBuckets ==
    \A b \in Bucket :
        \/ keyOf[b] # NoKey <=> b \in buckets
        \/ \E r \in Request : /\ req[r].pc \in {"createRow", "createUndo", "dropKey"}
                              /\ req[r].bucket = b

\* service.go:43-45 says of the service that "It enforces invariants (bucket
\* exists, ...)": the bucket of every object exists.
ObjectsHaveBucket ==
    \A b \in Bucket, k \in Key : objects[b][k] # NoMessage => b \in buckets
=============================================================================

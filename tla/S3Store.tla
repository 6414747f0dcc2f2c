------------------------------ MODULE S3Store ------------------------------
(***************************************************************************)
(* What the object store promises its clients: buckets and objects that    *)
(* change in one indivisible step per successful request, between its      *)
(* arrival and its answer.                                                 *)
(*   - A PUT, a deletion, a creation answered "ok" took effect exactly     *)
(*     once; one answered "error" took effect at most once.                *)
(*   - A GET answers with the content of a version the object had during   *)
(*     the request, or NoSuchKey if the object was absent meanwhile.       *)
(*   - Nothing else changes an object, and a version, once stored, is      *)
(*     there until its object is overwritten or deleted.                   *)
(*   - When the process dies the requests in flight are forgotten; what    *)
(*     was stored stays.                                                   *)
(***************************************************************************)
CONSTANTS Bucket, Key, Request, Version, NoVersion, None

VARIABLES exists,  \* the buckets there are
          store,   \* store[b][k]: the version of each object
          call,    \* the request each client has in progress
          seen     \* the versions a GET's object has had since the request began

storeVars == <<exists, store, call, seen>>

Phase == {"idle", "open", "done", "failing", "replied"}

NoCall == [phase |-> "idle", op |-> None, bucket |-> None, key |-> None,
           version |-> NoVersion, answer |-> None]

Init ==
    /\ exists = {}
    /\ store = [b \in Bucket |-> [k \in Key |-> NoVersion]]
    /\ call = [r \in Request |-> NoCall]
    /\ seen = [r \in Request |-> {}]

Open(r, op) == call[r].phase = "open" /\ call[r].op = op
Enter(r, phase) == call' = [call EXCEPT ![r] = [@ EXCEPT !.phase = phase]]
Answer(r, answer) ==
    call' = [call EXCEPT ![r] = [@ EXCEPT !.phase = "replied", !.answer = answer]]

SetVersion(b, k, v) ==
    /\ store' = [store EXCEPT ![b] = [@ EXCEPT ![k] = v]]
    /\ seen' = [r \in Request |->
                  IF Open(r, "getObject") /\ call[r].bucket = b /\ call[r].key = k
                  THEN seen[r] \cup {v} ELSE seen[r]]

Call(r) ==
    /\ call[r].phase = "idle"
    /\ UNCHANGED <<exists, store>>
    /\ \/ \E op \in {"createBucket", "deleteBucket"}, b \in Bucket :
            /\ call' = [call EXCEPT ![r] =
                          [NoCall EXCEPT !.phase = "open", !.op = op, !.bucket = b]]
            /\ UNCHANGED seen
       \/ \E op \in {"putObject", "getObject", "deleteObject"}, b \in Bucket, k \in Key :
            /\ call' = [call EXCEPT ![r] = [NoCall EXCEPT
                          !.phase = "open", !.op = op, !.bucket = b, !.key = k]]
            /\ seen' = [seen EXCEPT ![r] = IF op = "getObject" THEN {store[b][k]} ELSE {}]

\* The bucket comes into being; an answer other than "ok" is one the client
\* cannot tell from a creation that failed.
MakeBucket(r) ==
    /\ Open(r, "createBucket")
    /\ exists' = exists \cup {call[r].bucket}
    /\ \E answer \in {"ok", "error", "BucketAlreadyOwnedByYou"} : Answer(r, answer)
    /\ UNCHANGED <<store, seen>>

RemoveBucket(r) ==
    /\ Open(r, "deleteBucket")
    /\ \A k \in Key : store[call[r].bucket][k] = NoVersion
    /\ exists' = exists \ {call[r].bucket}
    /\ Enter(r, "done")
    /\ UNCHANGED <<store, seen>>

\* A version is stored once: no two objects share it.
WriteObject(r, v) ==
    /\ Open(r, "putObject")
    /\ call[r].bucket \in exists
    /\ \A b \in Bucket, k \in Key : store[b][k] # v
    /\ SetVersion(call[r].bucket, call[r].key, v)
    /\ Answer(r, "ok") \/ Enter(r, "failing")
    /\ UNCHANGED exists

EraseObject(r) ==
    /\ Open(r, "deleteObject")
    /\ store[call[r].bucket][call[r].key] # NoVersion
    /\ SetVersion(call[r].bucket, call[r].key, NoVersion)
    /\ Enter(r, "done")
    /\ UNCHANGED exists

\* A request that has taken no effect gives up.
GiveUp(r) ==
    /\ call[r].phase = "open"
    /\ Enter(r, "failing")
    /\ UNCHANGED <<exists, store, seen>>

AnswerError(r) ==
    /\ call[r].phase \in {"open", "failing"}
    /\ Answer(r, "error")
    /\ UNCHANGED <<exists, store, seen>>

AnswerRead(r) ==
    /\ Open(r, "getObject")
    /\ \E v \in seen[r] \ {NoVersion} :
          call' = [call EXCEPT ![r] =
                     [@ EXCEPT !.phase = "replied", !.answer = "ok", !.version = v]]
    /\ UNCHANGED <<exists, store, seen>>

AnswerDone(r) ==
    /\ \/ call[r].phase = "done"
       \/ Open(r, "deleteObject") /\ store[call[r].bucket][call[r].key] = NoVersion
    /\ Answer(r, "ok")
    /\ UNCHANGED <<exists, store, seen>>

\* A refusal is justified by what the store holds, or for a GET by what it held
\* during the request. That a creation is told "already owned" without any
\* bucket being there is not excluded here: it can happen.
Refuse(r) ==
    LET b == call[r].bucket IN
    /\ \/ Open(r, "createBucket") /\ Answer(r, "BucketAlreadyOwnedByYou")
       \/ /\ Open(r, "deleteBucket") \/ Open(r, "putObject")
          /\ b \notin exists /\ Answer(r, "NoSuchBucket")
       \/ /\ Open(r, "deleteBucket") /\ \E k \in Key : store[b][k] # NoVersion
          /\ Answer(r, "BucketNotEmpty")
       \/ Open(r, "putObject") /\ Answer(r, "EntityTooLarge")
       \/ Open(r, "getObject") /\ NoVersion \in seen[r] /\ Answer(r, "NoSuchKey")
    /\ UNCHANGED <<exists, store, seen>>

Return(r) ==
    /\ call[r].phase = "replied"
    /\ call' = [call EXCEPT ![r] = NoCall]
    /\ seen' = [seen EXCEPT ![r] = {}]
    /\ UNCHANGED <<exists, store>>

\* The process dies. A creation of a bucket cut short may have taken effect.
Forget ==
    /\ exists' \in {exists \cup made : made \in
                      SUBSET {call[r].bucket : r \in {s \in Request : Open(s, "createBucket")}}}
    /\ call' = [r \in Request |-> NoCall]
    /\ seen' = [r \in Request |-> {}]
    /\ UNCHANGED store

Next ==
    \/ \E r \in Request :
          \/ Call(r) \/ MakeBucket(r) \/ RemoveBucket(r)
          \/ (\E v \in Version : WriteObject(r, v)) \/ EraseObject(r)
          \/ GiveUp(r) \/ AnswerError(r) \/ AnswerRead(r) \/ AnswerDone(r) \/ Refuse(r)
          \/ Return(r)
    \/ Forget

Spec == Init /\ [][Next]_storeVars
=============================================================================

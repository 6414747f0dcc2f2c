---------------------- MODULE ObjectServiceRefinement ----------------------
(***************************************************************************)
(* The object service seen as an S3Store. A version is the message that    *)
(* holds its content. An object whose message is gone, or encrypted under  *)
(* another key than its bucket's, maps to a value that is no version: the  *)
(* abstract store has no step that loses content.                          *)
(***************************************************************************)
EXTENDS ObjectService

Unreadable == MaxMessages + 1

\* A bucket exists for clients once it has a row and a key and is no longer
\* being created.
Existing ==
    {b \in buckets : /\ keyOf[b] # NoKey
                     /\ \A r \in Request : req[r].pc \in {"createRow", "createUndo"}
                                              => req[r].bucket # b}

VersionOf(b, k) ==
    LET m == objects[b][k] IN
    CASE m = NoMessage -> NoMessage
      [] m # NoMessage /\ m \in channel /\ sealedWith[m] = keyOf[b] -> m
      [] OTHER -> Unreadable

PhaseOf(r) ==
    CASE req[r].pc \in {"idle", "replied"} -> req[r].pc
      [] req[r].pc \in {"dropKey", "dropCipher", "evict", "deleteMessage"} -> "done"
      [] req[r].pc = "rollback" -> "failing"
      [] OTHER -> "open"

CallOf(r) ==
    [phase |-> PhaseOf(r), op |-> req[r].op, bucket |-> req[r].bucket, key |-> req[r].key,
     version |-> IF Answered(r, "getObject", "ok") THEN req[r].msg ELSE NoMessage,
     answer |-> IF req[r].pc = "replied" THEN req[r].answer ELSE None]

Promise == INSTANCE S3Store WITH
    Version <- Message, NoVersion <- NoMessage,
    exists <- Existing,
    store <- [b \in Bucket |-> [k \in Key |-> VersionOf(b, k)]],
    call <- [r \in Request |-> CallOf(r)],
    seen <- seen

\* Seen by its clients, service.go keeps the promises of S3Store across every
\* interleaving, failure, cancellation and restart, as long as clients leave a
\* bucket alone while they create or delete it.
KeepsPromise == Promise!Spec
=============================================================================

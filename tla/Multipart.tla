----------------------------- MODULE Multipart -----------------------------
(***************************************************************************)
(* Multipart uploads: internal/s3api/multipart.go over the tables          *)
(* multipart_uploads and multipart_parts, a staging directory per upload   *)
(* and the channel.                                                        *)
(*                                                                         *)
(* Every request is a goroutine; nothing locks an upload. An atomic step   *)
(* is a metadata call (one statement or one transaction), a system call on *)
(* the staging directory, or a backend call. os.RemoveAll is two steps:    *)
(* it removes the files it lists, then the directory if that is empty.     *)
(*                                                                         *)
(* A body is a sequence of blocks, and stands for its own MD5: an ETag is  *)
(* the body it was computed from. What the bytes are sealed under, and who *)
(* else writes objects, is the matter of ObjectService; here the bucket    *)
(* may be gone whenever it is looked for.                                  *)
(***************************************************************************)
EXTENDS Naturals, Sequences, FiniteSets, Functions

CONSTANTS
    Request,         \* handler goroutines that may run at the same time
    Key,             \* object keys of the one bucket
    MaxPart,         \* part numbers are 1..MaxPart (maxParts = 10000)
    Block,           \* what bodies are made of
    Bodies,          \* Bodies[p]: the bodies clients send as part p
    CarefulClients,  \* TRUE: clients overlap no request with one that it could
                     \* disturb, and list a part with the ETag of its last upload
    Faults,          \* what may go wrong, a subset of Fault
    MaxUploads,      \* bound: uploads ever created
    MaxMessages      \* bound: messages ever sent to the channel

\* cancel, telegram, database, crash: as in ObjectService. disk: a file cannot
\* be made, renamed or opened; removal: os.RemoveAll fails, which is ignored;
\* bucketGone: the bucket is deleted by another request.
Fault == {"cancel", "telegram", "database", "disk", "removal", "bucketGone", "crash"}

Part == 1..MaxPart
Upload == 1..MaxUploads
Message == 1..MaxMessages
NoMessage == 0
None == "none"
Nothing == <<>>  \* the function with no element

ASSUME KeyAssumption == None \notin Key
ASSUME PartAssumption == MaxPart \in Nat /\ Bodies \in [Part -> SUBSET Seq(Block)]
ASSUME ClientsAssumption == CarefulClients \in BOOLEAN /\ Faults \subseteq Fault
ASSUME BoundAssumption == MaxUploads \in Nat /\ MaxMessages \in Nat

VARIABLES
    uploads,      \* table multipart_uploads: the key of each upload, or None
    parts,        \* table multipart_parts: parts[u] maps part numbers to rows, a row
                  \* (size and ETag) being the body it was made for
    dirs,         \* uploads whose staging directory exists
    files,        \* files[u] maps part numbers to the content of their file
    temps,        \* temps[u]: who owns a temporary file in the directory
    objects,      \* table objects: the message of each key
    channel,      \* messages now in the channel
    content,      \* what each message holds
    nextUpload,   \* next upload id (random in the code, and as unique)
    nextMessage,  \* next message id
    req,          \* the request each goroutine is serving
    status,       \* history: how far the clients know an upload to be
    acked         \* history: the parts whose last upload was answered, by ETag

staging == <<uploads, parts, dirs, files, temps, nextUpload>>
stored == <<objects, channel, content, nextMessage>>
vars == <<staging, stored, req, status, acked>>

-----------------------------------------------------------------------------
(* Requests *)

CreateStep == {"createCheck", "makeDir", "insertUpload", "dropDir"}
PartStep == {"partRow", "createTemp", "receive", "rename", "upsert"}
CompleteStep == {"completeRow", "listParts", "openPart", "store", "commit", "rollback"}
AbortStep == {"abortRow"}
CloseStep == {"removeFiles", "removeDir", "deleteUpload"}
Step == CreateStep \cup PartStep \cup CompleteStep \cup AbortStep \cup CloseStep

Answer == {"ok", "error", "NoSuchBucket", "NoSuchUpload", "InvalidArgument",
           "InvalidPart", "EntityTooLarge"}

\* Bodies of some of the parts.
SomeParts ==
    UNION {{f \in [ps -> UNION {Bodies[p] : p \in ps}] : \A p \in ps : f[p] \in Bodies[p]} :
              ps \in SUBSET Part}

\* part and body: of an UploadPart. want: the parts a Complete lists, by ETag
\* (strictly ascending numbers, or the handler refuses the request), listed:
\* those whose rows have that ETag, todo: the parts whose files it has still to
\* open, stream and total: the bytes of the open files and the sum of the sizes.
RequestState ==
    [pc : Step \cup {"idle", "replied"},
     op : {"create", "uploadPart", "complete", "abort", None},
     upload : Upload \cup {0}, key : Key \cup {None}, part : Part \cup {0},
     body : Seq(Block), want : SomeParts, listed : SUBSET Part, todo : SUBSET Part,
     stream : Seq(Block), total : Nat, msg : Message \cup {NoMessage},
     live : BOOLEAN, answer : Answer \cup {None}]

Idle == [pc |-> "idle", op |-> None, upload |-> 0, key |-> None, part |-> 0,
         body |-> <<>>, want |-> Nothing, listed |-> {}, todo |-> {},
         stream |-> <<>>, total |-> 0, msg |-> NoMessage, live |-> TRUE, answer |-> None]

InFlight(r) == req[r].pc \in Step
At(r, step) == req[r].pc = step

Become(r, state) == req' = [req EXCEPT ![r] = state]
Goto(r, step) == Become(r, [req[r] EXCEPT !.pc = step])
Reply(r, answer) ==
    Become(r, [Idle EXCEPT !.pc = "replied", !.op = req[r].op, !.upload = req[r].upload,
                           !.key = req[r].key, !.want = req[r].want, !.msg = req[r].msg,
                           !.answer = answer])

CallFails(r, fault) == ~req[r].live \/ fault \in Faults

\* A request of a client that waits for its answer.
Awaited(s, u) == InFlight(s) /\ req[s].live /\ req[s].upload = u

MayUpload(u, p) ==
    CarefulClients =>
        \A s \in Request : Awaited(s, u) => req[s].op = "uploadPart" /\ req[s].part # p

MayComplete(u, want) ==
    CarefulClients => /\ \A s \in Request : ~Awaited(s, u)
                      /\ DOMAIN want \subseteq DOMAIN acked[u]
                      /\ \A p \in DOMAIN want : want[p] = acked[u][p]

MayAbort(u) == CarefulClients => \A s \in Request : ~Awaited(s, u)

Begin(r, state) == At(r, "idle") /\ Become(r, state)

BeginCreate(r) ==
    /\ \E k \in Key : Begin(r, [Idle EXCEPT !.pc = "createCheck", !.op = "create", !.key = k])
    /\ UNCHANGED <<staging, stored, status, acked>>

BeginUploadPart(r) ==
    \E u \in Upload, p \in Part : \E body \in Bodies[p] :
        /\ status[u] # "unknown" /\ MayUpload(u, p)
        /\ Begin(r, [Idle EXCEPT !.pc = "partRow", !.op = "uploadPart", !.upload = u,
                                 !.part = p, !.body = body])
        /\ acked' = [acked EXCEPT ![u] = Restrict(@, DOMAIN @ \ {p})]
        /\ UNCHANGED <<staging, stored, status>>

BeginComplete(r) ==
    \E u \in Upload, k \in Key, want \in SomeParts :
        /\ status[u] # "unknown" /\ MayComplete(u, want)
        /\ Begin(r, [Idle EXCEPT !.pc = "completeRow", !.op = "complete", !.upload = u,
                                 !.key = k, !.want = want])
        /\ UNCHANGED <<staging, stored, status, acked>>

BeginAbort(r) ==
    \E u \in Upload :
        /\ status[u] # "unknown" /\ MayAbort(u)
        /\ Begin(r, [Idle EXCEPT !.pc = "abortRow", !.op = "abort", !.upload = u])
        /\ UNCHANGED <<staging, stored, status, acked>>

Finish(r) ==
    /\ At(r, "replied")
    /\ Become(r, Idle)
    /\ UNCHANGED <<staging, stored, status, acked>>

Cancel(r) ==
    /\ "cancel" \in Faults
    /\ InFlight(r) /\ req[r].live
    /\ Become(r, [req[r] EXCEPT !.live = FALSE])
    /\ UNCHANGED <<staging, stored, status, acked>>

-----------------------------------------------------------------------------
(* CreateMultipartUpload *)

\* GetBucket, by the handler, for which every error is NoSuchBucket, and again
\* by the service.
CreateCheck(r) ==
    /\ At(r, "createCheck")
    /\ \/ req[r].live /\ Goto(r, "makeDir")
       \/ "bucketGone" \in Faults /\ Reply(r, "NoSuchBucket")
       \/ CallFails(r, "database") /\ \E a \in {"NoSuchBucket", "error"} : Reply(r, a)
    /\ UNCHANGED <<staging, stored, status, acked>>

MakeDir(r) ==
    /\ At(r, "makeDir")
    /\ \/ /\ nextUpload \in Upload
          /\ dirs' = dirs \cup {nextUpload}
          /\ nextUpload' = nextUpload + 1
          /\ Become(r, [req[r] EXCEPT !.pc = "insertUpload", !.upload = nextUpload])
       \/ /\ "disk" \in Faults \/ nextUpload \notin Upload
          /\ Reply(r, "error")
          /\ UNCHANGED <<dirs, nextUpload>>
    /\ UNCHANGED <<uploads, parts, files, temps, stored, status, acked>>

\* Meta.CreateMultipart. A statement that is cancelled while it runs may have
\* been applied and yet be reported as failed, here and below.
InsertUpload(r) ==
    LET u == req[r].upload IN
    /\ At(r, "insertUpload")
    /\ \/ /\ req[r].live
          /\ uploads' = [uploads EXCEPT ![u] = req[r].key]
          /\ \/ Reply(r, "ok") /\ status' = [status EXCEPT ![u] = "open"]
             \/ "cancel" \in Faults /\ Goto(r, "dropDir") /\ UNCHANGED status
       \/ /\ CallFails(r, "database")
          /\ Goto(r, "dropDir")
          /\ UNCHANGED <<uploads, status>>
    /\ UNCHANGED <<parts, dirs, files, temps, nextUpload, stored, acked>>

DropDir(r) ==
    /\ At(r, "dropDir")
    /\ \/ dirs' = dirs \ {req[r].upload}
       \/ "removal" \in Faults /\ UNCHANGED dirs
    /\ Reply(r, "error")
    /\ UNCHANGED <<uploads, parts, files, temps, nextUpload, stored, status, acked>>

-----------------------------------------------------------------------------
(* UploadPart *)

\* Meta.GetMultipart, and the ceiling on the size of a part.
PartRow(r) ==
    /\ At(r, "partRow")
    /\ \/ req[r].live /\ uploads[req[r].upload] # None /\ Goto(r, "createTemp")
       \/ req[r].live /\ uploads[req[r].upload] = None /\ Reply(r, "NoSuchUpload")
       \/ Reply(r, "EntityTooLarge")
       \/ CallFails(r, "database") /\ Reply(r, "error")
    /\ UNCHANGED <<staging, stored, status, acked>>

CreateTemp(r) ==
    LET u == req[r].upload IN
    /\ At(r, "createTemp")
    /\ \/ /\ u \in dirs
          /\ temps' = [temps EXCEPT ![u] = @ \cup {r}]
          /\ Goto(r, "receive")
       \/ /\ u \notin dirs \/ "disk" \in Faults
          /\ Reply(r, "error")
          /\ UNCHANGED temps
    /\ UNCHANGED <<uploads, parts, dirs, files, nextUpload, stored, status, acked>>

DropTemp(r) == temps' = [temps EXCEPT ![req[r].upload] = @ \ {r}]

\* Part p gets a body, in place of the one it may have had.
WithPart(f, p, body) == [q \in DOMAIN f \cup {p} |-> IF q = p THEN body ELSE f[q]]

\* Mutant: the body is written over the file of the part itself.
ReceiveInPlace(r) ==
    LET u == req[r].upload
        p == req[r].part
        old == IF p \in DOMAIN files[u] THEN files[u][p] ELSE <<>>
    IN
    /\ At(r, "receive")
    /\ \E n \in 0..Len(req[r].body) :
          /\ files' = [files EXCEPT ![u] =
                          WithPart(@, p, SubSeq(req[r].body, 1, n)
                                             \o SubSeq(old, n + 1, Len(old)))]
          /\ IF n = Len(req[r].body) THEN Goto(r, "rename") ELSE Reply(r, "error")
    /\ UNCHANGED <<uploads, parts, dirs, temps, nextUpload, stored, status, acked>>

\* The body is copied to the temporary file, and the file synced and closed; a
\* short body or a full disk removes it.
Receive(r) ==
    /\ At(r, "receive")
    /\ \/ Goto(r, "rename") /\ UNCHANGED temps
       \/ /\ DropTemp(r)
          /\ \E a \in {"InvalidArgument", "error"} : Reply(r, a)
    /\ UNCHANGED <<uploads, parts, dirs, files, nextUpload, stored, status, acked>>

\* The rename fails when the temporary file has been removed meanwhile.
Rename(r) ==
    LET u == req[r].upload IN
    /\ At(r, "rename")
    /\ DropTemp(r)
    /\ \/ /\ r \in temps[u]
          /\ files' = [files EXCEPT ![u] = WithPart(@, req[r].part, req[r].body)]
          /\ Goto(r, "upsert")
       \/ /\ r \notin temps[u] \/ "disk" \in Faults
          /\ Reply(r, "error")
          /\ UNCHANGED files
    /\ UNCHANGED <<uploads, parts, dirs, nextUpload, stored, status, acked>>

\* Meta.UpsertPart, whether or not the upload still has a row.
Upsert(r) ==
    LET u == req[r].upload
        p == req[r].part
    IN
    /\ At(r, "upsert")
    /\ \/ /\ req[r].live
          /\ parts' = [parts EXCEPT ![u] = WithPart(@, p, req[r].body)]
          /\ \/ Reply(r, "ok") /\ acked' = [acked EXCEPT ![u] = WithPart(@, p, req[r].body)]
             \/ "cancel" \in Faults /\ Reply(r, "error") /\ UNCHANGED acked
       \/ /\ CallFails(r, "database")
          /\ Reply(r, "error")
          /\ UNCHANGED <<parts, acked>>
    /\ UNCHANGED <<uploads, dirs, files, temps, nextUpload, stored, status>>

-----------------------------------------------------------------------------
(* CompleteMultipartUpload *)

\* Meta.GetMultipart; an upload of another key is as unknown as one that is gone.
CompleteRow(r) ==
    /\ At(r, "completeRow")
    /\ \/ req[r].live /\ uploads[req[r].upload] = req[r].key /\ Goto(r, "listParts")
       \/ req[r].live /\ uploads[req[r].upload] # req[r].key /\ Reply(r, "NoSuchUpload")
       \/ CallFails(r, "database") /\ Reply(r, "error")
    /\ UNCHANGED <<staging, stored, status, acked>>

Opening(todo) == IF todo = {} THEN "store" ELSE "openPart"

\* Meta.ListParts: the rows are read once.
ListParts(r) ==
    LET want == req[r].want
        rows == parts[req[r].upload]
    IN
    /\ At(r, "listParts")
    /\ \/ /\ req[r].live
          /\ Become(r, [req[r] EXCEPT
                          !.pc = Opening(DOMAIN want), !.todo = DOMAIN want,
                          !.listed = {p \in DOMAIN want \cap DOMAIN rows : rows[p] = want[p]}])
       \/ CallFails(r, "database") /\ Reply(r, "error")
    /\ UNCHANGED <<staging, stored, status, acked>>

\* Mutant: the files are appended as they come, not by part number.
OpenPartUnordered(r) ==
    LET u == req[r].upload IN
    /\ At(r, "openPart")
    /\ \E p \in req[r].todo \cap req[r].listed \cap DOMAIN files[u] :
          LET todo == req[r].todo \ {p} IN
          Become(r, [req[r] EXCEPT !.pc = Opening(todo), !.todo = todo,
                                   !.stream = @ \o files[u][p],
                                   !.total = @ + Len(req[r].want[p])])
    /\ UNCHANGED <<staging, stored, status, acked>>

\* The next part: its ETag against its row, then its file. An open file keeps
\* its content when another is renamed over it or its directory is removed.
OpenPart(r) ==
    LET u == req[r].upload
        p == CHOOSE q \in req[r].todo : \A o \in req[r].todo : q <= o
        todo == req[r].todo \ {p}
    IN
    /\ At(r, "openPart")
    /\ \/ p \notin req[r].listed /\ Reply(r, "InvalidPart")
       \/ /\ p \in req[r].listed /\ p \in DOMAIN files[u]
          /\ Become(r, [req[r] EXCEPT !.pc = Opening(todo), !.todo = todo,
                                      !.stream = @ \o files[u][p],
                                      !.total = @ + Len(req[r].want[p])])
       \/ /\ p \in req[r].listed /\ (p \notin DOMAIN files[u] \/ "disk" \in Faults)
          /\ Reply(r, "error")
    /\ UNCHANGED <<staging, stored, status, acked>>

\* cipherFor, the ceiling, and Backend.Put of the total number of bytes: a
\* stream that is shorter fails (io.ErrUnexpectedEOF), one that is longer is
\* cut. A call that fails may have sent the message all the same.
Store(r) ==
    LET bytes == SubSeq(req[r].stream, 1, req[r].total) IN
    /\ At(r, "store")
    /\ \/ /\ req[r].live /\ nextMessage \in Message
          /\ Len(req[r].stream) >= req[r].total
          /\ channel' = channel \cup {nextMessage}
          /\ content' = [content EXCEPT ![nextMessage] = bytes]
          /\ nextMessage' = nextMessage + 1
          /\ \/ Become(r, [req[r] EXCEPT !.pc = "commit", !.msg = nextMessage])
             \/ {"cancel", "telegram"} \cap Faults # {} /\ Reply(r, "error")
       \/ /\ \/ CallFails(r, "telegram") \/ nextMessage \notin Message
             \/ Len(req[r].stream) < req[r].total
          /\ Reply(r, "error")
          /\ UNCHANGED <<channel, content, nextMessage>>
       \/ /\ "bucketGone" \in Faults /\ Reply(r, "NoSuchBucket")
          /\ UNCHANGED <<channel, content, nextMessage>>
       \/ /\ Reply(r, "EntityTooLarge")
          /\ UNCHANGED <<channel, content, nextMessage>>
    /\ UNCHANGED <<staging, objects, status, acked>>

\* Meta.PutObject.
Commit(r) ==
    /\ At(r, "commit")
    /\ \/ /\ req[r].live
          /\ objects' = [objects EXCEPT ![req[r].key] = req[r].msg]
          /\ \/ Goto(r, "removeFiles")
             \/ /\ "cancel" \in Faults
                /\ Become(r, [req[r] EXCEPT !.pc = "rollback", !.live = FALSE])
       \/ /\ CallFails(r, "database")
          /\ Goto(r, "rollback")
          /\ UNCHANGED objects
    /\ UNCHANGED <<staging, channel, content, nextMessage, status, acked>>

Rollback(r) ==
    /\ At(r, "rollback")
    /\ \/ req[r].live /\ channel' = channel \ {req[r].msg}
       \/ CallFails(r, "telegram") /\ UNCHANGED channel
    /\ Reply(r, "error")
    /\ UNCHANGED <<staging, objects, content, nextMessage, status, acked>>

-----------------------------------------------------------------------------
(* AbortMultipartUpload, and how both end *)

AbortRow(r) ==
    /\ At(r, "abortRow")
    /\ \/ req[r].live /\ uploads[req[r].upload] # None /\ Goto(r, "removeFiles")
       \/ req[r].live /\ uploads[req[r].upload] = None /\ Reply(r, "NoSuchUpload")
       \/ CallFails(r, "database") /\ Reply(r, "error")
    /\ UNCHANGED <<staging, stored, status, acked>>

\* Mutant: only the files of parts are removed.
RemoveFilesOfParts(r) ==
    /\ At(r, "removeFiles")
    /\ files' = [files EXCEPT ![req[r].upload] = Nothing]
    /\ Goto(r, "removeDir")
    /\ UNCHANGED <<uploads, parts, dirs, temps, nextUpload, stored, status, acked>>

\* os.RemoveAll, whose error is ignored.
RemoveFiles(r) ==
    LET u == req[r].upload IN
    /\ At(r, "removeFiles")
    /\ \/ files' = [files EXCEPT ![u] = Nothing] /\ temps' = [temps EXCEPT ![u] = {}]
       \/ "removal" \in Faults /\ UNCHANGED <<files, temps>>
    /\ Goto(r, "removeDir")
    /\ UNCHANGED <<uploads, parts, dirs, nextUpload, stored, status, acked>>

RemoveDir(r) ==
    LET u == req[r].upload IN
    /\ At(r, "removeDir")
    /\ \/ files[u] = Nothing /\ temps[u] = {} /\ dirs' = dirs \ {u}
       \/ /\ files[u] # Nothing \/ temps[u] # {} \/ "removal" \in Faults
          /\ UNCHANGED dirs
    /\ Goto(r, "deleteUpload")
    /\ UNCHANGED <<uploads, parts, files, temps, nextUpload, stored, status, acked>>

Closed == [complete |-> "completed", abort |-> "aborted"]

\* Meta.DeleteMultipart, one transaction that is rolled back when the upload has
\* no row. A Complete ignores its error, an Abort answers with it.
DeleteUpload(r) ==
    LET u == req[r].upload
        op == req[r].op
    IN
    /\ At(r, "deleteUpload")
    /\ \/ /\ req[r].live /\ uploads[u] # None
          /\ uploads' = [uploads EXCEPT ![u] = None]
          /\ parts' = [parts EXCEPT ![u] = Nothing]
          /\ Reply(r, "ok") /\ status' = [status EXCEPT ![u] = Closed[op]]
       \/ /\ (req[r].live /\ uploads[u] = None) \/ CallFails(r, "database")
          /\ \/ op = "complete" /\ Reply(r, "ok") /\ status' = [status EXCEPT ![u] = Closed[op]]
             \/ op = "abort" /\ Reply(r, "error") /\ UNCHANGED status
          /\ UNCHANGED <<uploads, parts>>
    /\ UNCHANGED <<dirs, files, temps, nextUpload, stored, acked>>

-----------------------------------------------------------------------------
\* The process dies and serve starts again over the same files. Nothing looks
\* through the staging directory at start.
Crash ==
    /\ "crash" \in Faults
    /\ \E r \in Request : InFlight(r)
    /\ req' = [r \in Request |-> Idle]
    /\ temps' = [u \in Upload |-> IF temps[u] = {} THEN {} ELSE {None}]
    /\ UNCHANGED <<uploads, parts, dirs, files, nextUpload, stored, status, acked>>

Init ==
    /\ uploads = [u \in Upload |-> None]
    /\ parts = [u \in Upload |-> Nothing]
    /\ dirs = {}
    /\ files = [u \in Upload |-> Nothing]
    /\ temps = [u \in Upload |-> {}]
    /\ objects = [k \in Key |-> NoMessage]
    /\ channel = {}
    /\ content = [m \in Message |-> <<>>]
    /\ nextUpload = 1
    /\ nextMessage = 1
    /\ req = [r \in Request |-> Idle]
    /\ status = [u \in Upload |-> "unknown"]
    /\ acked = [u \in Upload |-> Nothing]

RequestStep(r) ==
    \/ CreateCheck(r) \/ MakeDir(r) \/ InsertUpload(r) \/ DropDir(r)
    \/ PartRow(r) \/ CreateTemp(r) \/ Receive(r) \/ Rename(r) \/ Upsert(r)
    \/ CompleteRow(r) \/ ListParts(r) \/ OpenPart(r) \/ Store(r) \/ Commit(r) \/ Rollback(r)
    \/ AbortRow(r) \/ RemoveFiles(r) \/ RemoveDir(r) \/ DeleteUpload(r)

Next ==
    \/ \E r \in Request :
          \/ BeginCreate(r) \/ BeginUploadPart(r) \/ BeginComplete(r) \/ BeginAbort(r)
          \/ Finish(r) \/ Cancel(r) \/ RequestStep(r)
    \/ Crash

Spec == Init /\ [][Next]_vars
-----------------------------------------------------------------------------
(* Properties *)

\* Every variable keeps its type, and a handler holds the upload, part or message
\* that its step uses.
TypeOK ==
    /\ uploads \in [Upload -> Key \cup {None}]
    /\ parts \in [Upload -> SomeParts]
    /\ dirs \subseteq Upload
    /\ files \in [Upload -> SomeParts]
    /\ temps \in [Upload -> SUBSET (Request \cup {None})]
    /\ objects \in [Key -> Message \cup {NoMessage}]
    /\ channel \subseteq Message
    /\ content \in [Message -> Seq(Block)]
    /\ nextUpload \in 1..(MaxUploads + 1)
    /\ nextMessage \in 1..(MaxMessages + 1)
    /\ status \in [Upload -> {"unknown", "open", "completed", "aborted"}]
    /\ acked \in [Upload -> SomeParts]
    /\ req \in [Request -> RequestState]
    /\ \A r \in Request :
          /\ req[r].pc \in Step \ {"createCheck", "makeDir"} => req[r].upload \in Upload
          /\ req[r].pc \in {"receive", "rename", "upsert"} => req[r].part \in Part
          /\ req[r].pc \in {"commit", "rollback"} => req[r].msg \in Message /\ req[r].key \in Key
          /\ req[r].pc = "openPart" => req[r].todo # {}

\* The bytes of a list of parts, in the order of their numbers.
Join(f) ==
    LET upto[n \in 0..MaxPart] ==
            IF n = 0 THEN <<>> ELSE upto[n - 1] \o (IF n \in DOMAIN f THEN f[n] ELSE <<>>)
    IN upto[MaxPart]

Stored(k) == content[objects[k]]

\* ARCHITECTURE.md:124: "the multipart flow is atomic from the S3 client's view
\* (the object appears on the final POST and never partially)", and multipart.go:195:
\* "Atomic part write: tmp + rename so a half-uploaded part can't be observed."
\* Every object is made of whole bodies, one that was sent as each part, whatever
\* uploads of a part, completions and aborts overlap, fail or are cut short.
WholeBodies ==
    \A k \in Key : objects[k] # NoMessage => \E w \in SomeParts : Stored(k) = Join(w)

Answered(r, op, answer) ==
    req[r].pc = "replied" /\ req[r].op = op /\ req[r].answer = answer

\* A CompleteMultipartUpload that is answered ok has stored exactly the parts it
\* listed, those whose ETags the client was given: neither a failed upload of a part
\* nor a restart between the file and its row shows in the object.
CompletedAsListed ==
    \A r \in Request : Answered(r, "complete", "ok") => content[req[r].msg] = Join(req[r].want)

\* Nothing of an aborted upload remains (the test TestMultipartAbortRemovesStaging,
\* integration_test.go:737): once an abort is answered ok and no request on the
\* upload is in progress, there is no row, no part row, no file and no directory.
AbortLeavesNothing ==
    \A u \in Upload :
        \/ status[u] = "aborted" => /\ uploads[u] = None /\ parts[u] = Nothing
                                    /\ files[u] = Nothing /\ u \notin dirs
        \/ \E r \in Request : InFlight(r) /\ req[r].upload = u
=============================================================================

---------------------------- MODULE ObjectWrites ----------------------------
(***************************************************************************)
(* From the body of a PUT to what is stored: the body readers of           *)
(* internal/sigv4, putBodySize, putObject and uploadPart of handlers.go,   *)
(* stageTemp and PutObject of service.go, the encrypter's reads, and how   *)
(* UploadPart takes its body. What is stored is read by ObjectReads.       *)
(*                                                                         *)
(* The bytes of a body are numbered from 1; a byte that was altered on its *)
(* way is 0. A step is one Read of the reader that the handler was given.  *)
(* Signatures and hashes are perfect: a chunk or a body verifies unless a  *)
(* byte of it was altered. Everything that is before the body (bucket,     *)
(* cipher, header signature) is the matter of other modules, and so is     *)
(* what happens to a part once its file is written.                        *)
(***************************************************************************)
EXTENDS ObjectReads

CONSTANTS
    BodySizes,      \* sizes of the bodies that clients send
    ChunkSizes,     \* sizes of the chunks of those who send chunks
    MaxObjectSize   \* of the backend

ASSUME BodyAssumption ==
    BodySizes \subseteq Nat /\ ChunkSizes \subseteq Nat \ {0} /\ MaxObjectSize \in Nat

VARIABLES
    put,    \* the request: its step, arguments and locals
    temp    \* its file put-*.tmp in the staging directory exists

writeVars == <<put, temp>>

\* unsigned: UNSIGNED-PAYLOAD and presigned; hashed: a SHA-256 of the body; signed and
\* trailer: aws-chunked, with a signature per chunk or with none.
Mode == {"unsigned", "hashed", "signed", "trailer"}
Chunked == {"signed", "trailer"}

\* What the headers say about the size: X-Amz-Decoded-Content-Length,
\* Content-Length, or nothing.
SizeHeader == {"decoded", "length", "none"}

\* left: bytes that the reader may hand out at once; chunks: those of the wire that it
\* has still to parse; declared: the size that putObject goes by; plain: the bytes
\* that went to the backend, or to the file of a part; file: the staged bytes; cleanup:
\* the removal of their file has been deferred. short: the wire ends before the empty
\* chunk that a body in chunks ends with.
NoPut ==
    [pc |-> "idle", target |-> "object", mode |-> "unsigned", header |-> "none", n |-> 0,
     altered |-> 0, short |-> FALSE, left |-> <<>>, chunks |-> <<>>, declared |-> 0,
     file |-> <<>>, plain |-> <<>>, cleanup |-> FALSE, answer |-> "none"]

AnswerPut(answer) == put' = [put EXCEPT !.pc = "done", !.answer = answer]
-----------------------------------------------------------------------------
(* The body on the wire, and its readers *)

\* A body of n bytes as it arrives, one byte altered on its way.
Arrived(n, altered) == [i \in 1..n |-> IF i = altered THEN 0 ELSE i]

\* Its chunks, of c bytes but for the last, and the empty one that ends them.
ChunksOf(body, c) ==
    [k \in 1..(Len(body) + c - 1) \div c |->
        SubSeq(body, (k - 1) * c + 1, Least(k * c, Len(body)))] \o << <<>> >>

\* What a Read may return, and what it leaves behind. err is nil, eof, bad (a signature
\* or a hash does not match) or broken.
Result(bytes, err, left, chunks) ==
    [bytes |-> bytes, err |-> err, left |-> left, chunks |-> chunks]

\* The connection breaks, what arrives is no chunk, or the wire ends within the data of
\* one: io.ErrUnexpectedEOF, or another error that is not io.EOF.
Broken == Result(<<>>, "broken", <<>>, <<>>)

Ended == Result(<<>>, "eof", <<>>, <<>>)

\* Mutant: the hashes are compared in Close only, which nobody calls.
PlainEndUnchecked == "eof"

\* The end of a body without chunks. hashCheckingReader compares hashes here, and only
\* here.
PlainEnd == IF put.mode = "hashed" /\ put.altered # 0 THEN "bad" ELSE "eof"

\* net/http reads what has arrived, and may tell the end with the last bytes.
PlainReads(want) ==
    {Broken}
    \cup {Result(SubSeq(put.left, 1, k), "nil", SubSeq(put.left, k + 1, Len(put.left)), <<>>) :
              k \in 1..Least(want, Len(put.left))}
    \cup (IF Len(put.left) <= want THEN {Result(put.left, PlainEnd, <<>>, <<>>)} ELSE {})

Take(want, bytes, chunks) ==
    Result(SubSeq(bytes, 1, Least(want, Len(bytes))), "nil",
           SubSeq(bytes, want + 1, Len(bytes)), chunks)

\* The signature of a chunk matches, if it has one.
Verifies(chunk) == put.mode = "signed" => \A i \in DOMAIN chunk : chunk[i] # 0

\* signedChunkedReader and unsignedChunkedReader: a chunk is read and verified as a
\* whole before its first byte is handed out. Where the wire ends in a chunk's header,
\* before its data or in the line end behind it, nextChunk returns the io.EOF of
\* ReadString, ReadFull or Discard as it is, and the body seems to end there.
ChunkReads(want) ==
    LET chunk == Head(put.chunks) IN
    IF put.left # <<>> THEN {Take(want, put.left, put.chunks)}
    ELSE IF put.chunks = <<>> THEN {Ended}
    ELSE {Broken, IF ~Verifies(chunk) THEN Result(<<>>, "bad", <<>>, <<>>)
                  ELSE IF chunk = <<>> THEN Ended
                  ELSE Take(want, chunk, Tail(put.chunks))}
         \cup {read \in {Ended} : put.short}

\* What r.Body.Read may return for a buffer of want bytes.
BodyReads(want) == IF put.mode \in Chunked THEN ChunkReads(want) ELSE PlainReads(want)
-----------------------------------------------------------------------------
(* The request *)

\* Bound: a body is received while no GET runs and no message has been changed. It may
\* be stored at any moment of a GET.
Quiet == get.pc = "idle" /\ damaged = {}

\* putBodySize. The Content-Length of a body in chunks counts their framing too.
BodySize(mode, header, n) ==
    CASE header = "decoded" -> n
      [] header = "length"  -> IF mode \in Chunked THEN n + 1 ELSE n
      [] header = "none"    -> 0

\* The signature of the headers has been verified: the body gets its reader. A body
\* without a size is staged first; an object whose size is too large is refused.
BeginPut ==
    /\ put.pc = "idle" /\ Quiet /\ row < MaxVersions
    /\ \E target \in {"object", "part"}, mode \in Mode, header \in SizeHeader,
          c \in ChunkSizes, n \in BodySizes :
       \E altered \in 0..n, short \in IF mode \in Chunked THEN BOOLEAN ELSE {FALSE} :
          LET body == Arrived(n, altered)
              declared == BodySize(mode, header, n)
              tooLarge == target = "object" /\ header # "none" /\ declared > MaxObjectSize
              first == IF header = "none" THEN "stage"
                       ELSE IF target = "part" THEN "receive" ELSE "check"
          IN /\ put' = [pc |-> IF tooLarge THEN "done" ELSE first, target |-> target,
                        mode |-> mode, header |-> header, n |-> n, altered |-> altered,
                        short |-> short,
                        left |-> IF mode \in Chunked THEN <<>> ELSE body,
                        chunks |-> IF mode \in Chunked THEN ChunksOf(body, c) ELSE <<>>,
                        declared |-> declared, file |-> <<>>, plain |-> <<>>,
                        cleanup |-> FALSE,
                        answer |-> IF tooLarge THEN "EntityTooLarge" ELSE "none"]
             /\ temp' = (header = "none")
    /\ UNCHANGED readVars

\* Mutant: any error ends the body.
EndsAnyhow(read) == read.err # "nil"

\* io.Copy: only io.EOF is an end.
Ends(read) == read.err = "eof"
Fails(read) == read.err # "nil" /\ ~Ends(read)

\* Mutant: the staged file is left.
UnstageForgotten == UNCHANGED temp

\* os.Remove on the error paths of stageTemp.
Unstage == temp' = FALSE

\* The reader ends after MaxObjectSize + 1 bytes.
StageWant == MaxObjectSize + 1 - Len(put.file)

\* stageTemp: a turn of io.Copy from the body to the file. What has been staged takes
\* the place of the body, and its file is removed when the handler returns.
Stage ==
    /\ put.pc = "stage"
    /\ \E read \in BodyReads(StageWant) :
          LET file == put.file \o read.bytes IN
          \/ /\ ~Fails(read) /\ Len(file) > MaxObjectSize
             /\ AnswerPut("EntityTooLarge") /\ Unstage
          \/ /\ read.err = "nil" /\ Len(file) <= MaxObjectSize
             /\ put' = [put EXCEPT !.file = file, !.left = read.left, !.chunks = read.chunks]
             /\ UNCHANGED temp
          \/ /\ Ends(read) /\ Len(file) <= MaxObjectSize
             /\ put' = [put EXCEPT !.pc = IF put.target = "part" THEN "receive" ELSE "check",
                                   !.file = file, !.left = file, !.chunks = <<>>,
                                   !.declared = Len(file), !.cleanup = TRUE]
             /\ UNCHANGED temp
          \/ Fails(read) /\ AnswerPut("error") /\ Unstage
    /\ UNCHANGED readVars

\* The staging volume is full.
StageFails ==
    /\ put.pc = "stage"
    /\ AnswerPut("error") /\ Unstage
    /\ UNCHANGED readVars

\* Mutant: the size of the plaintext is compared.
CheckPlaintext ==
    /\ put.pc = "check"
    /\ IF put.declared > MaxObjectSize
       THEN AnswerPut("EntityTooLarge")
       ELSE put' = [put EXCEPT !.pc = "seal"]
    /\ UNCHANGED <<readVars, temp>>

\* PutObject: the limit is one of ciphertexts.
Check ==
    /\ put.pc = "check"
    /\ IF CiphertextSize(put.declared) > MaxObjectSize
       THEN AnswerPut("EntityTooLarge")
       ELSE put' = [put EXCEPT !.pc = "seal"]
    /\ UNCHANGED <<readVars, temp>>

\* What the encrypter and UploadPart read from: the body, or the staged file.
Reads(want) ==
    IF put.header # "none" THEN BodyReads(want)
    ELSE IF put.left = <<>> THEN {Ended}
    ELSE {Take(want, put.left, <<>>)}

\* Where the frame ends that the encrypter is filling.
FrameEnd == Least((Len(put.plain) \div FrameSize + 1) * FrameSize, put.declared)

\* encrypter.nextFrame, which fills a frame with io.ReadFull: an error that comes with
\* the last byte of the frame is dropped, one that comes before ends the upload. Or
\* the backend fails.
SealFrame ==
    /\ put.pc = "seal" /\ Len(put.plain) < put.declared
    /\ \/ \E read \in Reads(FrameEnd - Len(put.plain)) :
             LET plain == put.plain \o read.bytes IN
             IF read.err = "nil" \/ Len(plain) = FrameEnd
             THEN put' = [put EXCEPT !.plain = plain, !.left = read.left, !.chunks = read.chunks]
             ELSE AnswerPut("error")
       \/ AnswerPut("error")
    /\ UNCHANGED <<readVars, temp>>

\* The last frame is sealed and the backend has it all: nothing looks at the body again.
Uploaded ==
    /\ put.pc = "seal" /\ Len(put.plain) = put.declared
    /\ put' = [NoPut EXCEPT !.pc = "commit", !.declared = put.declared, !.cleanup = put.cleanup]
    /\ UNCHANGED <<readVars, temp>>

\* Meta.PutObject.
CommitPut ==
    /\ put.pc = "commit"
    /\ \/ Store(put.declared) /\ AnswerPut("ok")
       \/ AnswerPut("error") /\ UNCHANGED readVars
    /\ UNCHANGED temp

\* UploadPart: a turn of io.Copy from the body, through a reader that ends a byte after
\* the declared size, to the file of the part; or the disk is full.
ReceivePart ==
    /\ put.pc = "receive"
    /\ \/ \E read \in Reads(put.declared + 1 - Len(put.plain)) :
             LET plain == put.plain \o read.bytes
                 took == [put EXCEPT !.plain = plain, !.left = read.left, !.chunks = read.chunks]
             IN \/ read.err = "nil" /\ Len(plain) <= put.declared /\ put' = took
                \/ /\ Ends(read) /\ Len(plain) = put.declared
                   /\ put' = [took EXCEPT !.pc = "done", !.answer = "ok"]
                \/ /\ \/ Ends(read) /\ Len(plain) # put.declared
                      \/ read.err = "nil" /\ Len(plain) > put.declared
                   /\ AnswerPut("InvalidArgument")
                \/ Fails(read) /\ AnswerPut("error")
       \/ AnswerPut("error")
    /\ UNCHANGED <<readVars, temp>>

\* The handler returns, and runs the removal it has deferred.
FinishPut ==
    /\ put.pc = "done"
    /\ put' = NoPut
    /\ temp' = (temp /\ ~put.cleanup)
    /\ UNCHANGED readVars

WritesInit == ReadsInit /\ put = NoPut /\ temp = FALSE

\* Bound: a GET waits while a body is received.
WritesNext ==
    \/ BeginPut \/ Stage \/ StageFails \/ Check \/ SealFrame \/ Uploaded \/ CommitPut
    \/ ReceivePart \/ FinishPut
    \/ put.pc \in {"idle", "commit"} /\ ReadStep /\ UNCHANGED writeVars

WritesSpec == WritesInit /\ [][WritesNext]_<<readVars, writeVars>>
-----------------------------------------------------------------------------
(* Properties *)

\* Every variable keeps its type, also while objects are written; and a staged file
\* that nobody is using is removed, however the staging has ended.
WritesTypeOK ==
    /\ ReadTypeOK
    /\ put.pc \in {"idle", "stage", "check", "seal", "commit", "receive", "done"}
    /\ put.target \in {"object", "part"} /\ put.mode \in Mode
    /\ put.header \in SizeHeader /\ put.n \in BodySizes \cup {0}
    /\ put.altered \in 0..put.n
    /\ {put.left, put.file, put.plain} \subseteq Seq(Nat) /\ put.chunks \in Seq(Seq(Nat))
    /\ put.declared \in Nat
    /\ put.answer \in {"none", "ok", "error", "EntityTooLarge", "InvalidArgument"}
    /\ {temp, put.short, put.cleanup} \subseteq BOOLEAN
    /\ temp => put.pc = "stage" \/ put.cleanup

\* What the backend or the file of a part has got when nothing can be refused any more.
Accepted ==
    \/ put.pc = "seal" /\ Len(put.plain) = put.declared
    \/ put.pc = "done" /\ put.target = "part" /\ put.answer = "ok"

\* PutObject's "reader must yield exactly size bytes" (service.go:58): what is accepted is
\* the body as it arrived, whole and in order, whether its size was known or not, however
\* chunks, frames and reads cut it and wherever the connection broke. Only where nothing
\* tells its size may it be the beginning of a body, if its chunks were well formed and
\* the wire ended before the last of them.
StoredAsSent ==
    Accepted =>
        /\ put.plain = SubSeq(Arrived(put.n, put.altered), 1, Len(put.plain))
        /\ \/ Len(put.plain) = put.n
           \/ put.short /\ put.header = "none"

Unaltered == \A i \in DOMAIN put.plain : put.plain[i] # 0

\* Nothing is accepted of a chunk whose signature does not match, and no body is whose
\* hash does not match where all of it is read before it counts: by stageTemp, and by
\* UploadPart.
AlterationsFound ==
    /\ Accepted /\ put.mode = "signed" => Unaltered
    /\ Accepted /\ put.mode = "hashed" /\ (put.header = "none" \/ put.target = "part")
       => Unaltered

\* "<hex sha256> - body hash is verified" (sigv4.go:8), and "if the consumer doesn't read
\* the full body the verification still fires on close" (sigv4.go:184-186).
BodyHashVerified == Accepted /\ put.mode = "hashed" => Unaltered

\* What is refused as too large is too large, what is taken is not, and no more than
\* a byte over the limit is staged to find out.
LimitsExact ==
    /\ put.answer = "EntityTooLarge" =>
          IF put.target = "part" THEN put.n > MaxObjectSize
          ELSE CiphertextSize(BodySize(put.mode, "length", put.n)) > MaxObjectSize
    /\ put.pc = "seal" => CiphertextSize(put.declared) <= MaxObjectSize
    /\ Len(put.file) <= MaxObjectSize + 1
=============================================================================

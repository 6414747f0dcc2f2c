---------------------------- MODULE ObjectReads ----------------------------
(***************************************************************************)
(* From a GET to its bytes: getObject and getObjectRange of handlers.go,   *)
(* GetObject and GetObjectRange of service.go, and the frames of           *)
(* internal/crypto, while the object is overwritten and what is stored     *)
(* loses its end or has frames exchanged.                                  *)
(*                                                                         *)
(* The byte at position x of version v is <<v, x>>. A stored byte names    *)
(* what it was sealed from, and a frame opens only as a whole: that is     *)
(* what AES-GCM with the nonce and the frame index of v gives. An atomic   *)
(* step is a metadata read, the opening of the ciphertext, or a frame.     *)
(* That the ciphertext is found at all is the matter of ObjectService.     *)
(***************************************************************************)
EXTENDS Integers, Sequences, FiniteSets

CONSTANTS
    HeaderSize, TagLen,  \* 17 and 16 in the code
    FrameSize,           \* DefaultFrameSize
    MaxNumber,           \* bound: numbers in Range headers
    MaxVersions          \* bound: versions of the object

ASSUME FrameAssumption ==
    HeaderSize \in Nat \ {0} /\ TagLen \in Nat \ {0} /\ FrameSize \in Nat \ {0}
ASSUME ReadBoundAssumption ==
    MaxNumber \in Nat /\ MaxVersions \in Nat

Version == 1..MaxVersions

VARIABLES
    row,      \* the version in the object's row, 0 if there is none
    size,     \* size of each version, as in its row
    content,  \* the message of each version: its stored bytes
    damaged,  \* history: versions whose message has been changed
    get       \* the request: its step, arguments and locals

readVars == <<row, size, content, damaged, get>>
-----------------------------------------------------------------------------
(* Frames *)

Least(m, n) == IF m <= n THEN m ELSE n

\* Mutant: the tag of a last, partial frame is forgotten.
CiphertextSizeUntagged(n) ==
    HeaderSize + (n \div FrameSize) * (FrameSize + TagLen) + (n % FrameSize)

CiphertextSize(n) ==
    HeaderSize + (n \div FrameSize) * (FrameSize + TagLen)
        + (IF n % FrameSize > 0 \/ n = 0 THEN (n % FrameSize) + TagLen ELSE 0)

\* encrypter.nextFrame: the frames of n bytes, at least one, and how much of the
\* plaintext is in frame i.
FrameCount(n) == IF n = 0 THEN 1 ELSE (n + FrameSize - 1) \div FrameSize
FrameLen(n, i) == Least(FrameSize, n - i * FrameSize)

\* The positions of frame i in a blob: 1 is the first byte behind those before it.
FrameOffset(i) == HeaderSize + i * (FrameSize + TagLen)

\* aead.Seal of n bytes as frame i of version v, after frameNonce and frameAAD.
Seal(v, i, n) == [j \in 1..n + TagLen |-> <<v, i, n, j>>]

\* The header holds the base nonce, which is the version's; its bytes are those of
\* no frame.
Header(v) == [j \in 1..HeaderSize |-> <<v, -1, HeaderSize, j>>]

\* encrypter.Read: the blob of a version of n bytes.
Blob(v, n) ==
    [x \in 1..FrameOffset(FrameCount(n) - 1) + FrameLen(n, FrameCount(n) - 1) + TagLen |->
        IF x <= HeaderSize THEN Header(v)[x]
        ELSE LET i == (x - HeaderSize - 1) \div (FrameSize + TagLen)
             IN Seal(v, i, FrameLen(n, i))[x - FrameOffset(i)]]

\* Mutant: neither nonce nor AAD tells the frames of an object apart.
OpensUnnumbered(v, i, s) ==
    Len(s) >= TagLen /\ \E k \in 0..Len(s) : s = Seal(v, k, Len(s) - TagLen)

\* aead.Open succeeds.
Opens(v, i, s) == Len(s) >= TagLen /\ s = Seal(v, i, Len(s) - TagLen)

\* What it returns: the bytes that were sealed.
Plain(s) ==
    [j \in 1..Len(s) - TagLen |-> <<s[j][1], s[j][2] * FrameSize + j - 1>>]

\* n bytes of a blob behind the first o, or as many as there are.
Piece(blob, o, n) == SubSeq(blob, o + 1, Least(o + n, Len(blob)))

\* The blob of v with its frame i replaced by frame k of w.
Spliced(v, i, w, k) ==
    Piece(content[v], 0, FrameOffset(i))
        \o Piece(content[w], FrameOffset(k), FrameSize + TagLen)
        \o Piece(content[v], FrameOffset(i + 1), Len(content[v]))
-----------------------------------------------------------------------------
(* Requests *)

\* The forms of a Range header: none, lo-hi, lo-, -n, and any that does not parse.
RangeHeader ==
    {<<"none">>, <<"bad">>}
        \cup {<<"span", lo, hi>> : lo \in 0..MaxNumber, hi \in 0..MaxNumber}
        \cup {<<"from", lo>> : lo \in 0..MaxNumber}
        \cup {<<"suffix", n>> : n \in 0..MaxNumber}

IdleGet ==
    [pc |-> "idle", range |-> <<"none">>, head |-> 0, ver |-> 0, start |-> 0, end |-> 0,
     frame |-> 0, blob |-> <<>>, declared |-> 0, out |-> <<>>, answer |-> "none"]

AnswerGet(answer) == get' = [get EXCEPT !.pc = "done", !.answer = answer]

\* Mutant: the suffix begins one byte early.
ParseRangeEarly(r, n) ==
    CASE r[1] = "span" /\ r[2] <= r[3] /\ r[2] < n -> <<r[2], Least(r[3], n - 1)>>
      [] r[1] = "from" /\ r[2] < n                  -> <<r[2], n - 1>>
      [] r[1] = "suffix" /\ r[2] > 0 /\ n > 0       -> <<n - Least(r[2] + 1, n), n - 1>>
      [] OTHER                                      -> <<>>

\* parseRange: first and last position in an object of n bytes, or <<>>.
ParseRange(r, n) ==
    CASE r[1] = "span" /\ r[2] <= r[3] /\ r[2] < n -> <<r[2], Least(r[3], n - 1)>>
      [] r[1] = "from" /\ r[2] < n                  -> <<r[2], n - 1>>
      [] r[1] = "suffix" /\ r[2] > 0 /\ n > 0       -> <<n - Least(r[2], n), n - 1>>
      [] OTHER                                      -> <<>>

BeginGet ==
    /\ get.pc = "idle"
    /\ \E r \in RangeHeader :
          get' = [IdleGet EXCEPT !.pc = IF r = <<"none">> THEN "row" ELSE "head", !.range = r]
    /\ UNCHANGED <<row, size, content, damaged>>

\* getObjectRange: HeadObject of the service, and the range against its size.
HeadObject ==
    /\ get.pc = "head"
    /\ IF row = 0 THEN AnswerGet("NoSuchKey")
       ELSE LET range == ParseRange(get.range, size[row])
            IN IF range = <<>>
               THEN get' = [get EXCEPT !.pc = "done", !.head = row, !.answer = "InvalidRange"]
               ELSE get' = [get EXCEPT !.pc = "row", !.head = row, !.start = range[1],
                                       !.end = range[2], !.declared = range[2] - range[1] + 1]
    /\ UNCHANGED <<row, size, content, damaged>>

\* GetObject and GetObjectRange: the row, which for a range is read a second time.
ReadRow ==
    /\ get.pc = "row"
    /\ \/ row = 0 /\ AnswerGet("NoSuchKey")
       \/ /\ row # 0 /\ get.range = <<"none">>
          /\ get' = [get EXCEPT !.pc = "open", !.head = row, !.ver = row, !.declared = size[row]]
       \/ /\ row # 0 /\ get.range # <<"none">> /\ get.end >= size[row]
          /\ get' = [get EXCEPT !.pc = "done", !.ver = row, !.answer = "InvalidRange"]
       \/ /\ row # 0 /\ get.range # <<"none">> /\ get.end < size[row]
          /\ get' = [get EXCEPT !.pc = "open", !.ver = row, !.frame = get.start \div FrameSize]
    /\ UNCHANGED <<row, size, content, damaged>>

\* The handler has written all it could: net/http closes the connection of an
\* answer whose body is not as long as its Content-Length.
End == AnswerGet(IF Len(get.out) = get.declared THEN "ok" ELSE "cut")

\* openCiphertext and openCiphertextAt, and the header. A stream without one is
\* refused before the answer begins, a range only after.
Open ==
    /\ get.pc = "open"
    /\ LET blob == content[get.ver]
           readable == Piece(blob, 0, HeaderSize) = Header(get.ver)
           full == get.range = <<"none">>
       IN \/ /\ readable
             /\ get' = [get EXCEPT !.blob = blob, !.pc = IF full THEN "stream" ELSE "range"]
          \/ ~readable /\ full /\ AnswerGet("error")
          \/ ~readable /\ ~full /\ End
    /\ UNCHANGED <<row, size, content, damaged>>

\* decrypter.nextFrame: as much of the stream as a frame may have.
StreamFrame ==
    /\ get.pc = "stream"
    /\ LET s == Piece(get.blob, FrameOffset(get.frame), FrameSize + TagLen)
       IN \/ /\ s = <<>> \/ ~Opens(get.ver, get.frame, s)
             /\ End
          \/ /\ s # <<>> /\ Opens(get.ver, get.frame, s)
             /\ get' = [get EXCEPT !.out = @ \o Plain(s), !.frame = @ + 1]
    /\ UNCHANGED <<row, size, content, damaged>>

\* The bytes lo..hi of the plaintext s of frame i that are in the range.
Cut(s, i) ==
    LET first == i * FrameSize
        lo == IF get.start > first THEN get.start - first ELSE 0
        hi == IF get.end < first + Len(s) - 1 THEN get.end - first + 1 ELSE Len(s)
    IN SubSeq(s, lo + 1, hi)

\* DecryptRange: one turn of its loop, or what follows the loop.
RangeFrame ==
    /\ get.pc = "range"
    /\ LET i == get.frame
           remaining == CiphertextSize(size[get.ver]) - FrameOffset(i)
           readSize == Least(FrameSize + TagLen, remaining)
           s == Piece(get.blob, FrameOffset(i), readSize)
           wanted == i <= get.end \div FrameSize
           readable == remaining > TagLen /\ Len(s) = readSize /\ Opens(get.ver, i, s)
       IN \/ ~(wanted /\ readable) /\ End
          \/ /\ wanted /\ readable
             /\ get' = [get EXCEPT !.out = @ \o Cut(Plain(s), i), !.frame = @ + 1]
    /\ UNCHANGED <<row, size, content, damaged>>

FinishGet ==
    /\ get.pc = "done"
    /\ get' = IdleGet
    /\ UNCHANGED <<row, size, content, damaged>>
-----------------------------------------------------------------------------
(* The surroundings *)

\* Another request stores a body of n bytes: the backend has taken from the encrypter
\* as many bytes as it was told to.
Store(n) ==
    /\ row < MaxVersions
    /\ size' = [size EXCEPT ![row + 1] = n]
    /\ content' = [content EXCEPT ![row + 1] = Piece(Blob(row + 1, n), 0, CiphertextSize(n))]
    /\ row' = row + 1
    /\ UNCHANGED <<damaged, get>>

\* A message of v frames loses its end, or has its frames exchanged or replaced by
\* those of another version, once.
Damage ==
    /\ \E v \in 1..row \ damaged :
          /\ damaged' = damaged \cup {v}
          /\ \/ \E l \in 0..Len(content[v]) : content' = [content EXCEPT ![v] = SubSeq(@, 1, l)]
             \/ \E i, k \in 0..FrameCount(size[v]) - 1, w \in 1..row :
                   content' = [content EXCEPT ![v] = Spliced(v, i, w, k)]
    /\ UNCHANGED <<row, size, get>>

ReadsInit ==
    /\ row = 0
    /\ size = [v \in Version |-> 0]
    /\ content = [v \in Version |-> <<>>]
    /\ damaged = {}
    /\ get = IdleGet

\* The steps of a GET, and what may happen to a message. ObjectWrites has those that
\* store one.
ReadStep ==
    \/ BeginGet \/ HeadObject \/ ReadRow \/ Open
    \/ StreamFrame \/ RangeFrame \/ FinishGet
    \/ Damage
-----------------------------------------------------------------------------
(* Properties *)

Byte == Version \X Nat

\* Every variable keeps its type; an answer has no more bytes than its Content-Length
\* says, and its locals are those of a range within the object it was resolved for.
ReadTypeOK ==
    /\ row \in 0..MaxVersions
    /\ size \in [Version -> Nat]
    /\ DOMAIN content = Version
    /\ damaged \subseteq 1..row
    /\ get.pc \in {"idle", "head", "row", "open", "stream", "range", "done"}
    /\ get.range \in RangeHeader
    /\ get.head \in 0..row /\ get.ver \in 0..row
    /\ get.answer \in {"none", "ok", "cut", "error", "NoSuchKey", "InvalidRange"}
    /\ get.declared \in Nat /\ get.out \in Seq(Byte) /\ Len(get.out) <= get.declared
    /\ get.pc \in {"open", "range"} /\ get.range # <<"none">> =>
          get.start \in 0..get.end /\ get.end < size[get.head] /\ get.end < size[get.ver]

\* The positions that a Range header names in an object of n bytes.
Asked(r, n) ==
    {x \in 0..n - 1 : \/ r[1] = "span" /\ r[2] <= x /\ x <= r[3]
                      \/ r[1] = "from" /\ r[2] <= x
                      \/ r[1] = "suffix" /\ n - r[2] <= x}

\* The bytes of v at a set of adjacent positions.
BytesAt(v, S) ==
    LET first == CHOOSE x \in S : \A y \in S : x <= y
    IN [x \in 1..Cardinality(S) |-> <<v, first + x - 1>>]

\* crypto.go:11-14: "reordering or splicing frames breaks authentication". Whatever has
\* been lost or exchanged in the message, an answer that is complete is the object
\* of the row that its headers come from.
WholeAnswersRight ==
    get.answer = "ok" /\ get.range = <<"none">> =>
        get.out = BytesAt(get.head, 0..size[get.head] - 1)

\* A complete answer to a range is made of the bytes at the positions asked for, in
\* the size that the headers give, and all of one version; one is refused as invalid
\* only if it names no byte, or if the object was overwritten meanwhile.
RangeAnswersRight ==
    get.range # <<"none">> =>
        LET asked == Asked(get.range, size[get.head]) IN
        /\ get.answer = "ok" => asked # {} /\ get.out = BytesAt(get.ver, asked)
        /\ get.answer = "InvalidRange" => asked = {} \/ get.ver > get.head

\* No answer is cut short or refused for its content unless the message was changed:
\* CiphertextSize, the encrypter and both readers agree on where every frame is,
\* for sizes at, below and above a frame boundary.
UndamagedReadsComplete == get.answer \in {"cut", "error"} => get.ver \in damaged
=============================================================================

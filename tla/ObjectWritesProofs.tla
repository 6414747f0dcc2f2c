------------------------- MODULE ObjectWritesProofs -------------------------
(***************************************************************************)
(* Theorems about ObjectWrites, and with it about ObjectReads, for frames, *)
(* headers and tags of any size, bodies and chunks of any size, any limit  *)
(* and any number of versions.                                             *)
(***************************************************************************)
EXTENDS ObjectWrites, SequenceTheorems, FiniteSetTheorems, TLAPS

-----------------------------------------------------------------------------
(* The invariants: messages and what a GET knows of them *)

\* The bytes of a blob, of the headers too.
Stored == Version \X Int \X Nat \X Nat

\* A byte of a frame was sealed with the size that the row of its version has.
Made(b) ==
    b[2] # -1 =>
        /\ b[1] \in 1..row
        /\ b[2] \in 0..FrameCount(size[b[1]]) - 1
        /\ b[3] = FrameLen(size[b[1]], b[2])

\* What may be read as the message of version v.
MessageOf(v, blob) ==
    /\ blob \in Seq(Stored)
    /\ \A x \in 1..Len(blob) : Made(blob[x])
    /\ v \notin damaged => blob = Blob(v, size[v])

StoreInv ==
    /\ row \in 0..MaxVersions
    /\ size \in [Version -> Nat]
    /\ content \in [Version -> Seq(Stored)]
    /\ damaged \subseteq 1..row
    /\ \A v \in 1..row : MessageOf(v, content[v])

GetState ==
    [pc : {"idle", "head", "row", "open", "stream", "range", "done"}, range : RangeHeader,
     head : Nat, ver : Nat, start : Nat, end : Nat, frame : Nat, blob : Seq(Stored),
     declared : Nat, out : Seq(Byte),
     answer : {"none", "ok", "cut", "error", "NoSuchKey", "InvalidRange"}]

Full == get.range = <<"none">>

\* The answer so far is bytes of v from a position on.
RunOf(out, v, first) == \A x \in 1..Len(out) : out[x] = <<v, first + x - 1>>

\* The range has been resolved against the row that the headers come from.
Resolved ==
    /\ get.head \in 1..row
    /\ get.start \in 0..get.end /\ get.end < size[get.head]
    /\ get.declared = get.end - get.start + 1
    /\ Asked(get.range, size[get.head]) = get.start..get.end

\* The version to send has been chosen.
Chosen ==
    /\ get.ver \in 1..row
    /\ IF Full THEN get.head = get.ver /\ get.declared = size[get.ver]
       ELSE Resolved /\ get.end < size[get.ver]

\* How far a range has come once the frames below i have been opened.
Reached(start, end, i) ==
    LET below == Least(i * FrameSize, end + 1) IN IF start <= below THEN below ELSE start

AtStep ==
    /\ get.pc \in {"idle", "head"} => get.head = 0 /\ get.ver = 0 /\ get.declared = 0
    /\ get.pc = "head" => ~Full
    /\ get.pc = "row" => get.ver = 0 /\ IF Full THEN get.head = 0 /\ get.declared = 0
                                       ELSE Resolved
    /\ get.pc \in {"open", "stream", "range"} => Chosen
    /\ get.pc \in {"stream", "range"} => MessageOf(get.ver, get.blob)
    /\ get.pc = "open" => get.frame = IF Full THEN 0 ELSE get.start \div FrameSize
    /\ get.pc = "stream" =>
          /\ Full
          /\ get.frame \in 0..FrameCount(size[get.ver])
          /\ Len(get.out) = Least(get.frame * FrameSize, size[get.ver])
          /\ RunOf(get.out, get.ver, 0)
    /\ get.pc = "range" =>
          /\ ~Full
          /\ get.frame >= get.start \div FrameSize
          /\ Len(get.out) = Reached(get.start, get.end, get.frame) - get.start
          /\ RunOf(get.out, get.ver, get.start)
    /\ get.pc \in {"idle", "head", "row"} => get.frame = 0
    /\ get.pc \in {"idle", "head", "row", "open"} => get.out = <<>>
    /\ get.pc \in {"idle", "head", "row", "open", "stream", "range"} => get.answer = "none"

Answered ==
    /\ get.answer = "ok" =>
          /\ Chosen
          /\ Len(get.out) = get.declared
          /\ RunOf(get.out, get.ver, IF Full THEN 0 ELSE get.start)
    /\ get.answer = "InvalidRange" =>
          /\ ~Full /\ get.head \in 1..row
          /\ Asked(get.range, size[get.head]) = {} \/ get.ver > get.head
    /\ get.answer \in {"cut", "error"} => get.ver \in damaged

ReadInv ==
    /\ StoreInv
    /\ get \in GetState
    /\ get.head <= row /\ get.ver <= row
    /\ Len(get.out) <= get.declared
    /\ AtStep /\ Answered

-----------------------------------------------------------------------------
(* The invariants: what a PUT knows of its body *)

PutState ==
    [pc : {"idle", "stage", "check", "seal", "commit", "receive", "done"},
     target : {"object", "part"}, mode : Mode, header : SizeHeader, n : BodySizes \cup {0},
     altered : Nat, short : BOOLEAN, left : Seq(Nat), chunks : Seq(Seq(Nat)), declared : Nat,
     file : Seq(Nat), plain : Seq(Nat), cleanup : BOOLEAN,
     answer : {"none", "ok", "error", "EntityTooLarge", "InvalidArgument"}]

Body == Arrived(put.n, put.altered)

\* The body still comes from the wire, in chunks.
FromChunks == put.mode \in Chunked /\ (put.pc = "stage" \/ put.header # "none")

ChunkCount(n, c) == (n + c - 1) \div c

\* m chunks of c bytes have been parsed, and those that have a signature were verified.
Parsed(body, mode, c, m, got, chunks) ==
    /\ chunks = SubSeq(ChunksOf(body, c), m + 1, ChunkCount(Len(body), c) + 1)
    /\ got = SubSeq(body, 1, Least(m * c, Len(body)))
    /\ mode = "signed" => \A x \in 1..Len(got) : got[x] # 0

\* What has been taken from a body, what its reader holds and what is still on the wire
\* are the body.
OnWire(body, mode, taken, left, chunks) ==
    \E c \in ChunkSizes : \E m \in 0..ChunkCount(Len(body), c) :
        Parsed(body, mode, c, m, taken \o left, chunks)

Staged == put.header = "none" /\ put.pc \in {"check", "seal", "receive"}

\* What is read where there are no chunks.
Source == IF Staged THEN put.file ELSE Body

Ahead(taken, left, chunks) ==
    IF FromChunks THEN OnWire(Body, put.mode, taken, left, chunks)
    ELSE chunks = <<>> /\ taken \o left = Source

\* Bytes that the body, as it arrived, begins with; and bytes of which none is altered.
Begins(taken) == Len(taken) <= put.n /\ \A x \in 1..Len(taken) : taken[x] = Body[x]
Clean(taken) == \A x \in 1..Len(taken) : taken[x] # 0

\* What a body is that has been read to its end: whole, unless its wire ended early; and
\* not altered, where there are signatures or a hash.
Kept(taken) ==
    /\ Begins(taken)
    /\ Len(taken) = put.n \/ put.short
    /\ put.mode \in {"signed", "hashed"} => Clean(taken)

TransferInv ==
    /\ put.pc = "stage" =>
          /\ Ahead(put.file, put.left, put.chunks)
          /\ put.plain = <<>> /\ put.header = "none"
          /\ Len(put.file) <= MaxObjectSize
    /\ put.pc = "check" => put.target = "object" /\ put.plain = <<>>
    /\ put.pc = "seal" => /\ put.target = "object" /\ Len(put.plain) <= put.declared
                          /\ CiphertextSize(put.declared) <= MaxObjectSize
    /\ put.pc = "receive" => put.target = "part" /\ Len(put.plain) <= put.declared
    /\ put.pc \in {"check", "seal", "receive"} =>
          /\ Ahead(put.plain, put.left, put.chunks)
          /\ put.declared = IF Staged THEN Len(put.file)
                            ELSE BodySize(put.mode, put.header, put.n)
    /\ Staged => Kept(put.file)

AcceptedRight == StoredAsSent /\ AlterationsFound

WriteInv ==
    /\ put \in PutState
    /\ put.altered <= put.n
    /\ temp \in BOOLEAN
    /\ temp => put.pc = "stage" \/ put.cleanup
    /\ put.pc \in {"idle", "commit"} => put.target = "object" /\ put.file = <<>>
    /\ put.answer = "none" => put.pc # "done"
    /\ put.pc # "done" => put.answer = "none"
    /\ TransferInv /\ AcceptedRight /\ LimitsExact

-----------------------------------------------------------------------------
(* Frames *)

LEMMA Sizes ==
    /\ HeaderSize \in Nat /\ TagLen \in Nat /\ FrameSize \in Nat
    /\ HeaderSize > 0 /\ TagLen > 0 /\ FrameSize > 0
  BY FrameAssumption

\* Quotients and remainders by a number of which nothing is known.
LEMMA QuotientIs ==
    ASSUME NEW a \in Nat, NEW d \in Nat, d > 0, NEW q \in Nat, NEW r \in 0..d - 1,
           a = q * d + r
    PROVE  a \div d = q /\ a % d = r
  OBVIOUS

LEMMA Division ==
    ASSUME NEW a \in Nat, NEW d \in Nat, d > 0
    PROVE  /\ a \div d \in Nat /\ a % d \in 0..d - 1
           /\ (a \div d) * d \in Nat
           /\ a = (a \div d) * d + (a % d)
           /\ (a \div d) * d <= a /\ a < (a \div d) * d + d
  OBVIOUS

LEMMA ProductNat == ASSUME NEW i \in Nat, NEW d \in Nat PROVE i * d \in Nat
  OBVIOUS

LEMMA NextProduct ==
    ASSUME NEW i \in Int, NEW d \in Nat
    PROVE  i * d \in Int /\ (i + 1) * d = i * d + d /\ (i - 1) * d = i * d - d
  OBVIOUS

LEMMA ProductOrder ==
    ASSUME NEW i \in Nat, NEW j \in Nat, NEW d \in Nat, i < j
    PROVE  i * d + d <= j * d
<1> DEFINE k == j - i - 1
<1>1. k \in Nat /\ j = i + 1 + k
  OBVIOUS
<1> HIDE DEF k
<1>2. j * d = i * d + d + k * d
  BY <1>1
<1>3. k * d \in Nat /\ i * d \in Nat
  BY <1>1
<1> QED
  BY <1>2, <1>3

\* The frames of n bytes cover them, and the last one is needed.
LEMMA FramesCover ==
    ASSUME NEW n \in Nat
    PROVE  /\ FrameCount(n) \in Nat /\ FrameCount(n) >= 1
           /\ n <= FrameCount(n) * FrameSize
           /\ n = 0 => FrameCount(n) = 1
           /\ n > 0 => (FrameCount(n) - 1) * FrameSize < n
<1> DEFINE a == n + FrameSize - 1
           q == a \div FrameSize
<1>1. CASE n = 0
  BY <1>1, Sizes DEF FrameCount
<1>2. CASE n > 0
  <2>1. a \in Nat /\ FrameSize \in Nat /\ FrameSize > 0
    BY Sizes
  <2> HIDE DEF a
  <2>2. q \in Nat /\ q * FrameSize \in Nat /\ q * FrameSize <= a /\ a < q * FrameSize + FrameSize
    BY <2>1, Division
  <2> HIDE DEF q
  <2>3. (q - 1) * FrameSize = q * FrameSize - FrameSize
    BY <2>1, <2>2, NextProduct
  <2>4. q # 0
    <3> SUFFICES ASSUME q = 0 PROVE FALSE
      OBVIOUS
    <3>1. q * FrameSize = 0
      BY <2>1
    <3> QED
      BY <1>2, <2>1, <2>2, <3>1 DEF a
  <2>5. FrameCount(n) = q
    BY <1>2 DEF FrameCount, q, a
  <2>6. n <= q * FrameSize /\ (q - 1) * FrameSize < n
    BY <1>2, <2>1, <2>2, <2>3 DEF a
  <2> QED
    BY <1>2, <2>2, <2>4, <2>5, <2>6
<1> QED
  BY <1>1, <1>2

\* Where the plaintext of frame i lies.
LEMMA FrameExtent ==
    ASSUME NEW n \in Nat, NEW i \in Nat, i < FrameCount(n)
    PROVE  /\ FrameLen(n, i) \in 0..FrameSize
           /\ i * FrameSize \in Nat /\ i * FrameSize <= n
           /\ i * FrameSize + FrameLen(n, i) = Least((i + 1) * FrameSize, n)
           /\ n > 0 => FrameLen(n, i) > 0
           /\ i < FrameCount(n) - 1 => FrameLen(n, i) = FrameSize
           /\ i = FrameCount(n) - 1 => i * FrameSize + FrameLen(n, i) = n
<1> DEFINE c == FrameCount(n)
           p == i * FrameSize
           l == (c - 1) * FrameSize
<1>1. FrameSize \in Nat /\ FrameSize > 0 /\ c \in Nat /\ c >= 1
  BY Sizes, FramesCover
<1>2. /\ n <= c * FrameSize
      /\ n = 0 => c = 1
      /\ n > 0 => l < n
  BY FramesCover
<1>3. i < c
  OBVIOUS
<1> HIDE DEF c
<1>4. p \in Nat /\ (i + 1) * FrameSize = p + FrameSize
  BY <1>1, ProductNat, NextProduct
<1>5. l \in Int /\ c * FrameSize = l + FrameSize
  BY <1>1, NextProduct
<1>6. i < c - 1 => p + FrameSize <= l
  BY <1>1, <1>3, ProductOrder
<1>7. i = c - 1 => p = l
  OBVIOUS
<1>8. n = 0 => p = 0
  BY <1>1, <1>2, <1>3
<1> HIDE DEF p, l
<1>9. p <= n
  BY <1>1, <1>2, <1>3, <1>4, <1>5, <1>6, <1>7, <1>8
<1>10. FrameLen(n, i) = Least(FrameSize, n - p)
  BY DEF FrameLen, p
<1>11. /\ FrameLen(n, i) \in 0..FrameSize
       /\ p + FrameLen(n, i) = Least(p + FrameSize, n)
  BY <1>1, <1>4, <1>9, <1>10 DEF Least
<1>12. i < c - 1 => FrameLen(n, i) = FrameSize /\ p < n
  BY <1>1, <1>2, <1>4, <1>5, <1>6, <1>8, <1>9, <1>10 DEF Least
<1>13. i = c - 1 => p + FrameLen(n, i) = n
  BY <1>1, <1>2, <1>4, <1>5, <1>7, <1>9, <1>10 DEF Least
<1>14. n > 0 => FrameLen(n, i) > 0
  BY <1>1, <1>2, <1>3, <1>4, <1>5, <1>7, <1>10, <1>12 DEF Least
<1> QED
  BY <1>4, <1>9, <1>11, <1>12, <1>13, <1>14 DEF p, c

LEMMA Offsets ==
    ASSUME NEW i \in Nat
    PROVE  /\ FrameOffset(i) \in Nat /\ FrameOffset(i) >= HeaderSize
           /\ FrameOffset(i) = HeaderSize + i * FrameSize + i * TagLen
           /\ i * FrameSize \in Nat /\ i * TagLen \in Nat
           /\ FrameOffset(i + 1) = FrameOffset(i) + FrameSize + TagLen
<1>1. i * (FrameSize + TagLen) = i * FrameSize + i * TagLen
  BY Sizes
<1>2. i * FrameSize \in Nat /\ i * TagLen \in Nat
  BY Sizes, ProductNat
<1>3. (i + 1) * (FrameSize + TagLen) = i * (FrameSize + TagLen) + FrameSize + TagLen
  BY Sizes
<1> QED
  BY <1>1, <1>2, <1>3, Sizes DEF FrameOffset

LEMMA OffsetOrder ==
    ASSUME NEW i \in Nat, NEW j \in Nat, i < j
    PROVE  FrameOffset(i) + FrameSize + TagLen <= FrameOffset(j)
<1>1. i * (FrameSize + TagLen) + (FrameSize + TagLen) <= j * (FrameSize + TagLen)
  BY Sizes, ProductOrder
<1>2. i * (FrameSize + TagLen) \in Int /\ j * (FrameSize + TagLen) \in Int
  BY Sizes, ProductNat
<1> QED
  BY <1>1, <1>2, Sizes DEF FrameOffset

\* CiphertextSize counts a tag for every frame of nextFrame.
LEMMA CountedTags ==
    ASSUME NEW n \in Nat
    PROVE  CiphertextSize(n) = HeaderSize + n + FrameCount(n) * TagLen
<1> DEFINE q == n \div FrameSize
           r == n % FrameSize
<1>1. /\ FrameSize \in Nat /\ FrameSize > 0 /\ TagLen \in Nat /\ TagLen > 0
      /\ HeaderSize \in Nat
  BY Sizes
<1>2. /\ q \in Nat /\ r \in 0..FrameSize - 1 /\ q * FrameSize \in Nat
      /\ n = q * FrameSize + r
      /\ q * FrameSize <= n /\ n < q * FrameSize + FrameSize
  BY <1>1, Division
<1>3. q * TagLen \in Nat /\ q * (FrameSize + TagLen) = q * FrameSize + q * TagLen
      /\ (q + 1) * TagLen = q * TagLen + TagLen
      /\ (q + 1) * FrameSize = q * FrameSize + FrameSize
  BY <1>1, <1>2
<1>4. CiphertextSize(n) = HeaderSize + q * FrameSize + q * TagLen
                            + (IF r > 0 \/ n = 0 THEN r + TagLen ELSE 0)
  BY <1>1, <1>2, <1>3 DEF CiphertextSize
<1> HIDE DEF q, r
<1>5. CASE n = 0
  <2>1. q = 0 /\ r = 0
    BY <1>1, <1>2, <1>5, QuotientIs DEF q, r
  <2>2. q * TagLen = 0 /\ FrameCount(n) = 1
    BY <1>1, <1>5, <2>1 DEF FrameCount
  <2> QED
    BY <1>1, <1>2, <1>4, <1>5, <2>1, <2>2
<1>6. CASE n > 0 /\ r > 0
  <2>1. n + FrameSize - 1 = (q + 1) * FrameSize + (r - 1)
    BY <1>1, <1>2, <1>3, <1>6
  <2>2. r - 1 \in 0..FrameSize - 1 /\ q + 1 \in Nat /\ n + FrameSize - 1 \in Nat
    BY <1>1, <1>2, <1>6
  <2>3. (n + FrameSize - 1) \div FrameSize = q + 1
    BY <1>1, <2>1, <2>2, QuotientIs
  <2>4. FrameCount(n) = q + 1
    BY <1>6, <2>3 DEF FrameCount
  <2> QED
    BY <1>1, <1>2, <1>3, <1>4, <1>6, <2>4
<1>7. CASE n > 0 /\ r = 0
  <2>1. n + FrameSize - 1 = q * FrameSize + (FrameSize - 1)
    BY <1>1, <1>2, <1>7
  <2>2. FrameSize - 1 \in 0..FrameSize - 1 /\ n + FrameSize - 1 \in Nat
    BY <1>1
  <2>3. (n + FrameSize - 1) \div FrameSize = q
    BY <1>1, <1>2, <2>1, <2>2, QuotientIs
  <2>4. FrameCount(n) = q
    BY <1>7, <2>3 DEF FrameCount
  <2> QED
    BY <1>1, <1>2, <1>3, <1>4, <1>7, <2>4
<1> QED
  BY <1>2, <1>5, <1>6, <1>7

\* What the encrypter writes is as long as CiphertextSize says.
LEMMA LastFrameEnds ==
    ASSUME NEW n \in Nat
    PROVE  /\ FrameOffset(FrameCount(n) - 1) + FrameLen(n, FrameCount(n) - 1) + TagLen
                 = CiphertextSize(n)
           /\ CiphertextSize(n) \in Nat /\ n <= CiphertextSize(n)
           /\ CiphertextSize(n) >= HeaderSize
<1> DEFINE c == FrameCount(n)
           l == FrameLen(n, c - 1)
<1>1. c \in Nat /\ c >= 1
  BY FramesCover
<1>2. c - 1 \in Nat /\ c - 1 < c
  BY <1>1
<1>3. l \in 0..FrameSize /\ (c - 1) * FrameSize + l = n
  BY <1>1, <1>2, FrameExtent
<1>4. /\ FrameOffset(c - 1) = HeaderSize + (c - 1) * FrameSize + (c - 1) * TagLen
      /\ (c - 1) * FrameSize \in Nat /\ (c - 1) * TagLen \in Nat
  BY <1>2, Offsets
<1>5. c * TagLen = (c - 1) * TagLen + TagLen /\ c * TagLen \in Nat
  BY <1>1, Sizes
<1>6. CiphertextSize(n) = HeaderSize + n + c * TagLen
  BY CountedTags
<1> HIDE DEF c, l
<1>7. FrameOffset(c - 1) + l + TagLen = CiphertextSize(n) /\ CiphertextSize(n) \in Nat
      /\ n <= CiphertextSize(n) /\ CiphertextSize(n) >= HeaderSize
  BY <1>1, <1>3, <1>4, <1>5, <1>6, Sizes
<1> QED
  BY <1>7 DEF c, l

LEMMA SizesOrdered ==
    ASSUME NEW n \in Nat, NEW m \in Nat, n <= m
    PROVE  CiphertextSize(n) <= CiphertextSize(m)
<1> DEFINE c == FrameCount(n)
           d == FrameCount(m)
<1>1. /\ c \in Nat /\ c >= 1 /\ d \in Nat /\ d >= 1
      /\ m <= d * FrameSize
      /\ n = 0 => c = 1
      /\ n > 0 => (c - 1) * FrameSize < n
  BY FramesCover
<1>2. CiphertextSize(n) = HeaderSize + n + c * TagLen
      /\ CiphertextSize(m) = HeaderSize + m + d * TagLen
  BY CountedTags
<1> HIDE DEF c, d
<1>3. c <= d
  <2> SUFFICES ASSUME d < c PROVE FALSE
    BY <1>1
  <2>1. n > 0
    BY <1>1
  <2>2. d <= c - 1 /\ c - 1 \in Nat
    BY <1>1
  <2>3. d * FrameSize <= (c - 1) * FrameSize
    <3>1. CASE d = c - 1
      BY <1>1, <2>2, <3>1, Sizes
    <3>2. CASE d < c - 1
      BY <1>1, <2>2, <3>2, Sizes, ProductOrder, ProductNat
    <3> QED
      BY <1>1, <2>2, <3>1, <3>2
  <2>4. d * FrameSize \in Nat /\ (c - 1) * FrameSize \in Nat
    BY <1>1, <2>2, Sizes, ProductNat
  <2> QED
    BY <1>1, <2>1, <2>3, <2>4
<1>4. c * TagLen <= d * TagLen
  <2>1. CASE c = d
    BY <1>1, <2>1, Sizes
  <2>2. CASE c < d
    BY <1>1, <2>2, Sizes, ProductOrder, ProductNat
  <2> QED
    BY <1>1, <1>3, <2>1, <2>2
<1>5. c * TagLen \in Nat /\ d * TagLen \in Nat
  BY <1>1, Sizes, ProductNat
<1> QED
  BY <1>2, <1>4, <1>5, Sizes

-----------------------------------------------------------------------------
(* Blobs *)

LEMMA PieceIs ==
    ASSUME NEW S, NEW blob \in Seq(S), NEW o \in Nat, NEW n \in Nat
    PROVE  /\ Piece(blob, o, n) \in Seq(S)
           /\ Len(Piece(blob, o, n)) =
                 IF o <= Len(blob) THEN Least(o + n, Len(blob)) - o ELSE 0
           /\ \A j \in 1..Len(Piece(blob, o, n)) :
                 o + j \in 1..Len(blob) /\ Piece(blob, o, n)[j] = blob[o + j]
<1> DEFINE e == Least(o + n, Len(blob))
<1>1. Len(blob) \in Nat
  BY LenProperties
<1>2. e \in Nat /\ e <= Len(blob)
  BY <1>1 DEF Least
<1>3. o <= Len(blob) => o <= e
  BY <1>1 DEF Least
<1>4. Piece(blob, o, n) = SubSeq(blob, o + 1, e)
  BY DEF Piece
<1> HIDE DEF e
<1>5. \A i \in o + 1..e : blob[i] \in S
  BY <1>1, <1>2, ElementOfSeq
<1>6. /\ SubSeq(blob, o + 1, e) \in Seq(S)
      /\ Len(SubSeq(blob, o + 1, e)) = IF o + 1 <= e THEN e - (o + 1) + 1 ELSE 0
      /\ \A i \in 1..e - (o + 1) + 1 : SubSeq(blob, o + 1, e)[i] = blob[(o + 1) + i - 1]
  BY <1>2, <1>5, SubSeqProperties
<1>7. Len(Piece(blob, o, n)) = IF o <= Len(blob) THEN e - o ELSE 0
  BY <1>1, <1>2, <1>3, <1>4, <1>6
<1>8. ASSUME NEW j \in 1..Len(Piece(blob, o, n))
      PROVE  o + j \in 1..Len(blob) /\ Piece(blob, o, n)[j] = blob[o + j]
  <2>1. j \in 1..e - (o + 1) + 1 /\ (o + 1) + j - 1 = o + j
    BY <1>1, <1>2, <1>4, <1>6
  <2>2. o + j \in 1..Len(blob)
    BY <1>1, <1>2, <2>1
  <2> QED
    BY <1>4, <1>6, <2>1, <2>2
<1> QED
  BY <1>4, <1>6, <1>7, <1>8 DEF e

\* A byte behind the header belongs to a frame.
LEMMA FrameOfPosition ==
    ASSUME NEW n \in Nat, NEW x \in HeaderSize + 1..CiphertextSize(n)
    PROVE  \E i \in 0..FrameCount(n) - 1 : \E j \in 1..FrameLen(n, i) + TagLen :
               /\ x = FrameOffset(i) + j
               /\ (x - HeaderSize - 1) \div (FrameSize + TagLen) = i
<1> DEFINE G == FrameSize + TagLen
           i == (x - HeaderSize - 1) \div G
           c == FrameCount(n)
           j == x - FrameOffset(i)
<1>1. /\ G \in Nat /\ G > 0 /\ x - HeaderSize - 1 \in Nat /\ HeaderSize \in Nat
      /\ TagLen \in Nat /\ FrameSize \in Nat
  BY Sizes, LastFrameEnds
<1>2. i \in Nat /\ i * G \in Nat /\ i * G <= x - HeaderSize - 1
      /\ x - HeaderSize - 1 < i * G + G
  <2> HIDE DEF G
  <2> QED
    BY <1>1, Division
<1>3. FrameOffset(i) = HeaderSize + i * G
  BY DEF FrameOffset
<1>4. c \in Nat /\ c >= 1
  BY FramesCover
<1>5. /\ FrameOffset(c - 1) + FrameLen(n, c - 1) + TagLen = CiphertextSize(n)
      /\ CiphertextSize(n) \in Nat
  BY LastFrameEnds
<1>6. FrameLen(n, c - 1) \in 0..FrameSize
  BY <1>4, FrameExtent
<1>7. i <= c - 1
  <2> SUFFICES ASSUME c - 1 < i PROVE FALSE
    BY <1>2, <1>4
  <2>1. FrameOffset(c - 1) + FrameSize + TagLen <= FrameOffset(i)
    BY <1>2, <1>4, OffsetOrder
  <2>2. FrameOffset(c - 1) \in Nat /\ FrameOffset(i) \in Nat
    BY <1>2, <1>4, Offsets
  <2> HIDE DEF i, c, G
  <2> QED
    BY <1>1, <1>2, <1>3, <1>5, <1>6, <2>1, <2>2
<1>8. FrameLen(n, i) \in 0..FrameSize /\ (i < c - 1 => FrameLen(n, i) = FrameSize)
  BY <1>2, <1>4, <1>7, FrameExtent
<1>9. j \in 1..FrameLen(n, i) + TagLen /\ x = FrameOffset(i) + j
  <2>1. FrameOffset(i) \in Nat
    BY <1>2, Offsets
  <2>2. x \in Nat /\ x <= CiphertextSize(n)
    BY <1>1, <1>5
  <2>3. j >= 1 /\ j <= G
    <3> HIDE DEF i, c
    <3> QED
      BY <1>1, <1>2, <1>3, <2>1, <2>2
  <2>4. CASE i < c - 1
    <3> HIDE DEF i, c
    <3> QED
      BY <1>1, <1>8, <2>1, <2>2, <2>3, <2>4
  <2>5. CASE i = c - 1
    <3>1. x <= FrameOffset(i) + FrameLen(n, i) + TagLen
      BY <1>5, <2>2, <2>5
    <3> HIDE DEF i, c
    <3> QED
      BY <1>1, <1>8, <2>1, <2>2, <2>3, <3>1
  <2> HIDE DEF j, G
  <2> QED
    BY <1>2, <1>4, <1>7, <2>4, <2>5
<1>10. i \in 0..c - 1
  BY <1>2, <1>4, <1>7
<1> HIDE DEF j, i, c
<1> QED
  BY <1>9, <1>10 DEF i, c

\* A position in frame i is found again.
LEMMA PositionInFrame ==
    ASSUME NEW n \in Nat, NEW i \in Nat, i < FrameCount(n),
           NEW j \in 1..FrameLen(n, i) + TagLen, NEW x, x = FrameOffset(i) + j
    PROVE  /\ x \in HeaderSize + 1..CiphertextSize(n)
           /\ (x - HeaderSize - 1) \div (FrameSize + TagLen) = i
<1> DEFINE G == FrameSize + TagLen
           o == FrameOffset(i)
           l == FrameLen(n, i)
           c == FrameCount(n)
<1>1. /\ G \in Nat /\ G > 0 /\ HeaderSize \in Nat /\ TagLen \in Nat /\ FrameSize \in Nat
  BY Sizes
<1>2. l \in 0..FrameSize /\ o \in Nat /\ o >= HeaderSize /\ o = HeaderSize + i * G
      /\ i * G \in Nat
  BY <1>1, FrameExtent, Offsets, ProductNat DEF FrameOffset
<1>3. c \in Nat /\ c >= 1 /\ c - 1 \in Nat /\ c - 1 < c
  BY FramesCover
<1>4. /\ FrameOffset(c - 1) + FrameLen(n, c - 1) + TagLen = CiphertextSize(n)
      /\ CiphertextSize(n) \in Nat
  BY LastFrameEnds
<1>5. FrameLen(n, c - 1) \in 0..FrameSize /\ FrameOffset(c - 1) \in Nat
  BY <1>3, FrameExtent, Offsets
<1>6. o + l + TagLen <= CiphertextSize(n)
  <2>1. CASE i = c - 1
    BY <1>2, <1>4, <2>1
  <2>2. CASE i < c - 1
    <3>1. o + FrameSize + TagLen <= FrameOffset(c - 1)
      BY <1>3, <2>2, OffsetOrder
    <3> HIDE DEF o, l, c
    <3> QED
      BY <1>1, <1>2, <1>4, <1>5, <3>1
  <2> QED
    BY <1>3, <2>1, <2>2
<1>7. j \in 1..l + TagLen /\ x = o + j
  OBVIOUS
<1> HIDE DEF G, o, l, c
<1>8. x - HeaderSize - 1 = i * G + (j - 1) /\ j - 1 \in 0..G - 1
      /\ x - HeaderSize - 1 \in Nat
  <2>1. G = FrameSize + TagLen
    BY DEF G
  <2> QED
    BY <1>1, <1>2, <1>7, <2>1
<1>9. (x - HeaderSize - 1) \div G = i
  BY <1>1, <1>8, QuotientIs
<1>10. x \in HeaderSize + 1..CiphertextSize(n)
  BY <1>1, <1>2, <1>4, <1>6, <1>7
<1> QED
  BY <1>9, <1>10 DEF G

LEMMA BlobIs ==
    ASSUME NEW v \in Version, NEW n \in Nat
    PROVE  /\ Blob(v, n) \in Seq(Stored) /\ Len(Blob(v, n)) = CiphertextSize(n)
           /\ \A x \in 1..HeaderSize : Blob(v, n)[x] = <<v, -1, HeaderSize, x>>
           /\ \A i \in 0..FrameCount(n) - 1 : \A j \in 1..FrameLen(n, i) + TagLen :
                 Blob(v, n)[FrameOffset(i) + j] = <<v, i, FrameLen(n, i), j>>
<1> DEFINE B == Blob(v, n)
           At(x) == LET i == (x - HeaderSize - 1) \div (FrameSize + TagLen)
                    IN Seal(v, i, FrameLen(n, i))[x - FrameOffset(i)]
<1>1. CiphertextSize(n) \in Nat /\ CiphertextSize(n) >= HeaderSize /\ FrameCount(n) \in Nat
  BY LastFrameEnds, FramesCover
<1>2. B = [x \in 1..CiphertextSize(n) |-> IF x <= HeaderSize THEN Header(v)[x] ELSE At(x)]
  BY LastFrameEnds DEF Blob
<1> HIDE DEF B
<1>3. ASSUME NEW x \in 1..HeaderSize PROVE B[x] = <<v, -1, HeaderSize, x>>
  <2>1. x \in 1..CiphertextSize(n) /\ x <= HeaderSize
    BY <1>1, Sizes
  <2> QED
    BY <1>2, <2>1 DEF Header
<1>4. ASSUME NEW i \in 0..FrameCount(n) - 1, NEW j \in 1..FrameLen(n, i) + TagLen
      PROVE  B[FrameOffset(i) + j] = <<v, i, FrameLen(n, i), j>>
  <2> DEFINE x == FrameOffset(i) + j
  <2>1. i \in Nat /\ i < FrameCount(n)
    BY <1>1
  <2>2. FrameOffset(i) \in Nat /\ j \in Int
    BY <2>1, Offsets, FrameExtent, Sizes
  <2>3. x - FrameOffset(i) = j /\ x = FrameOffset(i) + j
    BY <2>2
  <2> HIDE DEF x
  <2>4. /\ x \in HeaderSize + 1..CiphertextSize(n)
        /\ (x - HeaderSize - 1) \div (FrameSize + TagLen) = i
    BY <2>1, <2>3, PositionInFrame
  <2>5. x \in 1..CiphertextSize(n) /\ ~(x <= HeaderSize)
    BY <1>1, <2>4, Sizes
  <2>6. B[x] = At(x)
    BY <1>2, <2>5
  <2>7. At(x) = Seal(v, i, FrameLen(n, i))[j]
    BY <2>3, <2>4
  <2>8. Seal(v, i, FrameLen(n, i))[j] = <<v, i, FrameLen(n, i), j>>
    BY DEF Seal
  <2> QED
    BY <2>6, <2>7, <2>8 DEF x
<1>5. ASSUME NEW x \in 1..CiphertextSize(n) PROVE B[x] \in Stored
  <2>1. CASE x <= HeaderSize
    <3>1. x \in 1..HeaderSize
      BY <1>1, <2>1, Sizes
    <3> QED
      BY <1>3, <3>1, Sizes DEF Stored
  <2>2. CASE x > HeaderSize
    <3>1. x \in HeaderSize + 1..CiphertextSize(n)
      BY <1>1, <2>2, Sizes
    <3>2. PICK i \in 0..FrameCount(n) - 1 : \E j \in 1..FrameLen(n, i) + TagLen :
               x = FrameOffset(i) + j
      BY <3>1, FrameOfPosition
    <3>3. PICK j \in 1..FrameLen(n, i) + TagLen : x = FrameOffset(i) + j
      BY <3>2
    <3>4. B[x] = <<v, i, FrameLen(n, i), j>>
      BY <1>4, <3>3
    <3>5. FrameLen(n, i) \in Nat
      BY <1>1, FrameExtent, Sizes
    <3> QED
      BY <3>4, <3>5 DEF Stored
  <2> QED
    BY <1>1, <2>1, <2>2, Sizes
<1> HIDE DEF At
<1>6. DOMAIN B = 1..CiphertextSize(n)
  BY <1>2
<1>7. B \in [1..CiphertextSize(n) -> Stored]
  <2>1. B = [x \in 1..CiphertextSize(n) |-> B[x]]
    BY <1>2
  <2> QED
    BY <1>5, <2>1
<1>8. B \in Seq(Stored) /\ Len(B) = CiphertextSize(n)
  BY <1>1, <1>6, <1>7, SeqDef
<1> QED
  BY <1>3, <1>4, <1>8 DEF B

LEMMA SealIs ==
    ASSUME NEW v, NEW i, NEW m \in Nat
    PROVE  /\ DOMAIN Seal(v, i, m) = 1..m + TagLen
           /\ \A j \in 1..m + TagLen : Seal(v, i, m)[j] = <<v, i, m, j>>
  BY DEF Seal

\* decrypter and DecryptRange find in an undamaged message the frames that the encrypter
\* has written, whether they ask for a full frame or for what CiphertextSize leaves.
LEMMA FrameFound ==
    ASSUME NEW v \in Version, NEW n \in Nat, NEW i \in Nat, i < FrameCount(n),
           NEW k \in FrameLen(n, i) + TagLen..FrameSize + TagLen
    PROVE  /\ Piece(Blob(v, n), FrameOffset(i), k) = Seal(v, i, FrameLen(n, i))
           /\ Len(Piece(Blob(v, n), FrameOffset(i), k)) = FrameLen(n, i) + TagLen
<1> DEFINE B == Blob(v, n)
           o == FrameOffset(i)
           m == FrameLen(n, i)
           c == FrameCount(n)
           P == Piece(B, o, k)
<1>1. /\ HeaderSize \in Nat /\ TagLen \in Nat /\ FrameSize \in Nat /\ TagLen > 0
      /\ o \in Nat /\ m \in 0..FrameSize /\ c \in Nat
  BY Sizes, Offsets, FrameExtent, FramesCover
<1>2. k \in Nat /\ k >= m + TagLen /\ k <= FrameSize + TagLen
  BY <1>1
<1>3. /\ B \in Seq(Stored) /\ Len(B) = CiphertextSize(n) /\ CiphertextSize(n) \in Nat
      /\ \A j \in 1..m + TagLen : B[o + j] = <<v, i, m, j>>
  <2>1. i \in 0..c - 1
    BY <1>1
  <2> QED
    BY <2>1, BlobIs, LastFrameEnds
<1>4. o + m + TagLen <= Len(B) /\ Least(o + k, Len(B)) = o + m + TagLen
  <2>1. CASE i < c - 1
    <3>1. m = FrameSize
      BY <2>1, FrameExtent
    <3>2. c - 1 \in Nat /\ c - 1 < c
      BY <1>1
    <3>3. o + FrameSize + TagLen <= FrameOffset(c - 1)
      BY <2>1, <3>2, OffsetOrder
    <3>4. FrameOffset(c - 1) + FrameLen(n, c - 1) + TagLen = Len(B)
      BY <1>3, LastFrameEnds
    <3>5. FrameOffset(c - 1) \in Nat /\ FrameLen(n, c - 1) \in Nat
      BY <1>1, <3>2, Offsets, FrameExtent
    <3> HIDE DEF B, o, m, c
    <3> QED
      BY SMTT(30), <1>1, <1>2, <1>3, <3>1, <3>3, <3>4, <3>5 DEF Least
  <2>2. CASE i = c - 1
    <3>1. o + m + TagLen = Len(B)
      BY <1>3, <2>2, LastFrameEnds
    <3> HIDE DEF B, o, m, c
    <3> QED
      BY <1>1, <1>2, <1>3, <3>1 DEF Least
  <2> QED
    BY <1>1, <2>1, <2>2
<1> HIDE DEF B, o, m, c
<1>5. /\ P \in Seq(Stored)
      /\ Len(P) = IF o <= Len(B) THEN Least(o + k, Len(B)) - o ELSE 0
      /\ \A j \in 1..Len(P) : o + j \in 1..Len(B) /\ P[j] = B[o + j]
  BY <1>1, <1>2, <1>3, PieceIs
<1> HIDE DEF P
<1>6. Len(P) = m + TagLen
  BY <1>1, <1>3, <1>4, <1>5
<1>7. \A j \in 1..m + TagLen : P[j] = <<v, i, m, j>>
  BY <1>3, <1>5, <1>6
<1>8. DOMAIN P = 1..m + TagLen
  BY <1>5, <1>6, LenProperties
<1>9. P = Seal(v, i, m)
  <2>1. P = [j \in 1..m + TagLen |-> P[j]]
    BY <1>5, <1>8, LenProperties
  <2> QED
    BY <1>7, <2>1 DEF Seal
<1> QED
  BY <1>6, <1>9 DEF P, B, o, m

LEMMA HeaderFound ==
    ASSUME NEW v \in Version, NEW n \in Nat
    PROVE  Piece(Blob(v, n), 0, HeaderSize) = Header(v)
<1> DEFINE B == Blob(v, n)
           P == Piece(B, 0, HeaderSize)
<1>1. /\ B \in Seq(Stored) /\ Len(B) = CiphertextSize(n)
      /\ \A x \in 1..HeaderSize : B[x] = <<v, -1, HeaderSize, x>>
  BY BlobIs
<1>2. HeaderSize \in Nat /\ CiphertextSize(n) \in Nat /\ CiphertextSize(n) >= HeaderSize
  BY Sizes, LastFrameEnds
<1> HIDE DEF B
<1>3. /\ P \in Seq(Stored)
      /\ Len(P) = IF 0 <= Len(B) THEN Least(0 + HeaderSize, Len(B)) - 0 ELSE 0
      /\ \A j \in 1..Len(P) : P[j] = B[0 + j]
  BY <1>1, <1>2, PieceIs
<1> HIDE DEF P
<1>4. Len(P) = HeaderSize
  BY <1>1, <1>2, <1>3 DEF Least
<1>5. P = [j \in 1..HeaderSize |-> P[j]]
  BY <1>3, <1>4, LenProperties
<1>6. \A j \in 1..HeaderSize : P[j] = <<v, -1, HeaderSize, j>>
  BY <1>1, <1>2, <1>3, <1>4
<1> QED
  BY <1>5, <1>6 DEF P, B, Header

\* The backend takes all that the encrypter writes.
LEMMA WholeBlobTaken ==
    ASSUME NEW v \in Version, NEW n \in Nat
    PROVE  Piece(Blob(v, n), 0, CiphertextSize(n)) = Blob(v, n)
<1> DEFINE B == Blob(v, n)
<1>1. B \in Seq(Stored) /\ Len(B) = CiphertextSize(n) /\ CiphertextSize(n) \in Nat
  BY BlobIs, LastFrameEnds
<1> HIDE DEF B
<1>2. Least(0 + CiphertextSize(n), Len(B)) = Len(B)
  BY <1>1 DEF Least
<1>3. Piece(B, 0, CiphertextSize(n)) = SubSeq(B, 1, Len(B))
  BY <1>2 DEF Piece
<1> QED
  BY <1>1, <1>3, SubSeqFull DEF B

-----------------------------------------------------------------------------
(* Messages *)

LEMMA RowsAreVersions ==
    ASSUME StoreInv
    PROVE  /\ MaxVersions \in Nat /\ row \in Nat
           /\ \A v \in 1..row : v \in Version /\ size[v] \in Nat
  BY ReadBoundAssumption DEF StoreInv, Version

\* The bytes of a blob behind its header are those of its frames.
LEMMA BlobMade ==
    ASSUME NEW v \in Version, NEW n \in Nat, NEW x \in 1..Len(Blob(v, n)),
           NEW b, b = Blob(v, n)[x]
    PROVE  b[2] # -1 => /\ b[1] = v
                        /\ b[2] \in 0..FrameCount(n) - 1
                        /\ b[3] = FrameLen(n, b[2])
<1> DEFINE B == Blob(v, n)
<1>1. /\ B \in Seq(Stored) /\ Len(B) = CiphertextSize(n)
      /\ \A y \in 1..HeaderSize : B[y] = <<v, -1, HeaderSize, y>>
      /\ \A i \in 0..FrameCount(n) - 1 : \A j \in 1..FrameLen(n, i) + TagLen :
            B[FrameOffset(i) + j] = <<v, i, FrameLen(n, i), j>>
  BY BlobIs
<1>2. x \in 1..Len(B) /\ b = B[x] /\ CiphertextSize(n) \in Nat
  BY LastFrameEnds
<1> HIDE DEF B
<1>3. CASE x <= HeaderSize
  <2>1. B[x] = <<v, -1, HeaderSize, x>>
    BY <1>1, <1>2, <1>3, Sizes
  <2> QED
    BY <1>2, <2>1
<1>4. CASE x > HeaderSize
  <2>1. x \in HeaderSize + 1..CiphertextSize(n)
    BY <1>1, <1>2, <1>4, Sizes
  <2>2. PICK i \in 0..FrameCount(n) - 1 : \E j \in 1..FrameLen(n, i) + TagLen :
             x = FrameOffset(i) + j
    BY <2>1, FrameOfPosition
  <2>3. B[x] = <<v, i, FrameLen(n, i), B[x][4]>>
    BY <1>1, <2>2
  <2> QED
    BY <1>2, <2>3
<1> QED
  BY <1>1, <1>2, <1>3, <1>4, Sizes

\* Whatever has been done to a message, what opens is a frame of the version as it was
\* stored.
LEMMA OpenedFrame ==
    ASSUME StoreInv, NEW v, NEW i \in Nat, NEW s \in Seq(Stored),
           \A x \in 1..Len(s) : Made(s[x]), Opens(v, i, s)
    PROVE  /\ v \in 1..row /\ i < FrameCount(size[v])
           /\ Len(s) = FrameLen(size[v], i) + TagLen
           /\ Plain(s) \in Seq(Byte) /\ Len(Plain(s)) = FrameLen(size[v], i)
           /\ \A j \in 1..FrameLen(size[v], i) : Plain(s)[j] = <<v, i * FrameSize + j - 1>>
<1> DEFINE m == Len(s) - TagLen
<1>1. Len(s) \in Nat /\ TagLen \in Nat /\ TagLen > 0 /\ m \in Nat /\ Len(s) = m + TagLen
  BY Sizes, LenProperties DEF Opens
<1>2. s = Seal(v, i, m)
  BY DEF Opens
<1> HIDE DEF m
<1>3. \A j \in 1..m + TagLen : s[j] = <<v, i, m, j>>
  BY <1>1, <1>2, SealIs
<1>4. 1 \in 1..Len(s) /\ s[1] = <<v, i, m, 1>> /\ Made(s[1])
  BY <1>1, <1>3
<1>5. v \in 1..row /\ i \in 0..FrameCount(size[v]) - 1 /\ m = FrameLen(size[v], i)
  <2>1. s[1][1] = v /\ s[1][2] = i /\ s[1][3] = m /\ i # -1
    BY <1>4
  <2> QED
    BY <1>4, <2>1 DEF Made
<1>6. v \in Version /\ size[v] \in Nat
  BY <1>5, RowsAreVersions
<1>7. i < FrameCount(size[v])
  <2>1. FrameCount(size[v]) \in Nat
    BY <1>6, FramesCover
  <2> QED
    BY <1>5, <2>1
<1>8. Plain(s) = [j \in 1..m |-> <<v, i * FrameSize + j - 1>>]
  <2>1. Plain(s) = [j \in 1..m |-> <<s[j][1], s[j][2] * FrameSize + j - 1>>]
    BY DEF Plain, m
  <2>2. \A j \in 1..m : s[j][1] = v /\ s[j][2] = i
    BY <1>1, <1>3
  <2> QED
    BY <2>1, <2>2
<1>9. ASSUME NEW j \in 1..m PROVE <<v, i * FrameSize + j - 1>> \in Byte
  <2>1. i * FrameSize \in Nat
    BY Sizes, ProductNat
  <2>2. i * FrameSize + j - 1 \in Nat
    BY <1>1, <2>1
  <2> QED
    BY <1>6, <2>2 DEF Byte
<1>10. Plain(s) \in [1..m -> Byte]
  BY <1>8, <1>9
<1>11. Plain(s) \in Seq(Byte) /\ Len(Plain(s)) = m
  BY <1>1, <1>8, <1>10, SeqDef
<1>12. \A j \in 1..m : Plain(s)[j] = <<v, i * FrameSize + j - 1>>
  BY <1>8
<1> QED
  BY <1>1, <1>5, <1>7, <1>11, <1>12

-----------------------------------------------------------------------------
(* Ranges *)

LEMMA RangeForms ==
    ASSUME NEW r \in RangeHeader
    PROVE  \/ r = <<"none">>
           \/ r = <<"bad">>
           \/ \E lo \in Nat, hi \in Nat : r = <<"span", lo, hi>>
           \/ \E lo \in Nat : r = <<"from", lo>>
           \/ \E n \in Nat : r = <<"suffix", n>>
  BY ReadBoundAssumption DEF RangeHeader

\* What parseRange resolves is what the header asks for.
LEMMA RangeResolved ==
    ASSUME NEW r \in RangeHeader, r # <<"none">>, NEW n \in Nat
    PROVE  LET p == ParseRange(r, n) IN
           \/ p = <<>> /\ Asked(r, n) = {}
           \/ /\ p # <<>> /\ p[1] \in Nat /\ p[2] \in Nat /\ p[1] <= p[2] /\ p[2] < n
              /\ Asked(r, n) = p[1]..p[2]
<1>1. CASE r = <<"bad">>
  <2>1. ParseRange(r, n) = <<>>
    BY <1>1 DEF ParseRange
  <2>2. Asked(r, n) = {}
    BY <1>1 DEF Asked
  <2> QED
    BY <2>1, <2>2
<1>2. ASSUME NEW lo \in Nat, NEW hi \in Nat, r = <<"span", lo, hi>>
      PROVE  LET p == ParseRange(r, n) IN
             \/ p = <<>> /\ Asked(r, n) = {}
             \/ /\ p # <<>> /\ p[1] \in Nat /\ p[2] \in Nat /\ p[1] <= p[2] /\ p[2] < n
                /\ Asked(r, n) = p[1]..p[2]
  <2>1. Asked(r, n) = {x \in 0..n - 1 : lo <= x /\ x <= hi}
    BY <1>2 DEF Asked
  <2>2. CASE lo <= hi /\ lo < n
    <3>1. ParseRange(r, n) = <<lo, Least(hi, n - 1)>>
      BY <1>2, <2>2 DEF ParseRange
    <3>2. /\ Least(hi, n - 1) \in Nat /\ lo <= Least(hi, n - 1) /\ Least(hi, n - 1) < n
          /\ {x \in 0..n - 1 : lo <= x /\ x <= hi} = lo..Least(hi, n - 1)
      BY <2>2 DEF Least
    <3> HIDE DEF Least
    <3> QED
      BY <2>1, <3>1, <3>2
  <2>3. CASE ~(lo <= hi /\ lo < n)
    <3>1. ParseRange(r, n) = <<>>
      BY <1>2, <2>3 DEF ParseRange
    <3> QED
      BY <2>1, <2>3, <3>1
  <2> QED
    BY <2>2, <2>3
<1>3. ASSUME NEW lo \in Nat, r = <<"from", lo>>
      PROVE  LET p == ParseRange(r, n) IN
             \/ p = <<>> /\ Asked(r, n) = {}
             \/ /\ p # <<>> /\ p[1] \in Nat /\ p[2] \in Nat /\ p[1] <= p[2] /\ p[2] < n
                /\ Asked(r, n) = p[1]..p[2]
  <2>1. Asked(r, n) = {x \in 0..n - 1 : lo <= x}
    BY <1>3 DEF Asked
  <2>2. CASE lo < n
    <3>1. ParseRange(r, n) = <<lo, n - 1>>
      BY <1>3, <2>2 DEF ParseRange
    <3> QED
      BY <2>1, <2>2, <3>1
  <2>3. CASE ~(lo < n)
    <3>1. ParseRange(r, n) = <<>>
      BY <1>3, <2>3 DEF ParseRange
    <3> QED
      BY <2>1, <2>3, <3>1
  <2> QED
    BY <2>2, <2>3
<1>4. ASSUME NEW k \in Nat, r = <<"suffix", k>>
      PROVE  LET p == ParseRange(r, n) IN
             \/ p = <<>> /\ Asked(r, n) = {}
             \/ /\ p # <<>> /\ p[1] \in Nat /\ p[2] \in Nat /\ p[1] <= p[2] /\ p[2] < n
                /\ Asked(r, n) = p[1]..p[2]
  <2>1. Asked(r, n) = {x \in 0..n - 1 : n - k <= x}
    BY <1>4 DEF Asked
  <2>2. CASE k > 0 /\ n > 0
    <3>1. ParseRange(r, n) = <<n - Least(k, n), n - 1>>
      BY <1>4, <2>2 DEF ParseRange
    <3>2. /\ n - Least(k, n) \in Nat /\ n - Least(k, n) <= n - 1
          /\ {x \in 0..n - 1 : n - k <= x} = n - Least(k, n)..n - 1
      BY <2>2 DEF Least
    <3> QED
      BY <2>1, <2>2, <3>1, <3>2
  <2>3. CASE ~(k > 0 /\ n > 0)
    <3>1. ParseRange(r, n) = <<>>
      BY <1>4, <2>3 DEF ParseRange
    <3> QED
      BY <2>1, <2>3, <3>1
  <2> QED
    BY <2>2, <2>3
<1> QED
  BY <1>1, <1>2, <1>3, <1>4, RangeForms

\* An answer that is one run of bytes is the bytes of that interval.
LEMMA RunIsBytesAt ==
    ASSUME NEW v, NEW a \in Nat, NEW b \in Int, b >= a - 1,
           NEW out \in Seq(Byte), Len(out) = b - a + 1, RunOf(out, v, a)
    PROVE  out = BytesAt(v, a..b)
<1> DEFINE S == a..b
           least == CHOOSE x \in S : \A y \in S : x <= y
<1>1. Cardinality(S) = b - a + 1
  BY FS_Interval
<1>2. S # {} => least = a
  <2> SUFFICES ASSUME S # {} PROVE least = a
    OBVIOUS
  <2>1. a \in S /\ \A y \in S : a <= y
    OBVIOUS
  <2>2. least \in S /\ \A y \in S : least <= y
    BY <2>1
  <2> QED
    BY <2>1, <2>2
<1>3. BytesAt(v, S) = [x \in 1..Cardinality(S) |-> <<v, least + x - 1>>]
  BY DEF BytesAt
<1>4. CASE b >= a
  <2>1. a \in S
    BY <1>4
  <2>2. least = a
    BY <1>2, <2>1
  <2> HIDE DEF S, least
  <2>3. BytesAt(v, S) = [x \in 1..b - a + 1 |-> <<v, a + x - 1>>]
    BY <1>1, <1>3, <2>2
  <2>4. out = [x \in 1..b - a + 1 |-> out[x]]
    BY LenProperties
  <2>5. \A x \in 1..b - a + 1 : out[x] = <<v, a + x - 1>>
    BY DEF RunOf
  <2>6. out = BytesAt(v, S)
    BY <2>3, <2>4, <2>5
  <2> QED
    BY <2>6 DEF S
<1>5. CASE ~(b >= a)
  <2>1. b - a + 1 = 0
    BY <1>5
  <2> HIDE DEF S, least
  <2>2. BytesAt(v, S) = [x \in 1..0 |-> <<v, least + x - 1>>]
    BY <1>1, <1>3, <2>1
  <2>3. out = <<>> /\ BytesAt(v, S) = <<>>
    BY <2>1, <2>2, EmptySeq
  <2> QED
    BY <2>3 DEF S
<1> QED
  BY <1>4, <1>5

-----------------------------------------------------------------------------
(* What is stored while a GET runs *)

\* Objects are stored and messages are damaged; rows keep the size of their version.
Grown ==
    /\ row' \in Nat /\ row <= row' /\ damaged \subseteq damaged'
    /\ \A v \in 1..row : size'[v] = size[v]

LEMMA MadeStays ==
    ASSUME StoreInv, Grown, NEW b, Made(b)
    PROVE  Made(b)'
<1> SUFFICES ASSUME b[2] # -1
             PROVE  /\ b[1] \in 1..row'
                    /\ b[2] \in 0..FrameCount(size'[b[1]]) - 1
                    /\ b[3] = FrameLen(size'[b[1]], b[2])
  BY DEF Made
<1>1. b[1] \in 1..row /\ row \in Nat
  BY RowsAreVersions DEF Made
<1>2. size'[b[1]] = size[b[1]] /\ b[1] \in 1..row'
  BY <1>1 DEF Grown
<1> QED
  BY <1>2 DEF Made

LEMMA MessageStays ==
    ASSUME StoreInv, Grown, NEW v \in 1..row, NEW blob, MessageOf(v, blob)
    PROVE  MessageOf(v, blob)'
<1>1. blob \in Seq(Stored)
  BY DEF MessageOf
<1>2. \A x \in 1..Len(blob) : Made(blob[x])'
  BY MadeStays DEF MessageOf
<1>3. v \notin damaged' => blob = Blob(v, size'[v])
  BY DEF MessageOf, Grown
<1> QED
  BY <1>1, <1>2, <1>3 DEF MessageOf

LEMMA StoreStep ==
    ASSUME StoreInv, NEW n \in Nat, Store(n)
    PROVE  StoreInv' /\ Grown
<1>1. /\ row < MaxVersions /\ row' = row + 1
      /\ size' = [size EXCEPT ![row + 1] = n]
      /\ content' = [content EXCEPT ![row + 1] = Piece(Blob(row + 1, n), 0, CiphertextSize(n))]
      /\ damaged' = damaged
  BY DEF Store
<1>2. /\ MaxVersions \in Nat /\ row \in Nat /\ row + 1 \in Version
      /\ \A v \in 1..row : v \in Version /\ v # row + 1
  BY <1>1, RowsAreVersions DEF Version
<1>3. size' \in [Version -> Nat] /\ size'[row + 1] = n /\ \A v \in 1..row : size'[v] = size[v]
  BY <1>1, <1>2 DEF StoreInv
<1>4. Grown
  BY <1>1, <1>2, <1>3 DEF Grown
<1>5. Blob(row + 1, n) \in Seq(Stored)
  BY <1>2, BlobIs
<1>6. /\ content' \in [Version -> Seq(Stored)] /\ content'[row + 1] = Blob(row + 1, n)
      /\ \A v \in 1..row : content'[v] = content[v]
  <2>1. Piece(Blob(row + 1, n), 0, CiphertextSize(n)) = Blob(row + 1, n)
    BY <1>2, WholeBlobTaken
  <2> QED
    BY <1>1, <1>2, <1>5, <2>1 DEF StoreInv
<1>7. ASSUME NEW v \in 1..row' PROVE \E blob : blob = content'[v] /\ MessageOf(v, blob)'
  <2>1. CASE v \in 1..row
    <3>1. MessageOf(v, content[v])
      BY <2>1 DEF StoreInv
    <3>2. PICK blob : blob = content[v]
      OBVIOUS
    <3>3. MessageOf(v, blob)'
      BY <1>4, <2>1, <3>1, <3>2, MessageStays
    <3> QED
      BY <1>6, <2>1, <3>2, <3>3
  <2>2. CASE v = row + 1
    <3>1. PICK blob : blob = Blob(v, n)
      OBVIOUS
    <3>2. blob = content'[v] /\ size'[v] = n
      BY <1>3, <1>6, <2>2, <3>1
    <3> v \in Version
      BY <1>2, <2>2
    <3>3. ASSUME NEW x \in 1..Len(blob), blob[x][2] # -1
          PROVE  /\ blob[x][1] \in 1..row'
                 /\ blob[x][2] \in 0..FrameCount(size'[blob[x][1]]) - 1
                 /\ blob[x][3] = FrameLen(size'[blob[x][1]], blob[x][2])
      <4>1. /\ blob[x][1] = v
            /\ blob[x][2] \in 0..FrameCount(n) - 1
            /\ blob[x][3] = FrameLen(n, blob[x][2])
        BY SMTT(30), <3>1, <3>3, BlobMade
      <4>2. size'[blob[x][1]] = n
        BY <3>2, <4>1
      <4>3. v \in 1..row'
        OBVIOUS
      <4> QED
        BY <4>1, <4>2, <4>3
    <3>4. \A x \in 1..Len(blob) : Made(blob[x])'
      BY <3>3 DEF Made
    <3>5. blob \in Seq(Stored) /\ blob = Blob(v, size'[v])
      BY <1>5, <2>2, <3>1, <3>2
    <3> QED
      BY <3>2, <3>4, <3>5 DEF MessageOf
  <2> QED
    BY <1>1, <1>2, <2>1, <2>2
<1>8. row' \in 0..MaxVersions /\ damaged' \subseteq 1..row'
  BY <1>1, <1>2 DEF StoreInv
<1>9. \A v \in 1..row' : MessageOf(v, content[v])'
  BY <1>7 DEF MessageOf
<1> QED
  BY <1>3, <1>4, <1>6, <1>8, <1>9 DEF StoreInv

AllMade(s) == s \in Seq(Stored) /\ \A x \in 1..Len(s) : Made(s[x])

LEMMA PieceMade ==
    ASSUME NEW s, AllMade(s), NEW o \in Nat, NEW n \in Nat
    PROVE  AllMade(Piece(s, o, n))
<1>1. /\ Piece(s, o, n) \in Seq(Stored)
      /\ \A j \in 1..Len(Piece(s, o, n)) :
            o + j \in 1..Len(s) /\ Piece(s, o, n)[j] = s[o + j]
  BY PieceIs DEF AllMade
<1> QED
  BY <1>1 DEF AllMade

LEMMA ConcatMade ==
    ASSUME NEW s, AllMade(s), NEW t, AllMade(t)
    PROVE  AllMade(s \o t)
<1>1. /\ s \o t \in Seq(Stored) /\ Len(s \o t) = Len(s) + Len(t)
      /\ \A i \in 1..Len(s) + Len(t) :
            (s \o t)[i] = IF i <= Len(s) THEN s[i] ELSE t[i - Len(s)]
      /\ Len(s) \in Nat /\ Len(t) \in Nat
  BY ConcatProperties, LenProperties DEF AllMade
<1>2. ASSUME NEW i \in 1..Len(s) + Len(t) PROVE Made((s \o t)[i])
  <2>1. CASE i <= Len(s)
    <3>1. i \in 1..Len(s) /\ (s \o t)[i] = s[i]
      BY <1>1, <2>1
    <3> QED
      BY <3>1 DEF AllMade
  <2>2. CASE ~(i <= Len(s))
    <3>1. i - Len(s) \in 1..Len(t) /\ (s \o t)[i] = t[i - Len(s)]
      BY <1>1, <2>2
    <3> QED
      BY <3>1 DEF AllMade
  <2> QED
    BY <2>1, <2>2
<1> QED
  BY <1>1, <1>2 DEF AllMade

LEMMA DamageStep ==
    ASSUME StoreInv, Damage
    PROVE  StoreInv' /\ Grown
<1>1. PICK v \in 1..row \ damaged :
          /\ damaged' = damaged \cup {v}
          /\ \/ \E l \in 0..Len(content[v]) : content' = [content EXCEPT ![v] = SubSeq(@, 1, l)]
             \/ \E i, k \in 0..FrameCount(size[v]) - 1, w \in 1..row :
                   content' = [content EXCEPT ![v] = Spliced(v, i, w, k)]
  BY DEF Damage
<1>2. row' = row /\ size' = size
  BY DEF Damage
<1>3. row \in Nat /\ \A w \in 1..row : w \in Version /\ size[w] \in Nat
  BY RowsAreVersions
<1>4. \A w \in 1..row : AllMade(content[w])
  BY DEF StoreInv, MessageOf, AllMade
<1>5. Grown
  BY <1>1, <1>2, <1>3 DEF Grown
<1>6. PICK s : AllMade(s) /\ content' = [content EXCEPT ![v] = s]
  <2>1. ASSUME NEW l \in 0..Len(content[v]),
               content' = [content EXCEPT ![v] = SubSeq(@, 1, l)]
        PROVE  \E s : AllMade(s) /\ content' = [content EXCEPT ![v] = s]
    <3>1. AllMade(content[v]) /\ Len(content[v]) \in Nat
      BY <1>4, LenProperties DEF AllMade
    <3>2. l \in Nat /\ Least(0 + l, Len(content[v])) = l
      BY <3>1 DEF Least
    <3>3. SubSeq(content[v], 1, l) = Piece(content[v], 0, l)
      BY <3>2 DEF Piece
    <3>4. AllMade(Piece(content[v], 0, l))
      BY <3>1, <3>2, PieceMade
    <3>5. v \in DOMAIN content
      BY <1>1, <1>3 DEF StoreInv
    <3>6. content' = [content EXCEPT ![v] = Piece(content[v], 0, l)]
      BY <2>1, <3>3, <3>5
    <3> QED
      BY <3>4, <3>6
  <2>2. ASSUME NEW i \in 0..FrameCount(size[v]) - 1, NEW k \in 0..FrameCount(size[v]) - 1,
               NEW w \in 1..row, content' = [content EXCEPT ![v] = Spliced(v, i, w, k)]
        PROVE  \E s : AllMade(s) /\ content' = [content EXCEPT ![v] = s]
    <3>1. i \in Nat /\ k \in Nat /\ i + 1 \in Nat /\ FrameSize + TagLen \in Nat
      BY <1>3, FramesCover, Sizes
    <3>2. /\ FrameOffset(i) \in Nat /\ FrameOffset(k) \in Nat /\ FrameOffset(i + 1) \in Nat
          /\ AllMade(content[v]) /\ AllMade(content[w]) /\ Len(content[v]) \in Nat
      BY <1>4, <3>1, Offsets, LenProperties DEF AllMade
    <3>3. /\ AllMade(Piece(content[v], 0, FrameOffset(i)))
          /\ AllMade(Piece(content[w], FrameOffset(k), FrameSize + TagLen))
          /\ AllMade(Piece(content[v], FrameOffset(i + 1), Len(content[v])))
      BY <3>1, <3>2, PieceMade
    <3>4. AllMade(Spliced(v, i, w, k))
      BY <3>3, ConcatMade DEF Spliced
    <3> QED
      BY <2>2, <3>4
  <2> QED
    BY <1>1, <2>1, <2>2
<1>7. /\ content' \in [Version -> Seq(Stored)] /\ content'[v] = s
      /\ \A w \in 1..row \ {v} : content'[w] = content[w]
  BY <1>1, <1>3, <1>6 DEF StoreInv, AllMade
<1>8. ASSUME NEW w \in 1..row' PROVE \E blob : blob = content'[w] /\ MessageOf(w, blob)'
  <2>1. CASE w = v
    <3>1. \A x \in 1..Len(s) : Made(s[x])'
      BY <1>5, <1>6, MadeStays DEF AllMade
    <3>2. MessageOf(w, s)'
      BY <1>1, <1>6, <2>1, <3>1 DEF MessageOf, AllMade
    <3> QED
      BY <1>7, <2>1, <3>2
  <2>2. CASE w # v
    <3>1. w \in 1..row /\ MessageOf(w, content[w])
      BY <1>2 DEF StoreInv
    <3>2. PICK blob : blob = content[w]
      OBVIOUS
    <3>3. MessageOf(w, blob)'
      BY <1>5, <3>1, <3>2, MessageStays
    <3> QED
      BY <1>7, <2>2, <3>1, <3>2, <3>3
  <2> QED
    BY <2>1, <2>2
<1>9. \A w \in 1..row' : MessageOf(w, content[w])'
  BY <1>8 DEF MessageOf
<1>10. row' \in 0..MaxVersions /\ damaged' \subseteq 1..row'
  BY <1>1, <1>2 DEF StoreInv
<1> QED
  BY <1>2, <1>5, <1>7, <1>9, <1>10 DEF StoreInv

\* What a GET knows of the row and of the message stays true.
LEMMA KnowledgeStays ==
    ASSUME ReadInv, Grown, StoreInv', UNCHANGED get
    PROVE  ReadInv'
<1>1. StoreInv /\ get' = get /\ row \in Nat /\ row' \in Nat /\ row <= row'
      /\ damaged \subseteq damaged'
      /\ \A v \in 1..row : v \in 1..row' /\ size'[v] = size[v]
  BY RowsAreVersions DEF ReadInv, Grown
<1>2. Resolved => Resolved'
  <2> SUFFICES ASSUME Resolved PROVE Resolved'
    OBVIOUS
  <2>1. get.head \in 1..row /\ size'[get.head] = size[get.head] /\ get.head \in 1..row'
    BY <1>1 DEF Resolved
  <2> QED
    BY <1>1, <2>1 DEF Resolved
<1>3. Full' <=> Full
  BY <1>1 DEF Full
<1>4. Chosen => Chosen'
  <2> SUFFICES ASSUME Chosen PROVE Chosen'
    OBVIOUS
  <2>1. get.ver \in 1..row /\ size'[get.ver] = size[get.ver] /\ get.ver \in 1..row'
    BY <1>1 DEF Chosen
  <2> QED
    BY <1>1, <1>2, <1>3, <2>1 DEF Chosen
<1>5. get.pc \in {"stream", "range"} => MessageOf(get.ver, get.blob)'
  <2> SUFFICES ASSUME get.pc \in {"stream", "range"} PROVE MessageOf(get.ver, get.blob)'
    OBVIOUS
  <2>1. PICK v, blob : v = get.ver /\ blob = get.blob
    OBVIOUS
  <2>2. v \in 1..row /\ MessageOf(v, blob)
    BY <2>1 DEF ReadInv, AtStep, Chosen
  <2>3. MessageOf(v, blob)'
    BY <1>1, <2>2, MessageStays
  <2> QED
    BY <1>1, <2>1, <2>3 DEF MessageOf
<1>6. ASSUME get.pc = "stream"
      PROVE  /\ Full'
             /\ get'.frame \in 0..FrameCount(size'[get'.ver])
             /\ Len(get'.out) = Least(get'.frame * FrameSize, size'[get'.ver])
             /\ RunOf(get'.out, get'.ver, 0)
  <2>1. get.ver \in 1..row
    BY <1>6 DEF ReadInv, AtStep, Chosen
  <2>2. size'[get'.ver] = size[get.ver]
    BY <1>1, <2>1
  <2> QED
    BY <1>1, <1>3, <1>6, <2>2 DEF ReadInv, AtStep
<1>7. AtStep'
  BY <1>1, <1>2, <1>3, <1>4, <1>5, <1>6 DEF ReadInv, AtStep
<1>8. get.answer = "InvalidRange" =>
          /\ ~Full' /\ get'.head \in 1..row'
          /\ Asked(get'.range, size'[get'.head]) = {} \/ get'.ver > get'.head
  <2> SUFFICES ASSUME get.answer = "InvalidRange"
               PROVE  /\ ~Full' /\ get'.head \in 1..row'
                      /\ Asked(get'.range, size'[get'.head]) = {} \/ get'.ver > get'.head
    OBVIOUS
  <2>1. /\ ~Full /\ get.head \in 1..row
        /\ Asked(get.range, size[get.head]) = {} \/ get.ver > get.head
    BY DEF ReadInv, Answered
  <2>2. size'[get'.head] = size[get.head]
    BY <1>1, <2>1
  <2> QED
    BY <1>1, <1>3, <2>1, <2>2
<1>9. Answered'
  BY <1>1, <1>3, <1>4, <1>8 DEF ReadInv, Answered
<1> QED
  BY <1>1, <1>7, <1>9 DEF ReadInv, GetState

-----------------------------------------------------------------------------
(* The steps of a GET *)

StoreSame == UNCHANGED <<row, size, content, damaged>>

LEMMA StoreInvSame ==
    ASSUME StoreInv, StoreSame
    PROVE  /\ StoreInv'
           /\ \A v, blob : MessageOf(v, blob) => MessageOf(v, blob)'
           /\ row' = row /\ size' = size /\ damaged' = damaged
<1>1. row' = row /\ size' = size /\ content' = content /\ damaged' = damaged
  BY DEF StoreSame
<1>2. \A b : Made(b)' <=> Made(b)
  BY <1>1 DEF Made
<1>3. \A v, blob : MessageOf(v, blob)' <=> MessageOf(v, blob)
  BY <1>1, <1>2 DEF MessageOf
<1>4. \A v \in 1..row' : MessageOf(v, content[v])'
  <2> TAKE v \in 1..row'
  <2>1. PICK blob : blob = content[v]
    OBVIOUS
  <2>2. MessageOf(v, blob)'
    BY <1>1, <1>3, <2>1 DEF StoreInv
  <2> QED
    BY <1>1, <2>1, <2>2 DEF MessageOf
<1> QED
  BY <1>1, <1>3, <1>4 DEF StoreInv

LEMMA BeginGetStep ==
    ASSUME ReadInv, BeginGet
    PROVE  ReadInv'
<1>1. StoreInv' /\ row' = row /\ row \in Nat
  BY StoreInvSame, RowsAreVersions DEF ReadInv, BeginGet, StoreSame
<1>2. PICK r \in RangeHeader :
          get' = [IdleGet EXCEPT !.pc = IF r = <<"none">> THEN "row" ELSE "head", !.range = r]
  BY DEF BeginGet
<1>3. /\ get'.pc = (IF r = <<"none">> THEN "row" ELSE "head") /\ get'.range = r
      /\ get'.head = 0 /\ get'.ver = 0 /\ get'.declared = 0 /\ get'.frame = 0
      /\ get'.out = <<>> /\ get'.answer = "none"
  BY <1>2 DEF IdleGet
<1>4. get' \in GetState
  <2>1. IdleGet \in GetState
    BY EmptySeq DEF IdleGet, GetState, RangeHeader
  <2> QED
    BY <1>2, <2>1 DEF GetState
<1>5. Len(get'.out) = 0
  BY <1>3
<1>6. AtStep' /\ Answered'
  BY <1>3 DEF AtStep, Answered, Full
<1> QED
  BY <1>1, <1>3, <1>4, <1>5, <1>6 DEF ReadInv

LEMMA FinishStep ==
    ASSUME ReadInv, FinishGet
    PROVE  ReadInv'
<1>1. StoreInv' /\ row' = row /\ row \in Nat
  BY StoreInvSame, RowsAreVersions DEF ReadInv, FinishGet, StoreSame
<1>2. get' = IdleGet
  BY DEF FinishGet
<1>3. get' \in GetState
  BY <1>2, EmptySeq DEF IdleGet, GetState, RangeHeader
<1>4. Len(get'.out) = 0 /\ get'.head = 0 /\ get'.ver = 0 /\ get'.declared = 0
  BY <1>2 DEF IdleGet
<1>5. AtStep' /\ Answered'
  BY <1>2 DEF AtStep, Answered, Full, IdleGet
<1> QED
  BY <1>1, <1>3, <1>4, <1>5 DEF ReadInv

LEMMA ReplyFields ==
    ASSUME get \in GetState, NEW answer, AnswerGet(answer),
           answer \in {"none", "ok", "cut", "error", "NoSuchKey", "InvalidRange"}
    PROVE  /\ get' \in GetState
           /\ get'.pc = "done" /\ get'.answer = answer
           /\ get'.range = get.range /\ get'.head = get.head /\ get'.ver = get.ver
           /\ get'.start = get.start /\ get'.end = get.end /\ get'.frame = get.frame
           /\ get'.blob = get.blob /\ get'.declared = get.declared /\ get'.out = get.out
  BY DEF AnswerGet, GetState

LEMMA HeadObjectStep ==
    ASSUME ReadInv, HeadObject
    PROVE  ReadInv'
<1>1. /\ StoreInv' /\ row' = row /\ size' = size /\ damaged' = damaged /\ row \in Nat
      /\ \A v \in 1..row : size[v] \in Nat
  BY StoreInvSame, RowsAreVersions DEF ReadInv, HeadObject, StoreSame
<1>2. /\ get \in GetState /\ get.pc = "head" /\ ~Full /\ get.head = 0 /\ get.ver = 0
      /\ get.declared = 0 /\ get.frame = 0 /\ get.out = <<>> /\ get.answer = "none"
      /\ Len(get.out) <= get.declared
  BY DEF ReadInv, AtStep, HeadObject
<1>3. get.range \in RangeHeader /\ get.range # <<"none">>
  BY <1>2 DEF GetState, Full
<1>4. CASE row = 0
  <2>1. AnswerGet("NoSuchKey")
    BY <1>4 DEF HeadObject
  <2>2. /\ get' \in GetState
        /\ get'.pc = "done" /\ get'.answer = "NoSuchKey"
        /\ get'.head = 0 /\ get'.ver = 0 /\ get'.declared = 0 /\ get'.out = <<>>
    BY <1>2, <2>1, ReplyFields
  <2>3. AtStep' /\ Answered'
    BY <2>2 DEF AtStep, Answered
  <2> QED
    BY <1>1, <1>2, <2>2, <2>3 DEF ReadInv
<1>5. CASE row # 0
  <2> DEFINE range == ParseRange(get.range, size[row])
  <2>1. row \in 1..row /\ size[row] \in Nat
    BY <1>1, <1>5
  <2>2. \/ range = <<>> /\ Asked(get.range, size[row]) = {}
        \/ /\ range # <<>> /\ range[1] \in Nat /\ range[2] \in Nat
           /\ range[1] <= range[2] /\ range[2] < size[row]
           /\ Asked(get.range, size[row]) = range[1]..range[2]
    BY <1>3, <2>1, RangeResolved
  <2>3. IF range = <<>>
        THEN get' = [get EXCEPT !.pc = "done", !.head = row, !.answer = "InvalidRange"]
        ELSE get' = [get EXCEPT !.pc = "row", !.head = row, !.start = range[1],
                                !.end = range[2], !.declared = range[2] - range[1] + 1]
    BY <1>5 DEF HeadObject
  <2> HIDE DEF range
  <2>4. CASE range = <<>>
    <3>1. get' = [get EXCEPT !.pc = "done", !.head = row, !.answer = "InvalidRange"]
      BY <2>3, <2>4
    <3>2. /\ get'.pc = "done" /\ get'.head = row /\ get'.answer = "InvalidRange"
          /\ get'.range = get.range /\ get'.ver = 0 /\ get'.declared = 0 /\ get'.out = get.out
          /\ get' \in GetState
      BY <1>1, <1>2, <3>1 DEF GetState
    <3>3. Answered'
      BY <1>1, <1>2, <2>1, <2>2, <2>4, <3>2 DEF Answered, Full
    <3>4. AtStep'
      BY <3>2 DEF AtStep
    <3> QED
      BY <1>1, <1>2, <3>2, <3>3, <3>4 DEF ReadInv
  <2>5. CASE range # <<>>
    <3>1. get' = [get EXCEPT !.pc = "row", !.head = row, !.start = range[1],
                             !.end = range[2], !.declared = range[2] - range[1] + 1]
      BY <2>3, <2>5
    <3>2. PICK lo \in Nat, hi \in Nat :
              /\ lo = range[1] /\ hi = range[2] /\ lo <= hi /\ hi < size[row]
              /\ Asked(get.range, size[row]) = lo..hi
      BY <2>2, <2>5
    <3>3. get' = [get EXCEPT !.pc = "row", !.head = row, !.start = lo, !.end = hi,
                             !.declared = hi - lo + 1]
      BY <3>1, <3>2
    <3>4. hi - lo + 1 \in Nat
      BY <3>2
    <3>5. /\ get'.pc = "row" /\ get'.head = row /\ get'.start = lo /\ get'.end = hi
          /\ get'.declared = hi - lo + 1 /\ get'.range = get.range /\ get'.ver = 0
          /\ get'.frame = 0 /\ get'.out = <<>> /\ get'.answer = "none"
          /\ get' \in GetState
      BY <1>1, <1>2, <3>3, <3>4 DEF GetState
    <3>6. Resolved'
      BY <1>1, <2>1, <3>2, <3>5 DEF Resolved
    <3>7. AtStep' /\ Answered'
      BY <1>2, <3>5, <3>6 DEF AtStep, Answered, Full
    <3>8. Len(get'.out) = 0
      BY <3>5
    <3> QED
      BY <1>1, <3>4, <3>5, <3>7, <3>8 DEF ReadInv
  <2> QED
    BY <2>4, <2>5
<1> QED
  BY <1>4, <1>5

LEMMA GetRowStep ==
    ASSUME ReadInv, ReadRow
    PROVE  ReadInv'
<1>1. /\ StoreInv' /\ row' = row /\ size' = size /\ damaged' = damaged /\ row \in Nat
      /\ \A v \in 1..row : size[v] \in Nat
  BY StoreInvSame, RowsAreVersions DEF ReadInv, ReadRow, StoreSame
<1>2. /\ get \in GetState /\ get.pc = "row" /\ get.ver = 0 /\ get.frame = 0
      /\ get.out = <<>> /\ get.answer = "none" /\ get.head <= row
      /\ IF Full THEN get.head = 0 /\ get.declared = 0 ELSE Resolved
      /\ get.declared \in Nat
  BY DEF ReadInv, AtStep, ReadRow, GetState
<1>3. Len(get.out) = 0
  BY <1>2
<1>4. CASE row = 0 /\ AnswerGet("NoSuchKey")
  <2>1. /\ get' \in GetState
        /\ get'.pc = "done" /\ get'.answer = "NoSuchKey" /\ get'.head = get.head
        /\ get'.ver = 0 /\ get'.declared = get.declared /\ get'.out = get.out
    BY <1>2, <1>4, ReplyFields
  <2>2. AtStep' /\ Answered'
    BY <2>1 DEF AtStep, Answered
  <2> QED
    BY <1>1, <1>2, <1>3, <2>1, <2>2 DEF ReadInv
<1>5. CASE /\ row # 0 /\ Full
           /\ get' = [get EXCEPT !.pc = "open", !.head = row, !.ver = row,
                                 !.declared = size[row]]
  <2>1. row \in 1..row /\ size[row] \in Nat
    BY <1>1, <1>5
  <2>2. /\ get'.pc = "open" /\ get'.head = row /\ get'.ver = row /\ get'.declared = size[row]
        /\ get'.range = get.range /\ get'.frame = 0 /\ get'.out = <<>> /\ get'.answer = "none"
        /\ get' \in GetState
    BY <1>1, <1>2, <1>5, <2>1 DEF GetState
  <2>3. Chosen' /\ Full'
    BY <1>1, <1>5, <2>1, <2>2 DEF Chosen, Full
  <2>4. AtStep' /\ Answered'
    BY <2>2, <2>3 DEF AtStep, Answered
  <2> QED
    BY <1>1, <1>2, <1>3, <2>1, <2>2, <2>4 DEF ReadInv
<1>6. CASE /\ row # 0 /\ ~Full /\ get.end >= size[row]
           /\ get' = [get EXCEPT !.pc = "done", !.ver = row, !.answer = "InvalidRange"]
  <2>1. row \in 1..row /\ size[row] \in Nat /\ Resolved
    BY <1>1, <1>2, <1>6
  <2>2. /\ get'.pc = "done" /\ get'.ver = row /\ get'.answer = "InvalidRange"
        /\ get'.range = get.range /\ get'.head = get.head /\ get'.out = get.out
        /\ get'.declared = get.declared /\ get' \in GetState
    BY <1>1, <1>2, <1>6 DEF GetState
  <2>3. get.head \in 1..row /\ get.head # row /\ get.end < size[get.head] /\ get.end \in Nat
    BY <1>1, <1>2, <1>6, <2>1 DEF Resolved, GetState
  <2>4. get'.ver > get'.head
    BY <1>1, <2>2, <2>3
  <2>5. Answered'
    BY <1>1, <1>6, <2>2, <2>3, <2>4 DEF Answered, Full
  <2>6. AtStep'
    BY <2>2 DEF AtStep
  <2> QED
    BY <1>1, <1>2, <1>3, <2>2, <2>5, <2>6 DEF ReadInv
<1>7. CASE /\ row # 0 /\ ~Full /\ get.end < size[row]
           /\ get' = [get EXCEPT !.pc = "open", !.ver = row, !.frame = get.start \div FrameSize]
  <2>1. row \in 1..row /\ size[row] \in Nat /\ Resolved
    BY <1>1, <1>2, <1>7
  <2>2. get.start \in Nat /\ get.start \div FrameSize \in Nat
    BY <1>2, Sizes DEF GetState
  <2>3. /\ get'.pc = "open" /\ get'.ver = row /\ get'.frame = get.start \div FrameSize
        /\ get'.range = get.range /\ get'.head = get.head /\ get'.out = <<>>
        /\ get'.start = get.start /\ get'.end = get.end
        /\ get'.declared = get.declared /\ get'.answer = "none" /\ get' \in GetState
    BY <1>1, <1>2, <1>7, <2>2 DEF GetState
  <2>4. Resolved'
    BY <1>1, <2>1, <2>3 DEF Resolved
  <2>5. Chosen' /\ ~Full'
    BY <1>1, <1>7, <2>1, <2>3, <2>4 DEF Chosen, Full
  <2>6. AtStep' /\ Answered'
    BY <2>3, <2>5 DEF AtStep, Answered
  <2> QED
    BY <1>1, <1>2, <1>3, <2>3, <2>6 DEF ReadInv
<1> QED
  BY <1>4, <1>5, <1>6, <1>7 DEF ReadRow, Full

\* An answer ends complete, or the message of its version has been changed.
LEMMA EndStep ==
    ASSUME ReadInv, StoreSame, End, Chosen,
           RunOf(get.out, get.ver, IF Full THEN 0 ELSE get.start),
           Len(get.out) # get.declared => get.ver \in damaged
    PROVE  ReadInv'
<1>1. /\ StoreInv' /\ row' = row /\ size' = size /\ damaged' = damaged
      /\ get \in GetState
  BY StoreInvSame DEF ReadInv
<1>2. PICK answer \in {"ok", "cut"} :
          AnswerGet(answer) /\ (answer = "ok" <=> Len(get.out) = get.declared)
  BY DEF End
<1>3. /\ get' \in GetState
      /\ get'.pc = "done" /\ get'.answer = answer
      /\ get'.range = get.range /\ get'.head = get.head /\ get'.ver = get.ver
      /\ get'.start = get.start /\ get'.end = get.end
      /\ get'.declared = get.declared /\ get'.out = get.out
  BY <1>1, <1>2, ReplyFields
<1>4. Chosen' /\ (Full' <=> Full)
  BY <1>1, <1>3 DEF Chosen, Resolved, Full
<1>5. RunOf(get'.out, get'.ver, IF Full' THEN 0 ELSE get'.start)
  BY <1>3, <1>4
<1>6. Answered'
  BY <1>1, <1>2, <1>3, <1>4, <1>5 DEF Answered
<1>7. AtStep'
  BY <1>3 DEF AtStep
<1> QED
  BY <1>1, <1>3, <1>6, <1>7 DEF ReadInv

LEMMA OpenStep ==
    ASSUME ReadInv, Open
    PROVE  ReadInv'
<1>1. /\ StoreInv /\ StoreInv' /\ row' = row /\ size' = size /\ damaged' = damaged
      /\ row \in Nat /\ StoreSame
      /\ \A v \in 1..row : v \in Version /\ size[v] \in Nat
      /\ \A v, blob : MessageOf(v, blob) => MessageOf(v, blob)'
  BY StoreInvSame, RowsAreVersions DEF ReadInv, Open, StoreSame
<1>2. /\ get \in GetState /\ get.pc = "open" /\ Chosen
      /\ get.frame = (IF Full THEN 0 ELSE get.start \div FrameSize)
      /\ get.out = <<>> /\ get.answer = "none" /\ get.head <= row /\ get.ver <= row
      /\ Len(get.out) <= get.declared
  BY DEF ReadInv, AtStep, Open
<1>3. PICK v, blob : v = get.ver /\ blob = content[v] /\ v \in 1..row /\ MessageOf(v, blob)
  BY <1>1, <1>2 DEF Chosen, StoreInv
<1>4. v \notin damaged => Piece(blob, 0, HeaderSize) = Header(v)
  BY <1>1, <1>3, HeaderFound DEF MessageOf
<1>5. Len(get.out) = 0 /\ \A a : RunOf(get.out, v, a)
  BY <1>2 DEF RunOf
<1>6. CASE get' = [get EXCEPT !.blob = blob, !.pc = IF Full THEN "stream" ELSE "range"]
  <2>1. /\ get'.pc = (IF Full THEN "stream" ELSE "range") /\ get'.blob = blob
        /\ get'.range = get.range /\ get'.head = get.head /\ get'.ver = v
        /\ get'.start = get.start /\ get'.end = get.end /\ get'.frame = get.frame
        /\ get'.declared = get.declared /\ get'.out = <<>> /\ get'.answer = "none"
        /\ get' \in GetState
    BY <1>2, <1>3, <1>6 DEF GetState, MessageOf
  <2>2. Chosen' /\ (Full' <=> Full)
    BY <1>1, <1>2, <1>3, <2>1 DEF Chosen, Resolved, Full
  <2>3. MessageOf(get.ver, get.blob)'
    <3>1. MessageOf(v, blob)'
      BY <1>1, <1>3
    <3> QED
      BY <2>1, <3>1 DEF MessageOf
  <2>4. ASSUME Full
        PROVE  /\ get'.frame \in 0..FrameCount(size'[get'.ver])
               /\ Len(get'.out) = Least(get'.frame * FrameSize, size'[get'.ver])
               /\ RunOf(get'.out, get'.ver, 0)
    <3>1. get'.frame = 0 /\ size'[get'.ver] = size[v] /\ size[v] \in Nat
      BY <1>1, <1>2, <1>3, <2>1, <2>4
    <3>2. FrameCount(size[v]) \in Nat
      BY <3>1, FramesCover
    <3>3. Least(0 * FrameSize, size[v]) = 0
      BY <3>1, Sizes DEF Least
    <3> QED
      BY <1>2, <1>5, <2>1, <3>1, <3>2, <3>3
  <2>5. ASSUME ~Full
        PROVE  /\ get'.frame >= get'.start \div FrameSize
               /\ Len(get'.out) = Reached(get'.start, get'.end, get'.frame) - get'.start
               /\ RunOf(get'.out, get'.ver, get'.start)
    <3> DEFINE a == get.start
               e == get.end
               f == get.frame
    <3>1. f = a \div FrameSize /\ a \in Nat /\ e \in Nat /\ a <= e
      BY <1>2, <2>5 DEF Chosen, Resolved, GetState
    <3> HIDE DEF a, e, f
    <3>2. f \in Nat /\ f * FrameSize \in Nat /\ f * FrameSize <= a
      BY <3>1, Sizes, Division
    <3>3. Reached(a, e, f) = a
      BY <3>1, <3>2 DEF Reached, Least
    <3>4. f >= a \div FrameSize /\ Reached(a, e, f) - a = 0
      BY <3>1, <3>2, <3>3
    <3> QED
      BY <1>2, <1>5, <2>1, <3>4 DEF a, e, f
  <2>6. AtStep'
    BY <2>1, <2>2, <2>3, <2>4, <2>5 DEF AtStep
  <2>7. Answered'
    BY <2>1 DEF Answered
  <2> QED
    BY <1>1, <1>2, <1>3, <1>5, <2>1, <2>6, <2>7 DEF ReadInv
<1>7. CASE ~(Piece(blob, 0, HeaderSize) = Header(v)) /\ Full /\ AnswerGet("error")
  <2>1. /\ get' \in GetState
        /\ get'.pc = "done" /\ get'.answer = "error" /\ get'.head = get.head
        /\ get'.ver = v /\ get'.declared = get.declared /\ get'.out = get.out
    BY <1>2, <1>3, <1>7, ReplyFields
  <2>2. v \in damaged'
    BY <1>1, <1>4, <1>7
  <2>3. AtStep' /\ Answered'
    BY <2>1, <2>2 DEF AtStep, Answered
  <2> QED
    BY <1>1, <1>2, <1>3, <2>1, <2>3 DEF ReadInv
<1>8. CASE ~(Piece(blob, 0, HeaderSize) = Header(v)) /\ ~Full /\ End
  <2>1. v \in damaged
    BY <1>4, <1>8
  <2> QED
    BY <1>1, <1>2, <1>3, <1>5, <1>8, <2>1, EndStep
<1> QED
  BY <1>3, <1>6, <1>7, <1>8 DEF Open, Full

LEMMA RunConcat ==
    ASSUME NEW v, NEW a \in Nat, NEW out \in Seq(Byte), RunOf(out, v, a),
           NEW t \in Seq(Byte), NEW p, p = a + Len(out), RunOf(t, v, p)
    PROVE  /\ out \o t \in Seq(Byte) /\ Len(out \o t) = Len(out) + Len(t)
           /\ RunOf(out \o t, v, a)
<1>1. /\ out \o t \in Seq(Byte) /\ Len(out \o t) = Len(out) + Len(t)
      /\ \A i \in 1..Len(out) + Len(t) :
            (out \o t)[i] = IF i <= Len(out) THEN out[i] ELSE t[i - Len(out)]
      /\ Len(out) \in Nat /\ Len(t) \in Nat
  BY ConcatProperties, LenProperties
<1>2. ASSUME NEW x \in 1..Len(out) + Len(t) PROVE (out \o t)[x] = <<v, a + x - 1>>
  <2>1. CASE x <= Len(out)
    <3>1. x \in 1..Len(out) /\ (out \o t)[x] = out[x]
      BY <1>1, <2>1
    <3> QED
      BY <3>1 DEF RunOf
  <2>2. CASE ~(x <= Len(out))
    <3>1. x - Len(out) \in 1..Len(t) /\ (out \o t)[x] = t[x - Len(out)]
      BY <1>1, <2>2
    <3>2. t[x - Len(out)] = <<v, a + Len(out) + (x - Len(out)) - 1>>
      BY <3>1 DEF RunOf
    <3>3. a + Len(out) + (x - Len(out)) - 1 = a + x - 1
      BY <1>1
    <3> QED
      BY <3>1, <3>2, <3>3
  <2> QED
    BY <2>1, <2>2
<1> QED
  BY <1>1, <1>2 DEF RunOf

LEMMA SealOpens ==
    ASSUME NEW v, NEW i, NEW m \in Nat, NEW s, s = Seal(v, i, m), Len(s) = m + TagLen
    PROVE  Opens(v, i, s) /\ s # <<>>
<1>1. Len(s) - TagLen = m /\ Len(s) >= TagLen /\ Len(s) > 0
  BY Sizes
<1> QED
  BY <1>1 DEF Opens

LEMMA StreamFrameStep ==
    ASSUME ReadInv, StreamFrame
    PROVE  ReadInv'
<1> DEFINE s == Piece(get.blob, FrameOffset(get.frame), FrameSize + TagLen)
<1>1. /\ StoreInv /\ StoreInv' /\ row' = row /\ size' = size /\ damaged' = damaged
      /\ row \in Nat /\ StoreSame
      /\ \A v \in 1..row : v \in Version /\ size[v] \in Nat
      /\ \A v, blob : MessageOf(v, blob) => MessageOf(v, blob)'
  BY StoreInvSame, RowsAreVersions DEF ReadInv, StreamFrame, StoreSame
<1>2. /\ get \in GetState /\ get.pc = "stream" /\ Chosen /\ Full
      /\ MessageOf(get.ver, get.blob)
      /\ get.frame \in 0..FrameCount(size[get.ver])
      /\ Len(get.out) = Least(get.frame * FrameSize, size[get.ver])
      /\ RunOf(get.out, get.ver, 0)
      /\ get.answer = "none" /\ get.head <= row /\ get.ver <= row
      /\ Len(get.out) <= get.declared
  BY DEF ReadInv, AtStep, StreamFrame
<1>3. PICK v, f, n, blob : /\ v = get.ver /\ f = get.frame /\ n = size[v] /\ blob = get.blob
                           /\ v \in 1..row /\ get.declared = n
  BY <1>2 DEF Chosen
<1>4. /\ v \in Version /\ n \in Nat /\ FrameCount(n) \in Nat /\ f \in Nat
      /\ f <= FrameCount(n) /\ n <= FrameCount(n) * FrameSize
  <2>1. v \in Version /\ n \in Nat
    BY <1>1, <1>3
  <2>2. FrameCount(n) \in Nat /\ n <= FrameCount(n) * FrameSize
    BY <2>1, FramesCover
  <2>3. f \in 0..FrameCount(n)
    BY <1>2, <1>3
  <2> QED
    BY <2>1, <2>2, <2>3
<1>5. /\ FrameOffset(f) \in Nat /\ FrameSize + TagLen \in Nat
      /\ f * FrameSize \in Nat /\ AllMade(blob)
  <2>1. AllMade(blob)
    BY <1>2, <1>3 DEF MessageOf, AllMade
  <2>2. FrameOffset(f) \in Nat /\ f * FrameSize \in Nat
    BY <1>4, Offsets
  <2> QED
    BY <2>1, <2>2, Sizes
<1>6. AllMade(s)
  BY <1>3, <1>5, PieceMade
<1>7. CASE (s = <<>> \/ ~Opens(v, f, s)) /\ End
  <2>1. ASSUME v \notin damaged PROVE Len(get.out) = get.declared
    <3>1. blob = Blob(v, n)
      BY <1>2, <1>3, <2>1 DEF MessageOf
    <3>2. CASE f < FrameCount(n)
      <4>1. FrameLen(n, f) \in Nat
            /\ FrameSize + TagLen \in FrameLen(n, f) + TagLen..FrameSize + TagLen
        BY <1>4, <3>2, FrameExtent, Sizes
      <4>2. s = Seal(v, f, FrameLen(n, f)) /\ Len(s) = FrameLen(n, f) + TagLen
        BY <1>3, <1>4, <3>1, <3>2, <4>1, FrameFound
      <4> HIDE DEF s
      <4>3. Opens(v, f, s) /\ s # <<>>
        BY <4>1, <4>2, SealOpens
      <4> QED
        BY <1>7, <4>3
    <3>3. CASE f = FrameCount(n)
      <4>1. Len(get.out) = Least(f * FrameSize, n)
        BY <1>2, <1>3
      <4>2. n <= f * FrameSize
        BY <1>4, <3>3
      <4> QED
        BY <1>3, <1>4, <1>5, <4>1, <4>2 DEF Least
    <3> QED
      BY <1>4, <3>2, <3>3
  <2> QED
    BY <1>1, <1>2, <1>3, <1>7, <2>1, EndStep
<1>8. CASE Opens(v, f, s) /\ get' = [get EXCEPT !.out = @ \o Plain(s), !.frame = @ + 1]
  <2> HIDE DEF s
  <2>1. /\ f < FrameCount(n)
        /\ Plain(s) \in Seq(Byte) /\ Len(Plain(s)) = FrameLen(n, f)
        /\ \A j \in 1..FrameLen(n, f) : Plain(s)[j] = <<v, f * FrameSize + j - 1>>
    BY <1>1, <1>3, <1>4, <1>6, <1>8, OpenedFrame DEF AllMade
  <2>2. /\ FrameLen(n, f) \in Nat /\ f * FrameSize <= n
        /\ f * FrameSize + FrameLen(n, f) = Least((f + 1) * FrameSize, n)
    BY <1>4, <2>1, FrameExtent, Sizes
  <2>3. Len(get.out) = f * FrameSize
    BY <1>2, <1>3, <1>4, <1>5, <2>2 DEF Least
  <2>4. PICK a, p, out1, out2 : /\ a = 0 /\ p = f * FrameSize
                                /\ out1 = get.out /\ out2 = Plain(s)
    OBVIOUS
  <2>5. /\ a \in Nat /\ out1 \in Seq(Byte) /\ RunOf(out1, v, a)
        /\ out2 \in Seq(Byte) /\ RunOf(out2, v, p) /\ p = a + Len(out1)
    BY SMTT(30), <1>2, <1>3, <1>5, <2>1, <2>3, <2>4 DEF RunOf, GetState
  <2>6. /\ out1 \o out2 \in Seq(Byte)
        /\ Len(out1 \o out2) = Len(out1) + Len(out2)
        /\ RunOf(out1 \o out2, v, a)
    BY <2>5, RunConcat
  <2>7. PICK out : out = get.out \o Plain(s)
    OBVIOUS
  <2>8. /\ out \in Seq(Byte) /\ RunOf(out, v, 0)
        /\ Len(out) = Least((f + 1) * FrameSize, n)
    BY <2>1, <2>2, <2>3, <2>4, <2>6, <2>7
  <2>9. get' = [get EXCEPT !.out = out, !.frame = f + 1]
    BY <1>2, <1>3, <1>8, <2>7 DEF GetState
  <2>10. f + 1 \in Nat /\ f + 1 \in 0..FrameCount(n)
    BY <1>4, <2>1
  <2>11. /\ get'.out = out /\ get'.frame = f + 1 /\ get'.pc = "stream" /\ get'.ver = v
         /\ get'.head = get.head /\ get'.range = get.range /\ get'.start = get.start
         /\ get'.end = get.end /\ get'.declared = n /\ get'.answer = "none"
         /\ get'.blob = blob /\ get' \in GetState
    BY <1>2, <1>3, <2>8, <2>9, <2>10 DEF GetState
  <2>12. Chosen' /\ Full'
    BY <1>1, <1>2, <1>3, <2>11 DEF Chosen, Full
  <2>13. MessageOf(get.ver, get.blob)'
    <3>1. MessageOf(v, blob)'
      BY <1>1, <1>2, <1>3
    <3> QED
      BY <2>11, <3>1 DEF MessageOf
  <2>14. size'[get'.ver] = n
    BY <1>1, <1>3, <2>11
  <2>15. AtStep'
    BY <2>8, <2>10, <2>11, <2>12, <2>13, <2>14 DEF AtStep
  <2>16. Answered'
    BY <2>11 DEF Answered
  <2>17. Len(out) <= n
    <3>1. (f + 1) * FrameSize \in Nat
      BY <2>10, Sizes, ProductNat
    <3> QED
      BY <1>4, <2>8, <3>1 DEF Least
  <2> QED
    BY <1>1, <1>2, <1>3, <2>11, <2>15, <2>16, <2>17 DEF ReadInv
<1> QED
  BY <1>3, <1>7, <1>8 DEF StreamFrame

\* The bounds of Cut in the plaintext of a frame, len bytes from first on.
CutAt(start, end, first, len, lo, hi) ==
    /\ lo = IF start > first THEN start - first ELSE 0
    /\ hi = IF end < first + len - 1 THEN end - first + 1 ELSE len

\* How far the range has come before and after that frame.
ReachedAt(start, end, first, from, to) ==
    LET next == Least(first + FrameSize, end + 1) IN
    /\ from = IF start <= Least(first, end + 1) THEN Least(first, end + 1) ELSE start
    /\ to = IF start <= next THEN next ELSE start

\* The bounds that DecryptRange computes are those of what is still missing.
LEMMA CutBounds ==
    ASSUME NEW start \in Nat, NEW end \in Nat, NEW n \in Nat, NEW first \in Nat, NEW len \in Nat,
           start <= end, end < n, first <= end, start < first + FrameSize,
           first + len = Least(first + FrameSize, n),
           NEW lo, NEW hi, CutAt(start, end, first, len, lo, hi),
           NEW from, NEW to, ReachedAt(start, end, first, from, to)
    PROVE  /\ lo \in Nat /\ hi \in Nat /\ lo <= hi /\ hi <= len
           /\ first + lo = from /\ first + hi = to
           /\ from >= start /\ to <= end + 1
<1>1. FrameSize \in Nat /\ FrameSize > 0
  BY Sizes
<1>2. Least(first, end + 1) = first
  BY DEF Least
<1>3. lo \in Nat /\ first + lo = from /\ from >= start
  BY <1>2 DEF CutAt, ReachedAt
<1>4. start <= Least(first + FrameSize, end + 1) /\ to = Least(first + FrameSize, end + 1)
  BY <1>1 DEF Least, ReachedAt
<1>5. /\ first + len <= first + FrameSize /\ first + len <= n
      /\ first + len = first + FrameSize \/ first + len = n
  BY <1>1 DEF Least
<1>6. hi \in Nat /\ hi <= len /\ first + hi = to /\ to <= end + 1
  <2>1. CASE end < first + len - 1
    BY <1>1, <1>4, <1>5, <2>1 DEF Least, CutAt
  <2>2. CASE ~(end < first + len - 1)
    <3>1. hi = len /\ first + len <= end + 1
      BY <2>2 DEF CutAt
    <3>2. to = first + len
      BY <1>1, <1>4, <1>5, <3>1 DEF Least
    <3> QED
      BY <1>1, <3>1, <3>2
  <2> QED
    BY <2>1, <2>2
<1>7. lo <= hi
  <2>1. from <= to
    BY <1>1, <1>2, <1>4 DEF Least, ReachedAt
  <2> QED
    BY <1>3, <1>6, <2>1
<1> QED
  BY <1>3, <1>6, <1>7

LEMMA ReachedNext ==
    ASSUME NEW start \in Nat, NEW end \in Nat, NEW i \in Nat
    PROVE  ReachedAt(start, end, i * FrameSize,
                     Reached(start, end, i), Reached(start, end, i + 1))
<1>1. (i + 1) * FrameSize = i * FrameSize + FrameSize
  BY Sizes, NextProduct
<1> QED
  BY <1>1 DEF Reached, ReachedAt

\* Whether DecryptRange goes on depends on where its next frame begins.
LEMMA FrameWanted ==
    ASSUME NEW end \in Nat, NEW i \in Nat
    PROVE  i <= end \div FrameSize <=> i * FrameSize <= end
<1> DEFINE q == end \div FrameSize
<1>1. FrameSize \in Nat /\ FrameSize > 0
  BY Sizes
<1>2. /\ q \in Nat /\ q * FrameSize \in Nat /\ i * FrameSize \in Nat
      /\ q * FrameSize <= end /\ end < q * FrameSize + FrameSize
  BY <1>1, Division, ProductNat
<1> HIDE DEF q
<1>3. CASE i < q
  <2>1. i * FrameSize + FrameSize <= q * FrameSize
    BY <1>1, <1>2, <1>3, ProductOrder
  <2> QED
    BY <1>1, <1>2, <1>3, <2>1 DEF q
<1>4. CASE i = q
  BY <1>2, <1>4 DEF q
<1>5. CASE q < i
  <2>1. q * FrameSize + FrameSize <= i * FrameSize
    BY <1>1, <1>2, <1>5, ProductOrder
  <2>2. ~(i * FrameSize <= end)
    BY <1>1, <1>2, <2>1
  <2> QED
    BY <1>2, <1>5, <2>2 DEF q
<1> QED
  BY <1>2, <1>3, <1>4, <1>5

\* DecryptRange computes from the size of an object how much of a frame it has to read.
LEMMA ReadSize ==
    ASSUME NEW n \in Nat, NEW i \in Nat, i * FrameSize < n,
           NEW remaining, remaining = CiphertextSize(n) - FrameOffset(i)
    PROVE  /\ i < FrameCount(n)
           /\ remaining > TagLen
           /\ Least(FrameSize + TagLen, remaining) = FrameLen(n, i) + TagLen
<1> DEFINE c == FrameCount(n)
           m == FrameLen(n, i)
           o == FrameOffset(i)
<1>1. /\ HeaderSize \in Nat /\ TagLen \in Nat /\ FrameSize \in Nat /\ TagLen > 0
      /\ o \in Nat /\ c \in Nat /\ c >= 1 /\ n <= c * FrameSize /\ CiphertextSize(n) \in Nat
      /\ i * FrameSize \in Nat /\ n > 0
  <2>1. HeaderSize \in Nat /\ TagLen \in Nat /\ FrameSize \in Nat /\ TagLen > 0
    BY Sizes
  <2>2. o \in Nat /\ i * FrameSize \in Nat
    BY Offsets
  <2>3. c \in Nat /\ c >= 1 /\ n <= c * FrameSize
    BY FramesCover
  <2>4. CiphertextSize(n) \in Nat
    BY LastFrameEnds
  <2>5. n > 0
    BY <2>2
  <2> QED
    BY <2>1, <2>2, <2>3, <2>4, <2>5
<1>2. i < c
  <2> SUFFICES ASSUME c <= i PROVE FALSE
    BY <1>1
  <2>1. c * FrameSize <= i * FrameSize
    <3>1. CASE c = i
      BY <1>1, <3>1
    <3>2. CASE c < i
      <4>1. c * FrameSize + FrameSize <= i * FrameSize /\ c * FrameSize \in Nat
        BY <1>1, <3>2, ProductOrder, ProductNat
      <4> QED
        BY <1>1, <4>1
    <3> QED
      BY <1>1, <3>1, <3>2
  <2>2. c * FrameSize \in Nat
    BY <1>1, ProductNat
  <2> QED
    BY <1>1, <2>1, <2>2
<1>3. m \in 0..FrameSize /\ m > 0
  BY <1>1, <1>2, FrameExtent
<1>4. CASE i = c - 1
  <2>1. o + m + TagLen = CiphertextSize(n)
    BY <1>4, LastFrameEnds
  <2> HIDE DEF c, m, o
  <2>2. remaining = m + TagLen
    BY <1>1, <1>3, <2>1 DEF o
  <2> QED
    BY <1>1, <1>2, <1>3, <2>2 DEF Least, c, m
<1>5. CASE i < c - 1
  <2>1. m = FrameSize /\ c - 1 \in Nat /\ c - 1 < c
    BY <1>1, <1>5, FrameExtent
  <2>2. o + FrameSize + TagLen <= FrameOffset(c - 1)
    BY <1>5, <2>1, OffsetOrder
  <2>3. FrameOffset(c - 1) + FrameLen(n, c - 1) + TagLen = CiphertextSize(n)
    BY LastFrameEnds
  <2>4. FrameOffset(c - 1) \in Nat /\ FrameLen(n, c - 1) \in Nat
    BY <1>1, <2>1, Offsets, FrameExtent
  <2> HIDE DEF c, m, o
  <2>5. remaining >= FrameSize + TagLen /\ remaining \in Int
    BY <1>1, <2>2, <2>3, <2>4 DEF o
  <2> QED
    BY <1>1, <1>2, <1>3, <2>1, <2>5 DEF Least, c, m
<1> QED
  BY <1>1, <1>2, <1>4, <1>5

\* What Cut leaves of a frame continues the answer.
LEMMA CutIs ==
    ASSUME get \in GetState, NEW v, NEW i, i = get.frame, NEW n \in Nat, NEW plain \in Seq(Byte),
           get.start <= get.end, get.end < n, i < FrameCount(n), i * FrameSize <= get.end,
           i >= get.start \div FrameSize,
           Len(plain) = FrameLen(n, i), RunOf(plain, v, i * FrameSize)
    PROVE  /\ Cut(plain, i) \in Seq(Byte)
           /\ Len(Cut(plain, i)) =
                 Reached(get.start, get.end, i + 1) - Reached(get.start, get.end, i)
           /\ RunOf(Cut(plain, i), v, Reached(get.start, get.end, i))
           /\ Reached(get.start, get.end, i) \in Nat
           /\ Reached(get.start, get.end, i + 1) \in Nat
           /\ Reached(get.start, get.end, i) >= get.start
           /\ Reached(get.start, get.end, i + 1) <= get.end + 1
<1> DEFINE first == i * FrameSize
<1>1. PICK start \in Nat, end \in Nat : start = get.start /\ end = get.end
  BY DEF GetState
<1>2. PICK lo, hi, len : len = Len(plain) /\ CutAt(start, end, first, len, lo, hi)
  BY DEF CutAt
<1>3. PICK from, to : from = Reached(start, end, i) /\ to = Reached(start, end, i + 1)
  OBVIOUS
<1>4. /\ i \in Nat /\ FrameSize \in Nat /\ FrameSize > 0 /\ first \in Nat
      /\ len \in Nat
  BY <1>2, Sizes, ProductNat, LenProperties DEF GetState
<1>5. first + len = Least(first + FrameSize, n)
  BY <1>2, <1>4, FrameExtent, NextProduct
<1>6. start < first + FrameSize
  <2>1. /\ start \div FrameSize \in Nat
        /\ start < (start \div FrameSize) * FrameSize + FrameSize
    BY <1>4, Division
  <2>2. (start \div FrameSize) * FrameSize <= first
    <3>1. CASE start \div FrameSize = i
      BY <1>4, <3>1
    <3>2. CASE start \div FrameSize < i
      <4>1. (start \div FrameSize) * FrameSize + FrameSize <= i * FrameSize
            /\ (start \div FrameSize) * FrameSize \in Nat
        BY <1>4, <2>1, <3>2, ProductOrder, ProductNat
      <4> QED
        BY <1>4, <4>1
    <3> QED
      BY <1>1, <1>4, <2>1, <3>1, <3>2
  <2>3. (start \div FrameSize) * FrameSize \in Nat
    BY <1>4, <2>1, ProductNat
  <2> QED
    BY <1>4, <2>1, <2>2, <2>3
<1>7. ReachedAt(start, end, first, from, to)
  BY <1>3, <1>4, ReachedNext
<1>8. Cut(plain, i) = SubSeq(plain, lo + 1, hi)
  BY <1>1, <1>2 DEF Cut, CutAt
<1>9. start <= end /\ end < n /\ first <= end /\ RunOf(plain, v, first)
  BY <1>1
<1> HIDE DEF first
<1>10. /\ lo \in Nat /\ hi \in Nat /\ lo <= hi /\ hi <= len
       /\ first + lo = from /\ first + hi = to
       /\ from >= start /\ to <= end + 1
  BY SMTT(30), <1>2, <1>4, <1>5, <1>6, <1>7, <1>9, CutBounds
<1>11. PICK t, m : m = lo + 1 /\ t = SubSeq(plain, m, hi)
  OBVIOUS
<1>12. /\ t \in Seq(Byte)
       /\ Len(t) = IF m <= hi THEN hi - m + 1 ELSE 0
       /\ \A x \in 1..hi - m + 1 : t[x] = plain[m + x - 1]
  <2>1. \A x \in m..hi : plain[x] \in Byte
    BY <1>2, <1>4, <1>10, <1>11, ElementOfSeq
  <2> QED
    BY SMTT(30), <1>10, <1>11, <2>1, SubSeqProperties
<1>13. Len(t) = hi - lo
  BY <1>10, <1>11, <1>12
<1>14. ASSUME NEW x \in 1..Len(t) PROVE t[x] = <<v, from + x - 1>>
  <2>1. t[x] = plain[lo + x] /\ lo + x \in 1..Len(plain)
    <3>1. x \in 1..hi - m + 1 /\ m + x - 1 = lo + x
      BY <1>10, <1>11, <1>13
    <3>2. t[x] = plain[m + x - 1]
      BY <1>12, <3>1
    <3>3. lo + x \in 1..len
      BY <1>4, <1>10, <1>13
    <3> QED
      BY <1>2, <3>1, <3>2, <3>3
  <2>2. plain[lo + x] = <<v, first + (lo + x) - 1>>
    BY <1>9, <2>1 DEF RunOf
  <2>3. first + (lo + x) - 1 = from + x - 1
    BY <1>4, <1>10
  <2> QED
    BY <2>1, <2>2, <2>3
<1>15. Len(t) = to - from /\ from \in Nat /\ to \in Nat
  BY <1>4, <1>10, <1>13
<1>16. RunOf(t, v, from)
  BY <1>14 DEF RunOf
<1> QED
  BY <1>1, <1>3, <1>8, <1>10, <1>11, <1>12, <1>15, <1>16

LEMMA RangeFrameStep ==
    ASSUME ReadInv, RangeFrame
    PROVE  ReadInv'
<1>1. /\ StoreInv /\ StoreInv' /\ row' = row /\ size' = size /\ damaged' = damaged
      /\ row \in Nat /\ StoreSame
      /\ \A v \in 1..row : v \in Version /\ size[v] \in Nat
      /\ \A v, blob : MessageOf(v, blob) => MessageOf(v, blob)'
  BY StoreInvSame, RowsAreVersions DEF ReadInv, RangeFrame, StoreSame
<1>2. /\ get \in GetState /\ get.pc = "range" /\ Chosen /\ ~Full /\ Resolved
      /\ MessageOf(get.ver, get.blob)
      /\ get.frame >= get.start \div FrameSize
      /\ Len(get.out) = Reached(get.start, get.end, get.frame) - get.start
      /\ RunOf(get.out, get.ver, get.start)
      /\ get.answer = "none" /\ get.head <= row /\ get.ver <= row
      /\ Len(get.out) <= get.declared
  BY DEF ReadInv, AtStep, RangeFrame, Chosen
<1>3. PICK v, i, n, blob, start, end :
          /\ v = get.ver /\ i = get.frame /\ n = size[v] /\ blob = get.blob
          /\ start = get.start /\ end = get.end /\ v \in 1..row
  BY <1>2 DEF Chosen
<1>4. /\ v \in Version /\ n \in Nat /\ i \in Nat /\ start \in Nat /\ end \in Nat
      /\ start <= end /\ end < n /\ get.declared = end - start + 1
      /\ i >= start \div FrameSize
  BY SMTT(30), <1>1, <1>2, <1>3 DEF Chosen, Resolved, GetState
<1>5. PICK remaining, readSize, s :
          /\ remaining = CiphertextSize(n) - FrameOffset(i)
          /\ readSize = Least(FrameSize + TagLen, remaining)
          /\ s = Piece(blob, FrameOffset(i), readSize)
  OBVIOUS
<1>6. /\ FrameSize \in Nat /\ FrameSize > 0 /\ TagLen \in Nat /\ i * FrameSize \in Nat
      /\ FrameOffset(i) \in Nat /\ AllMade(blob) /\ remaining \in Int
  <2>1. AllMade(blob)
    BY <1>2, <1>3 DEF MessageOf, AllMade
  <2>2. FrameOffset(i) \in Nat /\ i * FrameSize \in Nat
    BY <1>4, Offsets
  <2>3. CiphertextSize(n) \in Nat
    BY <1>4, LastFrameEnds
  <2> QED
    BY <1>5, <2>1, <2>2, <2>3, Sizes
<1>7. i <= end \div FrameSize <=> i * FrameSize <= end
  BY <1>4, FrameWanted
<1> DEFINE Wanted == i <= end \div FrameSize
           Readable == remaining > TagLen /\ Len(s) = readSize /\ Opens(v, i, s)
<1>8. CASE ~(Wanted /\ Readable) /\ End
  <2>1. ASSUME v \notin damaged PROVE Len(get.out) = get.declared
    <3>1. blob = Blob(v, n)
      BY <1>2, <1>3, <2>1 DEF MessageOf
    <3>2. ~Wanted
      <4> SUFFICES ASSUME Wanted PROVE Readable
        BY <1>8
      <4>1. i * FrameSize < n
        BY <1>4, <1>6, <1>7
      <4>2. /\ i < FrameCount(n) /\ remaining > TagLen
            /\ readSize = FrameLen(n, i) + TagLen
        BY <1>4, <1>5, <4>1, ReadSize
      <4>3. FrameLen(n, i) \in 0..FrameSize
        BY <1>4, <4>2, FrameExtent
      <4>4. readSize \in FrameLen(n, i) + TagLen..FrameSize + TagLen /\ FrameLen(n, i) \in Nat
        BY <1>6, <4>2, <4>3
      <4>5. s = Seal(v, i, FrameLen(n, i)) /\ Len(s) = FrameLen(n, i) + TagLen
        BY <1>4, <1>5, <3>1, <4>2, <4>4, FrameFound
      <4>6. Opens(v, i, s)
        BY <4>4, <4>5, SealOpens
      <4> QED
        BY <4>2, <4>5, <4>6
    <3>3. Least(i * FrameSize, end + 1) = end + 1
      BY <1>4, <1>6, <1>7, <3>2 DEF Least
    <3>4. Reached(start, end, i) = end + 1
      BY <1>4, <3>3 DEF Reached
    <3> QED
      BY SMTT(30), <1>2, <1>3, <1>4, <3>4
  <2> QED
    BY <1>1, <1>2, <1>3, <1>8, <2>1, EndStep
<1>9. CASE /\ Wanted /\ Readable
           /\ get' = [get EXCEPT !.out = @ \o Cut(Plain(s), i), !.frame = @ + 1]
  <2>1. readSize \in Nat
    BY <1>5, <1>6, <1>9 DEF Least
  <2>2. AllMade(s)
    BY <1>5, <1>6, <2>1, PieceMade
  <2>3. /\ i < FrameCount(n)
        /\ Plain(s) \in Seq(Byte) /\ Len(Plain(s)) = FrameLen(n, i)
        /\ \A j \in 1..FrameLen(n, i) : Plain(s)[j] = <<v, i * FrameSize + j - 1>>
    BY SMTT(30), <1>1, <1>3, <1>4, <1>9, <2>2, OpenedFrame DEF AllMade
  <2>4. PICK plain, cut, from, to, out1 :
            /\ plain = Plain(s) /\ cut = Cut(plain, i) /\ out1 = get.out
            /\ from = Reached(start, end, i) /\ to = Reached(start, end, i + 1)
    OBVIOUS
  <2>5. /\ plain \in Seq(Byte) /\ Len(plain) = FrameLen(n, i)
        /\ RunOf(plain, v, i * FrameSize) /\ i * FrameSize <= end
    BY <1>7, <1>9, <2>3, <2>4 DEF RunOf
  <2>6. /\ cut \in Seq(Byte) /\ Len(cut) = to - from /\ RunOf(cut, v, from)
        /\ from \in Nat /\ to \in Nat /\ from >= start /\ to <= end + 1
    BY <1>2, <1>3, <1>4, <2>3, <2>4, <2>5, CutIs
  <2>7. /\ out1 \in Seq(Byte) /\ Len(out1) = from - start /\ RunOf(out1, v, start)
    BY <1>2, <1>3, <2>4 DEF GetState
  <2>8. from = start + Len(out1)
    BY <1>4, <2>6, <2>7
  <2>9. /\ out1 \o cut \in Seq(Byte) /\ Len(out1 \o cut) = Len(out1) + Len(cut)
        /\ RunOf(out1 \o cut, v, start)
    BY <1>4, <2>6, <2>7, <2>8, RunConcat
  <2>10. PICK out : out = out1 \o cut
    OBVIOUS
  <2>11. out \in Seq(Byte) /\ RunOf(out, v, start) /\ Len(out) = to - start
    BY <1>4, <2>6, <2>7, <2>9, <2>10
  <2>12. get' = [get EXCEPT !.out = out, !.frame = i + 1]
    BY <1>2, <1>3, <1>9, <2>4, <2>10 DEF GetState
  <2>13. /\ get'.out = out /\ get'.frame = i + 1 /\ get'.pc = "range" /\ get'.ver = v
         /\ get'.head = get.head /\ get'.range = get.range /\ get'.start = start
         /\ get'.end = end /\ get'.declared = get.declared /\ get'.answer = "none"
         /\ get'.blob = blob /\ get' \in GetState
    <3>1. i + 1 \in Nat
      BY <1>4
    <3>2. get' \in GetState
      BY <1>2, <2>11, <2>12, <3>1 DEF GetState
    <3> QED
      BY <1>2, <1>3, <2>12, <3>2 DEF GetState
  <2>14. Chosen' /\ ~Full'
    BY <1>1, <1>2, <1>3, <2>13 DEF Chosen, Resolved, Full
  <2>15. MessageOf(get.ver, get.blob)'
    <3>1. MessageOf(v, blob)'
      BY <1>1, <1>2, <1>3
    <3> QED
      BY <2>13, <3>1 DEF MessageOf
  <2>16. i + 1 >= start \div FrameSize
    <3>1. start \div FrameSize \in Nat
      BY <1>4, <1>6, Division
    <3> QED
      BY <1>4, <3>1
  <2>17. Len(get'.out) = Reached(get'.start, get'.end, get'.frame) - get'.start
    BY <2>4, <2>11, <2>13
  <2>18. AtStep'
    BY <2>11, <2>13, <2>14, <2>15, <2>16, <2>17 DEF AtStep
  <2>19. Answered'
    BY <2>13 DEF Answered
  <2>20. Len(get'.out) <= get'.declared
    BY <1>4, <2>6, <2>11, <2>13
  <2> QED
    BY <1>1, <1>2, <1>3, <2>13, <2>18, <2>19, <2>20 DEF ReadInv
<1> QED
  BY <1>3, <1>5, <1>8, <1>9 DEF RangeFrame

LEMMA ReadStepKeeps ==
    ASSUME ReadInv, ReadStep
    PROVE  ReadInv'
<1>1. CASE Damage
  <2>1. StoreInv' /\ Grown /\ UNCHANGED get
    BY <1>1, DamageStep DEF ReadInv, Damage
  <2> QED
    BY <2>1, KnowledgeStays
<1> QED
  BY <1>1, BeginGetStep, HeadObjectStep, GetRowStep, OpenStep, StreamFrameStep, RangeFrameStep,
     FinishStep DEF ReadStep

\* An object is stored, at any moment of a GET.
LEMMA StoreKeeps ==
    ASSUME ReadInv, NEW n \in Nat, Store(n)
    PROVE  ReadInv'
<1>1. StoreInv' /\ Grown /\ UNCHANGED get
  BY StoreStep DEF ReadInv, Store
<1> QED
  BY <1>1, KnowledgeStays

LEMMA StillReads ==
    ASSUME ReadInv, UNCHANGED readVars
    PROVE  ReadInv'
<1>1. StoreSame /\ get' = get
  BY DEF readVars, StoreSame
<1>2. StoreInv /\ StoreInv' /\ row' = row /\ size' = size /\ damaged' = damaged /\ row \in Nat
  BY <1>1, StoreInvSame, RowsAreVersions DEF ReadInv
<1>3. Grown
  BY <1>2 DEF Grown
<1> QED
  BY <1>1, <1>2, <1>3, KnowledgeStays

LEMMA ReadInit == ReadsInit => ReadInv
<1> SUFFICES ASSUME ReadsInit PROVE ReadInv
  OBVIOUS
<1>1. row = 0 /\ size = [v \in Version |-> 0] /\ content = [v \in Version |-> <<>>]
      /\ damaged = {} /\ get = IdleGet
  BY DEF ReadsInit
<1>2. StoreInv
  BY <1>1, EmptySeq, ReadBoundAssumption DEF StoreInv
<1>3. get \in GetState /\ Len(get.out) = 0
  BY <1>1, EmptySeq DEF IdleGet, GetState, RangeHeader
<1>4. AtStep /\ Answered
  BY <1>1 DEF AtStep, Answered, Full, IdleGet
<1> QED
  BY <1>1, <1>2, <1>3, <1>4 DEF ReadInv, IdleGet

LEMMA ReadsTyped == ReadInv => ReadTypeOK
<1> SUFFICES ASSUME ReadInv PROVE ReadTypeOK
  OBVIOUS
<1>1. StoreInv /\ get \in GetState /\ row \in Nat /\ Len(get.out) <= get.declared
      /\ get.head <= row /\ get.ver <= row
  BY RowsAreVersions DEF ReadInv
<1>2. get.head \in 0..row /\ get.ver \in 0..row
  BY <1>1 DEF GetState
<1>3. get.pc \in {"open", "range"} /\ get.range # <<"none">> =>
          get.start \in 0..get.end /\ get.end < size[get.head] /\ get.end < size[get.ver]
  BY DEF ReadInv, AtStep, Chosen, Resolved, Full
<1> QED
  BY <1>1, <1>2, <1>3 DEF ReadTypeOK, StoreInv, GetState

LEMMA WholeAnswers == ReadInv => WholeAnswersRight
<1> SUFFICES ASSUME ReadInv, get.answer = "ok", Full
             PROVE  get.out = BytesAt(get.head, 0..size[get.head] - 1)
  BY DEF WholeAnswersRight, Full
<1>1. /\ get.ver \in 1..row /\ get.head = get.ver /\ get.declared = size[get.ver]
      /\ Len(get.out) = get.declared /\ RunOf(get.out, get.ver, 0) /\ get.out \in Seq(Byte)
  BY DEF ReadInv, Answered, Chosen, GetState
<1>2. PICK v, n, a, b, out : /\ v = get.head /\ n = size[v] /\ a = 0 /\ b = n - 1
                             /\ out = get.out
  OBVIOUS
<1>3. n \in Nat
  BY <1>1, <1>2, RowsAreVersions DEF ReadInv
<1>4. /\ a \in Nat /\ b \in Int /\ b >= a - 1 /\ out \in Seq(Byte) /\ Len(out) = b - a + 1
      /\ RunOf(out, v, a)
  BY <1>1, <1>2, <1>3
<1>5. out = BytesAt(v, a..b)
  BY <1>4, RunIsBytesAt
<1> QED
  BY <1>2, <1>5

LEMMA RangeAnswers == ReadInv => RangeAnswersRight
<1> SUFFICES ASSUME ReadInv, ~Full
             PROVE  LET asked == Asked(get.range, size[get.head]) IN
                    /\ get.answer = "ok" => asked # {} /\ get.out = BytesAt(get.ver, asked)
                    /\ get.answer = "InvalidRange" => asked = {} \/ get.ver > get.head
  BY DEF RangeAnswersRight, Full
<1>1. get.answer = "InvalidRange" =>
          Asked(get.range, size[get.head]) = {} \/ get.ver > get.head
  BY DEF ReadInv, Answered
<1>2. ASSUME get.answer = "ok"
      PROVE  /\ Asked(get.range, size[get.head]) # {}
             /\ get.out = BytesAt(get.ver, Asked(get.range, size[get.head]))
  <2>1. /\ Resolved /\ Len(get.out) = get.declared /\ RunOf(get.out, get.ver, get.start)
        /\ get.out \in Seq(Byte) /\ get.start \in Nat /\ get.end \in Nat
    BY <1>2 DEF ReadInv, Answered, Chosen, GetState
  <2>2. PICK v, a, b, out : v = get.ver /\ a = get.start /\ b = get.end /\ out = get.out
    OBVIOUS
  <2>3. /\ a \in Nat /\ b \in Nat /\ a <= b /\ out \in Seq(Byte) /\ Len(out) = b - a + 1
        /\ RunOf(out, v, a) /\ Asked(get.range, size[get.head]) = a..b
    BY <2>1, <2>2 DEF Resolved
  <2>4. b \in Int /\ b >= a - 1
    BY <2>3
  <2>5. out = BytesAt(v, a..b)
    BY <2>3, <2>4, RunIsBytesAt
  <2>6. a..b # {}
    BY <2>3
  <2> QED
    BY <2>2, <2>3, <2>5, <2>6
<1> QED
  BY <1>1, <1>2

LEMMA UndamagedReads == ReadInv => UndamagedReadsComplete
  BY DEF ReadInv, Answered, UndamagedReadsComplete

-----------------------------------------------------------------------------
(* Bodies and their chunks *)

LEMMA ArrivedIs ==
    ASSUME NEW n \in Nat, NEW altered \in Nat
    PROVE  /\ Arrived(n, altered) \in Seq(Nat) /\ Len(Arrived(n, altered)) = n
           /\ \A x \in 1..n : Arrived(n, altered)[x] = IF x = altered THEN 0 ELSE x
<1>1. Arrived(n, altered) = [x \in 1..n |-> IF x = altered THEN 0 ELSE x]
  BY DEF Arrived
<1>2. Arrived(n, altered) \in [1..n -> Nat]
  BY <1>1
<1> QED
  BY <1>1, <1>2, SeqDef

\* What a Read takes of the bytes at hand and what it leaves are these bytes.
LEMMA TakeIs ==
    ASSUME NEW bytes \in Seq(Nat), NEW want \in Nat
    PROVE  /\ SubSeq(bytes, 1, Least(want, Len(bytes))) \in Seq(Nat)
           /\ SubSeq(bytes, want + 1, Len(bytes)) \in Seq(Nat)
           /\ SubSeq(bytes, 1, Least(want, Len(bytes))) \o SubSeq(bytes, want + 1, Len(bytes))
                 = bytes
           /\ Len(SubSeq(bytes, 1, Least(want, Len(bytes)))) <= want
<1> DEFINE k == Least(want, Len(bytes))
<1>1. Len(bytes) \in Nat /\ k \in Nat /\ k <= Len(bytes) /\ k <= want
  BY LenProperties DEF Least
<1>2. \A x \in 1..Len(bytes) : bytes[x] \in Nat
  BY ElementOfSeq
<1>3. SubSeq(bytes, 1, k) \in Seq(Nat) /\ Len(SubSeq(bytes, 1, k)) = k
  <2>1. \A x \in 1..k : bytes[x] \in Nat
    BY <1>1, <1>2
  <2>2. /\ SubSeq(bytes, 1, k) \in Seq(Nat)
        /\ Len(SubSeq(bytes, 1, k)) = IF 1 <= k THEN k - 1 + 1 ELSE 0
    BY <1>1, <2>1, SubSeqProperties
  <2> QED
    BY <1>1, <2>2
<1>4. CASE want <= Len(bytes)
  <2>1. k = want
    BY <1>4 DEF Least
  <2>2. \A x \in want + 1..Len(bytes) : bytes[x] \in Nat
    BY <1>1, <1>2
  <2>3. want + 1 \in Int /\ Len(bytes) \in Int
    BY <1>1
  <2>4. SubSeq(bytes, want + 1, Len(bytes)) \in Seq(Nat)
    BY <2>2, <2>3, SubSeqProperties
  <2>5. SubSeq(bytes, 1, want) \o SubSeq(bytes, want + 1, Len(bytes))
            = SubSeq(bytes, 1, Len(bytes))
    <3>1. 1 \in 1..Len(bytes) + 1 /\ want \in 1 - 1..Len(bytes)
          /\ Len(bytes) \in want..Len(bytes)
      BY <1>1, <1>4
    <3> QED
      BY <3>1, ConcatAdjacentSubSeq
  <2>6. SubSeq(bytes, 1, Len(bytes)) = bytes
    BY SubSeqFull
  <2> QED
    BY <1>1, <1>3, <2>1, <2>4, <2>5, <2>6
<1>5. CASE ~(want <= Len(bytes))
  <2>1. k = Len(bytes)
    BY <1>5 DEF Least
  <2>2. SubSeq(bytes, want + 1, Len(bytes)) = <<>>
    BY <1>1, <1>5, SubSeqEmpty
  <2>3. SubSeq(bytes, 1, k) = bytes
    BY <2>1, SubSeqFull
  <2>4. bytes \o <<>> = bytes /\ <<>> \in Seq(Nat)
    BY ConcatEmptySeq, EmptySeq
  <2> QED
    BY <1>1, <1>3, <2>2, <2>3, <2>4
<1> QED
  BY <1>1, <1>4, <1>5

\* The chunks of n bytes cover them, and no chunk but the last is empty.
LEMMA ChunksCover ==
    ASSUME NEW n \in Nat, NEW c \in Nat, c > 0
    PROVE  /\ ChunkCount(n, c) \in Nat /\ n <= ChunkCount(n, c) * c
           /\ \A m \in Nat : m < ChunkCount(n, c) => m * c < n
<1> DEFINE a == n + c - 1
           q == a \div c
<1>1. a \in Nat /\ a = n + c - 1
  OBVIOUS
<1> HIDE DEF a
<1>2. q \in Nat /\ q * c \in Nat /\ q * c <= a /\ a < q * c + c
  BY <1>1, Division
<1> HIDE DEF q
<1>3. n <= q * c
  BY <1>1, <1>2
<1>4. ASSUME NEW m \in Nat, m < q PROVE m * c < n
  <2>1. m * c + c <= q * c
    BY <1>2, <1>4, ProductOrder
  <2>2. m * c \in Nat
    BY ProductNat
  <2> QED
    BY <1>1, <1>2, <2>1, <2>2
<1>5. ChunkCount(n, c) = q
  BY DEF ChunkCount, q, a
<1> QED
  BY <1>2, <1>3, <1>4, <1>5

LEMMA ChunksAre ==
    ASSUME NEW body \in Seq(Nat), NEW c \in Nat, c > 0,
           NEW count, count = ChunkCount(Len(body), c)
    PROVE  /\ ChunksOf(body, c) \in Seq(Seq(Nat)) /\ Len(ChunksOf(body, c)) = count + 1
           /\ \A k \in 1..count : ChunksOf(body, c)[k] =
                 SubSeq(body, (k - 1) * c + 1, Least(k * c, Len(body)))
           /\ ChunksOf(body, c)[count + 1] = <<>>
<1> DEFINE Chunk(k) == SubSeq(body, (k - 1) * c + 1, Least(k * c, Len(body)))
           s == [k \in 1..count |-> Chunk(k)]
           t == << <<>> >>
<1>1. Len(body) \in Nat /\ count \in Nat
  BY LenProperties, ChunksCover
<1>2. ASSUME NEW k \in 1..count PROVE Chunk(k) \in Seq(Nat)
  <2>1. k - 1 \in Nat /\ k \in Nat
    BY <1>1
  <2>2. (k - 1) * c \in Nat /\ k * c \in Nat
    BY <2>1, ProductNat
  <2>3. PICK lo, hi : lo = (k - 1) * c + 1 /\ hi = Least(k * c, Len(body))
    OBVIOUS
  <2>4. lo \in Int /\ hi \in Int /\ \A x \in lo..hi : body[x] \in Nat
    <3>1. lo \in Nat /\ lo >= 1
      BY <2>2, <2>3
    <3>2. hi \in Nat /\ hi <= Len(body)
      BY <1>1, <2>2, <2>3 DEF Least
    <3>3. \A x \in lo..hi : x \in 1..Len(body)
      BY <1>1, <3>1, <3>2
    <3> QED
      BY <3>1, <3>2, <3>3, ElementOfSeq
  <2>5. SubSeq(body, lo, hi) \in Seq(Nat)
    BY <2>4, SubSeqProperties
  <2> QED
    BY <2>3, <2>5
<1> HIDE DEF Chunk
<1>3. PICK Bytes : Bytes = Seq(Nat)
  OBVIOUS
<1>4. s \in Seq(Bytes) /\ Len(s) = count /\ \A k \in 1..count : s[k] = Chunk(k)
  <2>1. s \in [1..count -> Bytes]
    BY <1>2, <1>3
  <2> QED
    BY <1>1, <2>1, SeqDef
<1>5. t \in Seq(Bytes) /\ Len(t) = 1 /\ t[1] = <<>>
  <2>1. <<>> \in Bytes
    BY <1>3, EmptySeq
  <2> QED
    BY <2>1
<1> HIDE DEF s, t
<1>6. /\ s \o t \in Seq(Bytes) /\ Len(s \o t) = Len(s) + Len(t)
      /\ \A k \in 1..Len(s) + Len(t) :
            (s \o t)[k] = IF k <= Len(s) THEN s[k] ELSE t[k - Len(s)]
  BY <1>4, <1>5, ConcatProperties
<1>7. (s \o t)[count + 1] = <<>>
  <2>1. count + 1 \in 1..count + 1 /\ ~(count + 1 <= count) /\ (count + 1) - count = 1
    BY <1>1
  <2> QED
    BY <1>4, <1>5, <1>6, <2>1
<1>8. \A k \in 1..count : (s \o t)[k] = Chunk(k)
  BY <1>1, <1>4, <1>5, <1>6
<1>9. ChunksOf(body, c) = s \o t
  BY DEF ChunksOf, ChunkCount, s, t, Chunk
<1>10. s \o t \in Seq(Seq(Nat)) /\ Len(s \o t) = count + 1
  BY <1>3, <1>4, <1>5, <1>6
<1> QED
  BY <1>7, <1>8, <1>9, <1>10 DEF Chunk

LEMMA Regrouped ==
    ASSUME NEW taken \in Seq(Nat), NEW bytes \in Seq(Nat), NEW left \in Seq(Nat)
    PROVE  (taken \o bytes) \o left = taken \o (bytes \o left)
BY SMTT(30), ConcatAssociative

\* A reader that has handed out bytes it held has not lost any.
LEMMA HandedOut ==
    ASSUME NEW body, NEW mode, NEW taken \in Seq(Nat), NEW bytes \in Seq(Nat),
           NEW rest \in Seq(Nat), NEW left, left = bytes \o rest, NEW chunks,
           OnWire(body, mode, taken, left, chunks)
    PROVE  OnWire(body, mode, taken \o bytes, rest, chunks)
<1>1. taken \o (bytes \o rest) = (taken \o bytes) \o rest
  BY Regrouped
<1> QED
  BY <1>1 DEF OnWire

\* The body begins with what has been taken.
LEMMA TakenIs ==
    ASSUME NEW body \in Seq(Nat), NEW mode, NEW taken \in Seq(Nat), NEW left \in Seq(Nat),
           NEW chunks, OnWire(body, mode, taken, left, chunks)
    PROVE  /\ Len(taken) <= Len(body)
           /\ \A x \in 1..Len(taken) : taken[x] = body[x]
           /\ mode = "signed" => \A x \in 1..Len(taken) : taken[x] # 0
<1>1. PICK c \in ChunkSizes : \E m \in 0..ChunkCount(Len(body), c) :
          Parsed(body, mode, c, m, taken \o left, chunks)
  BY DEF OnWire
<1>2. c \in Nat /\ c > 0 /\ Len(body) \in Nat /\ ChunkCount(Len(body), c) \in Nat
  BY BodyAssumption, LenProperties, ChunksCover
<1>3. PICK m \in Nat : Parsed(body, mode, c, m, taken \o left, chunks)
  BY <1>1, <1>2
<1>4. PICK got, k : got = taken \o left /\ k = Least(m * c, Len(body))
  OBVIOUS
<1>5. k \in Nat /\ k <= Len(body)
  <2>1. m * c \in Nat
    BY <1>2, ProductNat
  <2> QED
    BY <1>2, <1>4, <2>1 DEF Least
<1>6. \A x \in 1..k : body[x] \in Nat
  BY <1>2, <1>5, ElementOfSeq
<1>7. got = SubSeq(body, 1, k) /\ (mode = "signed" => \A x \in 1..Len(got) : got[x] # 0)
  BY <1>3, <1>4 DEF Parsed
<1>8. /\ got \in Seq(Nat) /\ Len(got) = k
      /\ \A x \in 1..k : got[x] = body[x]
  <2>1. /\ SubSeq(body, 1, k) \in Seq(Nat)
        /\ Len(SubSeq(body, 1, k)) = IF 1 <= k THEN k - 1 + 1 ELSE 0
        /\ \A x \in 1..k - 1 + 1 : SubSeq(body, 1, k)[x] = body[1 + x - 1]
    BY <1>5, <1>6, SubSeqProperties
  <2>2. \A x \in 1..k : x \in 1..k - 1 + 1 /\ 1 + x - 1 = x
    BY <1>5
  <2> QED
    BY <1>5, <1>7, <2>1, <2>2
<1>9. /\ Len(taken) \in Nat /\ Len(left) \in Nat /\ Len(got) = Len(taken) + Len(left)
      /\ \A x \in 1..Len(taken) : got[x] = taken[x]
  <2>1. Len(taken) \in Nat /\ Len(left) \in Nat
    BY LenProperties
  <2> QED
    BY <1>4, <2>1, ConcatProperties
<1>10. Len(taken) <= k
  BY <1>8, <1>9
<1>11. \A x \in 1..Len(taken) : x \in 1..k
  BY <1>5, <1>9, <1>10
<1>12. \A x \in 1..Len(taken) : taken[x] = body[x]
  BY <1>8, <1>9, <1>11
<1>13. mode = "signed" => \A x \in 1..Len(taken) : taken[x] # 0
  BY <1>7, <1>8, <1>9, <1>11
<1> QED
  BY <1>5, <1>8, <1>9, <1>10, <1>12, <1>13

\* There is a next chunk. The empty one comes when the whole body has been taken.
LEMMA NextChunk ==
    ASSUME NEW body \in Seq(Nat), NEW mode, NEW taken \in Seq(Nat), NEW left, left = <<>>,
           NEW chunks, OnWire(body, mode, taken, left, chunks)
    PROVE  /\ chunks # <<>>
           /\ Head(chunks) \in Seq(Nat) /\ Tail(chunks) \in Seq(Seq(Nat))
           /\ Head(chunks) = <<>> => taken = body
           /\ (/\ Head(chunks) # <<>>
               /\ mode = "signed" => \A x \in DOMAIN Head(chunks) : Head(chunks)[x] # 0)
              => OnWire(body, mode, taken, Head(chunks), Tail(chunks))
<1>1. PICK c \in ChunkSizes : \E m \in 0..ChunkCount(Len(body), c) :
          Parsed(body, mode, c, m, taken \o left, chunks)
  BY DEF OnWire
<1>2. PICK n, count : n = Len(body) /\ count = ChunkCount(n, c)
  OBVIOUS
<1>3. /\ c \in Nat /\ c > 0 /\ n \in Nat /\ count \in Nat /\ n <= count * c
      /\ \A m \in Nat : m < count => m * c < n
  BY <1>2, BodyAssumption, LenProperties, ChunksCover
<1>4. PICK m \in 0..count : Parsed(body, mode, c, m, taken \o left, chunks)
  BY <1>1, <1>2
<1>5. m \in Nat /\ m <= count /\ m * c \in Nat
  BY <1>3, <1>4, ProductNat
<1>6. taken \o left = taken
  BY ConcatEmptySeq
<1>7. PICK all : all = ChunksOf(body, c)
  OBVIOUS
<1>8. /\ all \in Seq(Seq(Nat)) /\ Len(all) = count + 1 /\ all[count + 1] = <<>>
      /\ \A k \in 1..count : all[k] = SubSeq(body, (k - 1) * c + 1, Least(k * c, n))
  BY <1>2, <1>3, <1>7, ChunksAre
<1>9. PICK Bytes : Bytes = Seq(Nat)
  OBVIOUS
<1>10. PICK a, z : a = m + 1 /\ z = count + 1
  OBVIOUS
<1>11. a \in 1..z /\ z \in Nat /\ a \in Nat /\ Len(all) = z /\ a \in 1..Len(all)
       /\ z \in a..Len(all)
  BY <1>3, <1>5, <1>8, <1>10
<1>12. chunks = SubSeq(all, a, z) /\ taken = SubSeq(body, 1, Least(m * c, n))
  BY <1>2, <1>4, <1>6, <1>7, <1>10 DEF Parsed
<1>13. all \in Seq(Bytes)
  BY <1>8, <1>9
<1>14. Head(chunks) = all[a] /\ Tail(chunks) = SubSeq(all, a + 1, z)
  BY <1>11, <1>12, <1>13, HeadTailOfSubSeq
<1>15. \A k \in 1..z : all[k] \in Bytes
  BY <1>11, <1>13, ElementOfSeq
<1>16. Len(chunks) = z - a + 1 /\ chunks \in Seq(Bytes)
  <2>1. \A k \in a..z : all[k] \in Bytes
    BY <1>11, <1>15
  <2> QED
    BY <1>11, <1>12, <2>1, SubSeqProperties
<1>17. chunks # <<>>
  <2>1. Len(chunks) > 0
    BY <1>11, <1>16
  <2> QED
    BY <2>1, EmptySeq
<1>18. Head(chunks) \in Seq(Nat) /\ Tail(chunks) \in Seq(Seq(Nat))
  <2>1. Head(chunks) \in Bytes /\ Tail(chunks) \in Seq(Bytes)
    BY <1>16, <1>17, HeadTailProperties
  <2> QED
    BY <1>9, <2>1
<1>19. CASE m = count
  <2>1. Least(m * c, n) = n
    BY <1>3, <1>5, <1>19 DEF Least
  <2>2. taken = body
    BY <1>2, <1>12, <2>1, SubSeqFull
  <2>3. Head(chunks) = <<>>
    BY <1>8, <1>10, <1>14, <1>19
  <2> QED
    BY <1>17, <1>18, <2>2, <2>3
<1>20. CASE m < count
  <2>1. m * c < n
    BY <1>3, <1>5, <1>20
  <2>2. PICK lo, hi, p : lo = m * c /\ p = (m + 1) * c /\ hi = Least(p, n)
    OBVIOUS
  <2>3. p = lo + c
    BY <1>3, <1>5, <2>2, NextProduct
  <2>4. lo \in Nat /\ hi \in Nat /\ lo < hi /\ hi <= n /\ Least(lo, n) = lo
    BY <1>3, <1>5, <2>1, <2>2, <2>3 DEF Least
  <2>5. a \in 1..count /\ a - 1 = m
    BY <1>3, <1>5, <1>10, <1>20
  <2>6. Head(chunks) = SubSeq(body, lo + 1, hi)
    BY <1>8, <1>10, <1>14, <2>2, <2>5
  <2>7. taken = SubSeq(body, 1, lo)
    BY <1>12, <2>2, <2>4
  <2>8. taken \o Head(chunks) = SubSeq(body, 1, hi)
    <3>1. 1 \in 1..Len(body) + 1 /\ lo \in 1 - 1..Len(body) /\ hi \in lo..Len(body)
      BY <1>2, <1>3, <2>4
    <3>2. SubSeq(body, 1, lo) \o SubSeq(body, lo + 1, hi) = SubSeq(body, 1, hi)
      BY <3>1, ConcatAdjacentSubSeq
    <3> QED
      BY <2>6, <2>7, <3>2
  <2>9. Head(chunks) # <<>>
    <3>1. \A x \in lo + 1..hi : body[x] \in Nat
      <4>1. \A x \in lo + 1..hi : x \in 1..Len(body)
        BY <1>2, <1>3, <2>4
      <4> QED
        BY <4>1, ElementOfSeq
    <3>2. lo + 1 \in Int /\ hi \in Int /\ lo + 1 <= hi
      BY <2>4
    <3>3. Len(SubSeq(body, lo + 1, hi)) = hi - (lo + 1) + 1
      BY <3>1, <3>2, SubSeqProperties
    <3>4. Len(Head(chunks)) > 0
      BY <2>4, <2>6, <3>3
    <3> QED
      BY <3>4, EmptySeq
  <2>10. ASSUME mode = "signed" => \A x \in DOMAIN Head(chunks) : Head(chunks)[x] # 0
         PROVE  OnWire(body, mode, taken, Head(chunks), Tail(chunks))
    <3>1. PICK got, h, t : got = taken \o Head(chunks) /\ h = Head(chunks) /\ t = Tail(chunks)
      OBVIOUS
    <3>2. h \in Seq(Nat) /\ got = taken \o h
      BY <1>18, <3>1
    <3>3. ASSUME mode = "signed" PROVE \A x \in 1..Len(got) : got[x] # 0
      <4>1. \A x \in 1..Len(taken) : taken[x] # 0
        BY <1>4, <1>6, <3>3 DEF Parsed
      <4>2. \A x \in 1..Len(h) : h[x] # 0
        <5>1. DOMAIN h = 1..Len(h)
          BY <3>2, LenProperties
        <5> QED
          BY <2>10, <3>1, <3>3, <5>1
      <4>3. Len(taken) \in Nat /\ Len(h) \in Nat
        BY <3>2, LenProperties
      <4>4. /\ Len(got) = Len(taken) + Len(h)
            /\ \A x \in 1..Len(taken) + Len(h) :
                  got[x] = IF x <= Len(taken) THEN taken[x] ELSE h[x - Len(taken)]
        BY <3>2, ConcatProperties
      <4>5. \A x \in 1..Len(got) :
                IF x <= Len(taken) THEN x \in 1..Len(taken) ELSE x - Len(taken) \in 1..Len(h)
        BY <4>3, <4>4
      <4>6. \A x \in 1..Len(got) : x \in 1..Len(taken) + Len(h)
        BY <4>4
      <4> QED
        BY <4>1, <4>2, <4>4, <4>5, <4>6
    <3>4. PICK next \in 0..count : next = m + 1
      BY <1>3, <1>5, <1>20
    <3>5. t = SubSeq(all, next + 1, z) /\ got = SubSeq(body, 1, Least(next * c, n))
      BY <1>10, <1>14, <2>2, <2>8, <3>1, <3>4
    <3>6. Parsed(body, mode, c, next, got, t)
      BY <1>2, <1>7, <1>10, <3>3, <3>5 DEF Parsed
    <3>7. OnWire(body, mode, taken, h, t)
      BY <1>2, <3>2, <3>6 DEF OnWire
    <3> QED
      BY <3>1, <3>7
  <2> QED
    BY <1>17, <1>18, <2>9, <2>10
<1> QED
  BY <1>5, <1>19, <1>20, <1>3

LEMMA WireStart ==
    ASSUME NEW body \in Seq(Nat), NEW mode, NEW c \in ChunkSizes
    PROVE  /\ OnWire(body, mode, <<>>, <<>>, ChunksOf(body, c))
           /\ ChunksOf(body, c) \in Seq(Seq(Nat))
<1>1. PICK n, count : n = Len(body) /\ count = ChunkCount(n, c)
  OBVIOUS
<1>2. c \in Nat /\ c > 0 /\ n \in Nat /\ count \in Nat
  BY <1>1, BodyAssumption, LenProperties, ChunksCover
<1>3. PICK all : all = ChunksOf(body, c)
  OBVIOUS
<1>4. all \in Seq(Seq(Nat)) /\ Len(all) = count + 1
  BY <1>1, <1>2, <1>3, ChunksAre
<1>5. PICK Bytes : Bytes = Seq(Nat)
  OBVIOUS
<1>6. SubSeq(all, 1, count + 1) = all
  <2>1. all \in Seq(Bytes)
    BY <1>4, <1>5
  <2>2. SubSeq(all, 1, Len(all)) = all
    BY <2>1, SubSeqFull
  <2> QED
    BY <1>4, <2>2
<1>7. PICK m, got : m = 0 /\ got = <<>>
  OBVIOUS
<1>8. m + 1 = 1 /\ m \in 0..count /\ m * c = 0
  BY <1>2, <1>7
<1>9. got = SubSeq(body, 1, Least(m * c, n))
  <2>1. PICK k \in Int : k = Least(m * c, n) /\ k = 0
    BY <1>2, <1>8 DEF Least
  <2>2. SubSeq(body, 1, k) = <<>>
    BY <2>1, SubSeqEmpty
  <2> QED
    BY <1>7, <2>1, <2>2
<1>10. Len(got) = 0
  BY <1>7, EmptySeq
<1>11. Parsed(body, mode, c, m, got, all)
  <2>1. all = SubSeq(ChunksOf(body, c), m + 1, ChunkCount(Len(body), c) + 1)
    BY <1>1, <1>3, <1>6, <1>8
  <2>2. got = SubSeq(body, 1, Least(m * c, Len(body)))
    BY <1>1, <1>9
  <2>3. \A x \in 1..Len(got) : got[x] # 0
    BY <1>10
  <2> QED
    BY <2>1, <2>2, <2>3 DEF Parsed
<1>12. <<>> \o <<>> = got
  <2>1. <<>> \in Seq(Nat)
    BY EmptySeq
  <2> QED
    BY <1>7, <2>1, ConcatEmptySeq
<1>13. \E j \in 0..ChunkCount(Len(body), c) : Parsed(body, mode, c, j, <<>> \o <<>>, all)
  BY <1>1, <1>8, <1>11, <1>12
<1> QED
  BY <1>3, <1>4, <1>13 DEF OnWire

\* What every Read of the body returns, when taken has been taken of it.
GoodRead(read, taken, want) ==
    /\ read.bytes \in Seq(Nat) /\ read.left \in Seq(Nat) /\ read.chunks \in Seq(Seq(Nat))
    /\ Len(read.bytes) <= want
    /\ read.err \in {"nil", "eof", "bad", "broken"}
    /\ read.err = "nil" \/ read.bytes # <<>> =>
          Ahead(taken \o read.bytes, read.left, read.chunks)
    /\ read.err = "eof" => Kept(taken \o read.bytes)

LEMMA ResultIs ==
    ASSUME NEW bytes, NEW err, NEW left, NEW chunks, NEW read,
           read = Result(bytes, err, left, chunks)
    PROVE  read.bytes = bytes /\ read.err = err /\ read.left = left /\ read.chunks = chunks
BY DEF Result

LEMMA Empties == <<>> \in Seq(Nat) /\ <<>> \in Seq(Seq(Nat)) /\ Len(<<>>) = 0
BY EmptySeq

LEMMA PutNumbers ==
    ASSUME put \in PutState
    PROVE  put.n \in Nat /\ put.altered \in Nat /\ put.declared \in Nat
<1>1. PICK n : n = put.n
  OBVIOUS
<1>2. n \in BodySizes \cup {0}
  BY <1>1, Zenon DEF PutState
<1>3. n \in Nat
  <2>1. BodySizes \subseteq Nat
    BY Zenon, BodyAssumption
  <2> QED
    BY <1>2, <2>1
<1>4. put.altered \in Nat
  BY Zenon DEF PutState
<1>5. put.declared \in Nat
  BY Zenon DEF PutState
<1> QED
  BY <1>1, <1>3, <1>4, <1>5, Zenon

LEMMA BodyIs ==
    ASSUME put \in PutState, put.altered <= put.n
    PROVE  /\ Body \in Seq(Nat) /\ Len(Body) = put.n /\ put.n \in Nat /\ put.altered \in Nat
           /\ (\A x \in 1..put.n : Body[x] # 0) => put.altered = 0
<1>1. put.n \in Nat /\ put.altered \in Nat
  BY PutNumbers
<1>2. /\ Body \in Seq(Nat) /\ Len(Body) = put.n
      /\ \A x \in 1..put.n : Body[x] = IF x = put.altered THEN 0 ELSE x
  BY <1>1, ArrivedIs DEF Body
<1>3. ASSUME \A x \in 1..put.n : Body[x] # 0, put.altered # 0 PROVE FALSE
  <2>1. put.altered \in 1..put.n
    BY <1>1, <1>3
  <2> QED
    BY <1>2, <1>3, <2>1
<1> QED
  BY <1>1, <1>2, <1>3

LEMMA BrokenRead ==
    ASSUME NEW taken \in Seq(Nat), NEW want \in Nat, NEW read, NEW err \in {"bad", "broken"},
           read = Result(<<>>, err, <<>>, <<>>)
    PROVE  GoodRead(read, taken, want)
<1>1. read.bytes = <<>> /\ read.err = err /\ read.left = <<>> /\ read.chunks = <<>>
  BY ResultIs
<1>2. Len(<<>>) <= want
  BY Empties
<1> QED
  BY <1>1, <1>2, Empties DEF GoodRead

\* Bytes that the reader already holds are handed out, from chunks or from anything else.
LEMMA HeldRead ==
    ASSUME NEW taken \in Seq(Nat), NEW want \in Nat, NEW held \in Seq(Nat),
           NEW chunks \in Seq(Seq(Nat)), Ahead(taken, held, chunks),
           NEW read, read = Take(want, held, chunks)
    PROVE  GoodRead(read, taken, want)
<1>1. PICK bytes, left : /\ bytes = SubSeq(held, 1, Least(want, Len(held)))
                         /\ left = SubSeq(held, want + 1, Len(held))
  OBVIOUS
<1>2. bytes \in Seq(Nat) /\ left \in Seq(Nat) /\ bytes \o left = held /\ Len(bytes) <= want
  BY <1>1, TakeIs
<1>3. read.bytes = bytes /\ read.err = "nil" /\ read.left = left /\ read.chunks = chunks
  <2>1. read = Result(bytes, "nil", left, chunks)
    BY <1>1 DEF Take
  <2> QED
    BY <2>1, ResultIs
<1>4. Ahead(taken \o bytes, left, chunks)
  <2>1. CASE FromChunks
    <3>1. OnWire(Body, put.mode, taken, held, chunks)
      BY <2>1 DEF Ahead
    <3>2. OnWire(Body, put.mode, taken \o bytes, left, chunks)
      BY <1>2, <3>1, HandedOut
    <3> QED
      BY <2>1, <3>2 DEF Ahead
  <2>2. CASE ~FromChunks
    <3>1. chunks = <<>> /\ taken \o held = Source
      BY <2>2 DEF Ahead
    <3>2. (taken \o bytes) \o left = taken \o (bytes \o left)
      BY <1>2, Regrouped
    <3> QED
      BY <1>2, <2>2, <3>1, <3>2 DEF Ahead
  <2> QED
    BY <2>1, <2>2
<1> QED
  BY <1>2, <1>3, <1>4 DEF GoodRead

\* From a reader with chunks on the wire.
LEMMA ChunkReadIs ==
    ASSUME put \in PutState, put.altered <= put.n, FromChunks,
           NEW taken \in Seq(Nat), Ahead(taken, put.left, put.chunks),
           NEW want \in Nat, NEW read \in ChunkReads(want)
    PROVE  GoodRead(read, taken, want)
<1>1. PICK held, chunks : held = put.left /\ chunks = put.chunks
  OBVIOUS
<1>2. held \in Seq(Nat)
  BY <1>1 DEF PutState
<1>3. chunks \in Seq(Seq(Nat))
  BY <1>1, Zenon DEF PutState
<1>4. OnWire(Body, put.mode, taken, held, chunks)
  BY <1>1 DEF Ahead
<1>5. CASE held # <<>>
  <2>1. read = Take(want, held, chunks)
    BY <1>1, <1>5 DEF ChunkReads
  <2> QED
    BY <1>1, <1>2, <1>3, <2>1, HeldRead
<1>6. CASE held = <<>>
  <2>1. PICK chunk, rest : chunk = Head(chunks) /\ rest = Tail(chunks)
    OBVIOUS
  <2>2. /\ chunks # <<>> /\ chunk \in Seq(Nat) /\ rest \in Seq(Seq(Nat))
        /\ chunk = <<>> => taken = Body
        /\ (/\ chunk # <<>>
            /\ put.mode = "signed" => \A x \in DOMAIN chunk : chunk[x] # 0)
           => OnWire(Body, put.mode, taken, chunk, rest)
    BY <1>4, <1>6, <2>1, BodyIs, NextChunk
  <2>3. \/ read = Broken
        \/ ~Verifies(chunk) /\ read = Result(<<>>, "bad", <<>>, <<>>)
        \/ (chunk = <<>> \/ put.short) /\ read = Ended
        \/ Verifies(chunk) /\ chunk # <<>> /\ read = Take(want, chunk, rest)
    BY <1>1, <1>6, <2>1, <2>2 DEF ChunkReads
  <2>4. CASE read = Broken
    BY <2>4, BrokenRead DEF Broken
  <2>5. CASE read = Result(<<>>, "bad", <<>>, <<>>)
    BY <2>5, BrokenRead
  <2>6. CASE (chunk = <<>> \/ put.short) /\ read = Ended
    <3>1. read.bytes = <<>> /\ read.err = "eof" /\ read.left = <<>> /\ read.chunks = <<>>
      BY <2>6, ResultIs DEF Ended
    <3>2. taken \o <<>> = taken
      BY ConcatEmptySeq
    <3>3. /\ Len(taken) <= Len(Body) /\ \A x \in 1..Len(taken) : taken[x] = Body[x]
          /\ put.mode = "signed" => \A x \in 1..Len(taken) : taken[x] # 0
      BY <1>2, <1>4, BodyIs, TakenIs
    <3>4. Len(taken) = put.n \/ put.short
      BY <2>2, <2>6, BodyIs
    <3>5. Kept(taken)
      BY <3>3, <3>4, BodyIs DEF Kept, Begins, Clean, FromChunks, Chunked
    <3> QED
      BY <3>1, <3>2, <3>5, Empties DEF GoodRead
  <2>7. CASE Verifies(chunk) /\ chunk # <<>> /\ read = Take(want, chunk, rest)
    <3>1. Ahead(taken, chunk, rest)
      BY <2>2, <2>7 DEF Ahead, Verifies
    <3> QED
      BY <2>2, <2>7, <3>1, HeldRead
  <2> QED
    BY <2>3, <2>4, <2>5, <2>6, <2>7
<1> QED
  BY <1>5, <1>6

\* From a reader without.
LEMMA PlainReadIs ==
    ASSUME put \in PutState, put.altered <= put.n, put.mode \notin Chunked, ~Staged,
           NEW taken \in Seq(Nat), Ahead(taken, put.left, put.chunks),
           NEW want \in Nat, NEW read \in PlainReads(want)
    PROVE  GoodRead(read, taken, want)
<1>1. PICK held : held = put.left
  OBVIOUS
<1>2. held \in Seq(Nat) /\ Len(held) \in Nat /\ \A x \in 1..Len(held) : held[x] \in Nat
  <2>1. held \in Seq(Nat)
    BY <1>1 DEF PutState
  <2> QED
    BY <2>1, LenProperties, ElementOfSeq
<1>3. put.chunks = <<>> /\ taken \o held = Body /\ ~FromChunks
  BY <1>1 DEF Ahead, Source, FromChunks
<1>4. \/ read = Broken
      \/ \E k \in 1..Least(want, Len(held)) :
            read = Result(SubSeq(held, 1, k), "nil", SubSeq(held, k + 1, Len(held)), <<>>)
      \/ Len(held) <= want /\ read = Result(held, PlainEnd, <<>>, <<>>)
  BY <1>1 DEF PlainReads
<1>5. CASE read = Broken
  BY <1>5, BrokenRead DEF Broken
<1>6. ASSUME NEW k \in 1..Least(want, Len(held)),
             read = Result(SubSeq(held, 1, k), "nil", SubSeq(held, k + 1, Len(held)), <<>>)
      PROVE  GoodRead(read, taken, want)
  <2>1. k \in Nat /\ k <= Len(held) /\ k <= want
    BY <1>2 DEF Least
  <2>2. PICK bytes, left : bytes = SubSeq(held, 1, k) /\ left = SubSeq(held, k + 1, Len(held))
    OBVIOUS
  <2>3. read.bytes = bytes /\ read.err = "nil" /\ read.left = left /\ read.chunks = <<>>
    <3>1. read = Result(bytes, "nil", left, <<>>)
      BY <1>6, <2>2
    <3> QED
      BY <3>1, ResultIs
  <2>4. bytes = SubSeq(held, 1, Least(k, Len(held)))
    BY <1>2, <2>1, <2>2 DEF Least
  <2>5. bytes \in Seq(Nat) /\ left \in Seq(Nat) /\ bytes \o left = held /\ Len(bytes) <= k
    BY <1>2, <2>1, <2>2, <2>4, TakeIs
  <2>6. (taken \o bytes) \o left = taken \o (bytes \o left)
    BY <2>5, Regrouped
  <2>7. Ahead(taken \o bytes, left, <<>>)
    <3>1. (taken \o bytes) \o left = Body
      BY <1>3, <2>5, <2>6
    <3> QED
      BY <1>3, <3>1 DEF Ahead, Source
  <2>8. Len(bytes) <= want
    <3>1. Len(bytes) \in Nat
      <4>1. bytes \in Seq(Nat)
        BY <2>5
      <4> QED
        BY <4>1, LenProperties
    <3> QED
      BY <2>1, <2>5, <3>1
  <2> QED
    BY <2>3, <2>5, <2>7, <2>8, Empties DEF GoodRead
<1>7. CASE Len(held) <= want /\ read = Result(held, PlainEnd, <<>>, <<>>)
  <2>1. PICK err : err = PlainEnd
    OBVIOUS
  <2>2. read.bytes = held /\ read.err = err /\ read.left = <<>> /\ read.chunks = <<>>
    BY <1>7, <2>1, ResultIs
  <2>3. err \in {"eof", "bad"}
    BY <2>1 DEF PlainEnd
  <2>4. Ahead(taken \o held, <<>>, <<>>)
    <3>1. taken \o held \in Seq(Nat)
      BY <1>2, ConcatProperties
    <3>2. (taken \o held) \o <<>> = taken \o held
      BY <3>1, ConcatEmptySeq
    <3> QED
      BY <1>3, <3>2 DEF Ahead, Source
  <2>5. ASSUME err = "eof" PROVE Kept(Body)
    <3>1. put.n \in Nat /\ put.altered \in Nat
      BY PutNumbers
    <3>2. put.mode = "hashed" => put.altered = 0
      BY <2>1, <2>5 DEF PlainEnd
    <3>3. /\ Body \in Seq(Nat) /\ Len(Body) = put.n
          /\ \A x \in 1..put.n : Body[x] = IF x = put.altered THEN 0 ELSE x
      BY <3>1, ArrivedIs DEF Body
    <3>4. ASSUME put.mode = "hashed", NEW x \in 1..Len(Body) PROVE Body[x] # 0
      <4>1. x \in 1..put.n /\ x # 0
        BY <3>1, <3>3
      <4>2. Body[x] = IF x = 0 THEN 0 ELSE x
        BY <3>2, <3>3, <3>4, <4>1
      <4> QED
        BY <4>1, <4>2
    <3>5. put.mode # "signed"
      BY DEF Chunked
    <3>6. Begins(Body)
      BY <3>1, <3>3 DEF Begins
    <3> QED
      BY <3>3, <3>4, <3>5, <3>6 DEF Kept, Clean
  <2> QED
    BY <1>2, <1>3, <1>7, <2>2, <2>3, <2>4, <2>5, Empties DEF GoodRead
<1> QED
  BY <1>4, <1>5, <1>6, <1>7

LEMMA BodyReadIs ==
    ASSUME put \in PutState, put.altered <= put.n, put.pc = "stage" \/ put.header # "none",
           NEW taken \in Seq(Nat), Ahead(taken, put.left, put.chunks),
           NEW want \in Nat, NEW read \in BodyReads(want)
    PROVE  GoodRead(read, taken, want)
<1>1. CASE put.mode \in Chunked
  BY <1>1, ChunkReadIs DEF BodyReads, FromChunks
<1>2. CASE put.mode \notin Chunked
  BY <1>2, PlainReadIs DEF BodyReads, Staged
<1> QED
  BY <1>1, <1>2

\* What the encrypter and UploadPart read is as good: the body, or its staged file.
LEMMA ReadIs ==
    ASSUME put \in PutState, put.altered <= put.n, put.pc \in {"seal", "receive"},
           Staged => Kept(put.file),
           NEW taken \in Seq(Nat), Ahead(taken, put.left, put.chunks),
           NEW want \in Nat, NEW read \in Reads(want)
    PROVE  GoodRead(read, taken, want)
<1>1. CASE put.header # "none"
  BY <1>1, BodyReadIs DEF Reads
<1>2. CASE put.header = "none"
  <2>1. PICK held : held = put.left
    OBVIOUS
  <2>2. held \in Seq(Nat)
    BY <2>1 DEF PutState
  <2>3. Kept(put.file) /\ Staged /\ ~FromChunks
    BY <1>2 DEF Staged, FromChunks
  <2>4. Ahead(taken, held, <<>>) /\ taken \o held = put.file
    BY <2>1, <2>3 DEF Ahead, Source
  <2>5. CASE held = <<>>
    <3>1. read = Result(<<>>, "eof", <<>>, <<>>)
      BY <1>2, <2>1, <2>5 DEF Reads, Ended
    <3>2. read.bytes = <<>> /\ read.err = "eof" /\ read.left = <<>> /\ read.chunks = <<>>
      BY <3>1, ResultIs
    <3>3. Len(<<>>) <= want
      BY Empties
    <3> QED
      BY <2>3, <2>4, <2>5, <3>2, <3>3, Empties DEF GoodRead
  <2>6. CASE held # <<>>
    <3>1. read = Take(want, held, <<>>)
      BY <1>2, <2>1, <2>6 DEF Reads
    <3> QED
      BY <2>2, <2>4, <3>1, HeldRead, Empties
  <2> QED
    BY <2>5, <2>6
<1> QED
  BY <1>1, <1>2

\* Bytes that something begins with are the beginning of it.
LEMMA BeginningIs ==
    ASSUME NEW whole \in Seq(Nat), NEW taken \in Seq(Nat), Len(taken) <= Len(whole),
           \A x \in 1..Len(taken) : taken[x] = whole[x]
    PROVE  taken = SubSeq(whole, 1, Len(taken))
<1>1. PICK l \in Nat : l = Len(taken)
  BY LenProperties
<1>2. Len(whole) \in Nat /\ \A x \in 1..l : x \in 1..Len(whole)
  BY <1>1, LenProperties
<1>3. \A x \in 1..l : whole[x] \in Nat
  BY <1>2, ElementOfSeq
<1>4. /\ SubSeq(whole, 1, l) \in Seq(Nat)
      /\ Len(SubSeq(whole, 1, l)) = IF 1 <= l THEN l - 1 + 1 ELSE 0
      /\ \A x \in 1..l - 1 + 1 : SubSeq(whole, 1, l)[x] = whole[1 + x - 1]
  BY <1>1, <1>3, SubSeqProperties
<1>5. \A x \in 1..l : x \in 1..l - 1 + 1 /\ 1 + x - 1 = x
  OBVIOUS
<1>6. PICK t : t = SubSeq(whole, 1, l)
  OBVIOUS
<1>7. t \in Seq(Nat) /\ Len(t) = Len(taken) /\ \A x \in 1..l : t[x] = taken[x]
  BY <1>1, <1>4, <1>5, <1>6
<1>8. taken = t
  BY <1>1, <1>7, SeqEqual
<1> QED
  BY <1>1, <1>6, <1>8

\* The body begins with what has been taken of it, from the wire or from the staged file.
LEMMA AheadIs ==
    ASSUME put \in PutState, put.altered <= put.n, Staged => Kept(put.file),
           NEW taken \in Seq(Nat), NEW left \in Seq(Nat), NEW chunks, Ahead(taken, left, chunks)
    PROVE  /\ Len(taken) \in Nat /\ Begins(taken)
           /\ FromChunks /\ put.mode = "signed" => Clean(taken)
           /\ Staged /\ Len(taken) = Len(put.file) => taken = put.file
<1>1. PICK body : body = Body
  OBVIOUS
<1>2. body \in Seq(Nat) /\ Len(body) = put.n /\ put.n \in Nat
  BY <1>1, BodyIs
<1>3. Len(taken) \in Nat /\ Len(left) \in Nat
  BY LenProperties
<1>4. CASE FromChunks
  <2>1. OnWire(body, put.mode, taken, left, chunks)
    BY <1>1, <1>4 DEF Ahead
  <2>2. /\ Len(taken) <= Len(body) /\ \A x \in 1..Len(taken) : taken[x] = body[x]
        /\ put.mode = "signed" => \A x \in 1..Len(taken) : taken[x] # 0
    BY <1>2, <2>1, TakenIs
  <2>3. ~Staged
    BY <1>4 DEF FromChunks, Staged
  <2> QED
    BY <1>1, <1>2, <1>3, <2>2, <2>3 DEF Begins, Clean
<1>5. CASE ~FromChunks
  <2>1. PICK whole : whole = Source /\ whole = taken \o left
    BY <1>5 DEF Ahead
  <2>2. /\ Len(whole) = Len(taken) + Len(left)
        /\ \A x \in 1..Len(taken) : whole[x] = taken[x]
    BY <1>3, <2>1, ConcatProperties
  <2>3. Begins(whole)
    BY <1>1, <1>2, <2>1 DEF Source, Kept, Begins
  <2>4. Begins(taken)
    <3>1. Len(taken) <= Len(whole) /\ Len(whole) <= put.n
      BY <1>3, <2>2, <2>3 DEF Begins
    <3>2. \A x \in 1..Len(taken) : x \in 1..Len(whole)
      BY <1>3, <2>2
    <3> QED
      BY <1>2, <1>3, <2>2, <2>3, <3>1, <3>2 DEF Begins
  <2>5. ASSUME Staged, Len(taken) = Len(put.file) PROVE taken = put.file
    <3>1. whole = put.file
      BY <2>1, <2>5 DEF Source
    <3>2. Len(left) = 0
      BY <1>3, <2>2, <2>5, <3>1
    <3>3. left = <<>>
      BY <3>2, EmptySeq
    <3> QED
      BY <2>1, <3>1, <3>3, ConcatEmptySeq
  <2> QED
    BY <1>3, <1>5, <2>4, <2>5
<1> QED
  BY <1>4, <1>5

\* The request stays the one whose body is received.
SameBody ==
    /\ put'.n = put.n /\ put'.altered = put.altered /\ put'.short = put.short
    /\ put'.mode = put.mode /\ put'.header = put.header /\ put'.target = put.target

LEMMA KeptStays ==
    ASSUME SameBody, NEW taken, Kept(taken)
    PROVE  Kept(taken)'
BY DEF SameBody, Kept, Begins, Clean, Body

LEMMA AheadStays ==
    ASSUME SameBody, FromChunks' <=> FromChunks, Staged' <=> Staged,
           Staged => put'.file = put.file,
           NEW taken, NEW left, NEW chunks, Ahead(taken, left, chunks)
    PROVE  Ahead(taken, left, chunks)'
<1>1. Body' = Body /\ Source' = Source
  BY DEF Body, Source, SameBody
<1>2. CASE FromChunks
  BY <1>1, <1>2 DEF Ahead, SameBody
<1>3. CASE ~FromChunks
  BY <1>1, <1>3 DEF Ahead, SameBody
<1> QED
  BY <1>2, <1>3

-----------------------------------------------------------------------------
(* Steps of a PUT *)

\* What a request keeps when it is answered, or has taken a part of its body.
OtherFields ==
    /\ SameBody
    /\ put'.declared = put.declared /\ put'.file = put.file /\ put'.cleanup = put.cleanup

LEMMA AnswerFields ==
    ASSUME put \in PutState,
           NEW a \in {"ok", "error", "EntityTooLarge", "InvalidArgument"}, AnswerPut(a)
    PROVE  /\ put' \in PutState /\ put'.pc = "done" /\ put'.answer = a
           /\ OtherFields /\ put'.plain = put.plain
<1>1. put' = [put EXCEPT !.pc = "done", !.answer = a]
  BY DEF AnswerPut
<1>2. put' \in PutState
  BY <1>1 DEF PutState
<1>3. put'.pc = "done" /\ put'.answer = a /\ put'.plain = put.plain
  BY <1>1 DEF PutState
<1>4. OtherFields
  BY <1>1 DEF PutState, OtherFields, SameBody
<1> QED
  BY <1>2, <1>3, <1>4

\* The limit that the refusal of a body as too large has to prove.
TooLarge ==
    IF put.target = "part" THEN put.n > MaxObjectSize
    ELSE CiphertextSize(BodySize(put.mode, "length", put.n)) > MaxObjectSize

LEMMA AnswerKeeps ==
    ASSUME WriteInv, NEW a \in {"ok", "error", "EntityTooLarge", "InvalidArgument"}, AnswerPut(a),
           a = "ok" => put.target = "object",
           a = "EntityTooLarge" => TooLarge,
           temp' = FALSE \/ (temp' = temp /\ put.pc # "stage")
    PROVE  WriteInv'
<1>1. /\ put' \in PutState /\ put'.pc = "done" /\ put'.answer = a
      /\ OtherFields /\ put'.plain = put.plain
  BY AnswerFields DEF WriteInv
<1>2. put'.altered <= put'.n
  BY <1>1 DEF OtherFields, SameBody, WriteInv
<1>3. temp' \in BOOLEAN /\ (temp' => put'.cleanup)
  <2>1. temp \in BOOLEAN /\ (temp => put.pc = "stage" \/ put.cleanup)
    BY DEF WriteInv
  <2>2. put'.cleanup = put.cleanup
    BY <1>1 DEF OtherFields
  <2>3. CASE temp' = FALSE
    BY <2>3
  <2>4. CASE temp' = temp /\ put.pc # "stage"
    BY <2>1, <2>2, <2>4
  <2> QED
    BY <2>3, <2>4
<1>4. TransferInv'
  BY <1>1 DEF TransferInv, Staged
<1>5. AcceptedRight'
  BY <1>1 DEF AcceptedRight, StoredAsSent, AlterationsFound, Accepted, OtherFields, SameBody
<1>6. LimitsExact'
  <2>1. Len(put'.file) <= MaxObjectSize + 1
    BY <1>1 DEF WriteInv, LimitsExact, OtherFields
  <2>2. put'.answer = "EntityTooLarge" =>
          IF put'.target = "part" THEN put'.n > MaxObjectSize
          ELSE CiphertextSize(BodySize(put'.mode, "length", put'.n)) > MaxObjectSize
    BY <1>1 DEF OtherFields, SameBody, TooLarge
  <2> QED
    BY <1>1, <2>1, <2>2 DEF LimitsExact
<1> QED
  BY <1>1, <1>2, <1>3, <1>4, <1>5, <1>6 DEF WriteInv

\* A size is at most the one that a Content-Length gives, and never less than the body's.
LEMMA SizeGiven ==
    ASSUME NEW mode, NEW header \in {"decoded", "length"}, NEW n \in Nat
    PROVE  /\ BodySize(mode, header, n) \in Nat /\ BodySize(mode, "length", n) \in Nat
           /\ n <= BodySize(mode, header, n)
           /\ BodySize(mode, header, n) <= BodySize(mode, "length", n)
BY DEF BodySize

LEMMA DeclaredIs ==
    ASSUME WriteInv, put.pc \in {"check", "seal", "receive"}
    PROVE  /\ ~Staged => put.n <= put.declared
           /\ BodySize(put.mode, "length", put.n) \in Nat
           /\ put.declared <= BodySize(put.mode, "length", put.n)
<1>1. put.n \in Nat /\ put.declared \in Nat
  BY PutNumbers DEF WriteInv
<1>2. PICK mode, header, n : mode = put.mode /\ header = put.header /\ n = put.n
  OBVIOUS
<1>3. header \in SizeHeader
  <2>1. put \in PutState
    BY DEF WriteInv
  <2>2. put.header \in SizeHeader
    BY <2>1, Zenon DEF PutState
  <2> QED
    BY <1>2, <2>2
<1>4. /\ put.declared = IF Staged THEN Len(put.file) ELSE BodySize(mode, header, n)
      /\ Staged => Len(put.file) <= n
  BY <1>2 DEF WriteInv, TransferInv, Kept, Begins
<1>5. CASE header = "none"
  <2>1. n <= BodySize(mode, "length", n) /\ BodySize(mode, "length", n) \in Nat
    BY <1>1, <1>2, SizeGiven
  <2>2. Staged /\ put.declared <= n
    BY <1>2, <1>4, <1>5 DEF Staged
  <2> QED
    BY <1>1, <1>2, <2>1, <2>2
<1>6. CASE header # "none"
  <2>1. header \in {"decoded", "length"} /\ ~Staged
    BY <1>2, <1>3, <1>6 DEF SizeHeader, Staged
  <2> QED
    BY <1>1, <1>2, <1>4, <1>6, <2>1, SizeGiven
<1> QED
  BY <1>5, <1>6

LEMMA SizedEnough ==
    ASSUME NEW m, NEW n, m \in Nat, n \in Nat, m <= n, m > MaxObjectSize
    PROVE  CiphertextSize(n) > MaxObjectSize
<1>1. n <= CiphertextSize(n) /\ CiphertextSize(n) \in Nat /\ MaxObjectSize \in Nat
  BY LastFrameEnds, BodyAssumption
<1> QED
  BY <1>1

\* A body that was kept, and whose size was met where one was declared, may be accepted.
KeptState ==
    /\ put \in PutState /\ put.altered <= put.n
    /\ Kept(put.plain)
    /\ put.header = "none" \/ Len(put.plain) = put.n

LEMMA KeptIs == KeptState => AcceptedRight
<1> SUFFICES ASSUME KeptState PROVE AcceptedRight
  OBVIOUS
<1> USE DEF KeptState
<1>1. put.plain \in Seq(Nat)
  BY DEF PutState
<1>2. Body \in Seq(Nat) /\ Len(Body) = put.n
  BY BodyIs
<1>3. put.plain = SubSeq(Body, 1, Len(put.plain))
  BY <1>1, <1>2, BeginningIs DEF Kept, Begins
<1>4. DOMAIN put.plain = 1..Len(put.plain)
  BY <1>1, LenProperties
<1>5. put.mode \in {"signed", "hashed"} => Unaltered
  BY <1>4 DEF Kept, Clean, Unaltered
<1>6. Len(put.plain) = put.n \/ (put.short /\ put.header = "none")
  BY DEF Kept
<1> QED
  BY <1>3, <1>5, <1>6 DEF AcceptedRight, StoredAsSent, AlterationsFound, Body

\* The backend has got what the client sent, when it has got all it was told.
SealState ==
    /\ put \in PutState /\ put.altered <= put.n
    /\ put.pc = "seal" /\ put.target = "object"
    /\ Staged => Kept(put.file) /\ put.declared = Len(put.file)
    /\ ~Staged => put.n <= put.declared
    /\ Ahead(put.plain, put.left, put.chunks)

LEMMA SealedIs == SealState => AcceptedRight
<1> SUFFICES ASSUME SealState, Len(put.plain) = put.declared PROVE AcceptedRight
  BY DEF AcceptedRight, StoredAsSent, AlterationsFound, Accepted, SealState
<1>1. put.n \in Nat /\ put.altered \in Nat /\ put.declared \in Nat
  BY PutNumbers DEF SealState
<1>2. put.plain \in Seq(Nat) /\ put.left \in Seq(Nat)
  BY DEF SealState, PutState
<1>3. PICK taken, left : taken = put.plain /\ left = put.left
  OBVIOUS
<1>4. /\ Len(taken) \in Nat /\ Begins(taken)
      /\ FromChunks /\ put.mode = "signed" => Clean(taken)
      /\ Staged /\ Len(taken) = Len(put.file) => taken = put.file
  BY <1>2, <1>3, AheadIs DEF SealState
<1>5. CASE put.header = "none"
  <2>1. Staged
    BY <1>5 DEF SealState, Staged
  <2>2. taken = put.file /\ Kept(put.file)
    BY <1>3, <1>4, <2>1 DEF SealState
  <2> QED
    BY <1>3, <1>5, <2>2, KeptIs DEF SealState, KeptState
<1>6. CASE put.header # "none"
  <2>1. ~Staged
    BY <1>6 DEF Staged
  <2>2. Len(taken) = put.n
    BY <1>1, <1>3, <1>4, <2>1 DEF SealState, Begins
  <2>3. put.mode = "signed" => Clean(taken)
    BY <1>4, <1>6 DEF FromChunks, Chunked
  <2>4. DOMAIN taken = 1..Len(taken)
    BY <1>2, <1>3, LenProperties
  <2>5. put.mode = "signed" => Unaltered
    BY <1>3, <2>3, <2>4 DEF Clean, Unaltered
  <2>6. AlterationsFound
    BY <1>6, <2>5 DEF AlterationsFound, SealState
  <2>7. Body \in Seq(Nat) /\ Len(Body) = put.n
    BY BodyIs DEF SealState
  <2>8. taken = SubSeq(Body, 1, Len(taken))
    BY <1>2, <1>3, <1>4, <2>7, BeginningIs DEF Begins
  <2>9. StoredAsSent
    BY <1>3, <2>2, <2>8 DEF StoredAsSent, Body
  <2> QED
    BY <2>6, <2>9 DEF AcceptedRight
<1> QED
  BY <1>5, <1>6

LEMMA SealedNext == SealState' => AcceptedRight'
BY SealedIs, PTL

LEMMA KeptNext == KeptState' => AcceptedRight'
BY KeptIs, PTL

LEMMA TookFields ==
    ASSUME put \in PutState,
           NEW plain \in Seq(Nat), NEW left \in Seq(Nat), NEW chunks \in Seq(Seq(Nat)),
           put' = [put EXCEPT !.plain = plain, !.left = left, !.chunks = chunks]
    PROVE  /\ put' \in PutState /\ put'.pc = put.pc /\ put'.answer = put.answer
           /\ OtherFields
           /\ put'.plain = plain /\ put'.left = left /\ put'.chunks = chunks
<1>1. put' \in PutState
  BY DEF PutState
<1>2. /\ put'.pc = put.pc /\ put'.answer = put.answer
      /\ put'.plain = plain /\ put'.left = left /\ put'.chunks = chunks
  BY DEF PutState
<1>3. OtherFields
  BY DEF PutState, OtherFields, SameBody
<1> QED
  BY <1>1, <1>2, <1>3

\* More of the body has gone to the backend, or to the file of the part.
LEMMA TookKeeps ==
    ASSUME WriteInv, put.pc \in {"seal", "receive"}, temp' = temp,
           NEW plain \in Seq(Nat), NEW left \in Seq(Nat), NEW chunks \in Seq(Seq(Nat)),
           put' = [put EXCEPT !.plain = plain, !.left = left, !.chunks = chunks],
           Ahead(plain, left, chunks), Len(plain) <= put.declared
    PROVE  WriteInv'
<1>1. /\ put' \in PutState /\ put'.pc = put.pc /\ put'.answer = put.answer
      /\ OtherFields
      /\ put'.plain = plain /\ put'.left = left /\ put'.chunks = chunks
  BY TookFields DEF WriteInv
<1>2. /\ SameBody /\ put'.declared = put.declared /\ put'.file = put.file
      /\ put'.cleanup = put.cleanup
  BY <1>1 DEF OtherFields
<1>3. /\ put'.n = put.n /\ put'.altered = put.altered /\ put'.mode = put.mode
      /\ put'.header = put.header /\ put'.target = put.target
  BY <1>2 DEF SameBody
<1>4. Ahead(put.plain, put.left, put.chunks)'
  <2>1. FromChunks' <=> FromChunks
    BY <1>1, <1>3 DEF FromChunks
  <2>2. Staged' <=> Staged
    BY <1>1, <1>3 DEF Staged
  <2>3. Ahead(plain, left, chunks)'
    BY <1>2, <2>1, <2>2, AheadStays
  <2> QED
    BY <1>1, <2>3
<1>5. (Staged' <=> Staged) /\ (Kept(put.file) => Kept(put.file)')
  <2>1. Staged' <=> Staged
    BY <1>1, <1>3 DEF Staged
  <2>2. PICK file : file = put.file
    OBVIOUS
  <2>3. Kept(file) => Kept(file)'
    BY <1>2, KeptStays
  <2> QED
    BY <1>2, <2>1, <2>2, <2>3
<1>6. /\ put.answer = "none" /\ put.altered <= put.n /\ Len(put.file) <= MaxObjectSize + 1
      /\ temp \in BOOLEAN /\ (temp => put.cleanup)
      /\ put.pc = "seal" => /\ put.target = "object"
                            /\ CiphertextSize(put.declared) <= MaxObjectSize
      /\ put.pc = "receive" => put.target = "part"
      /\ put.declared = IF Staged THEN Len(put.file)
                        ELSE BodySize(put.mode, put.header, put.n)
      /\ Staged => Kept(put.file)
  BY DEF WriteInv, TransferInv, LimitsExact
<1>7. TransferInv'
  BY <1>1, <1>2, <1>3, <1>4, <1>5, <1>6 DEF TransferInv
<1>8. LimitsExact'
  BY <1>1, <1>2, <1>6 DEF LimitsExact
<1>9. AcceptedRight'
  <2>1. CASE put.pc = "seal"
    <3>1. ~Staged' => put'.n <= put'.declared
      BY <1>2, <1>3, <1>5, DeclaredIs
    <3>2. SealState'
      BY <1>1, <1>3, <1>4, <1>5, <1>6, <2>1, <3>1 DEF SealState
    <3> QED
      BY <3>2, SealedNext
  <2>2. CASE put.pc = "receive"
    BY <1>1, <2>2 DEF AcceptedRight, StoredAsSent, AlterationsFound, Accepted
  <2> QED
    BY <2>1, <2>2
<1>10. put'.altered <= put'.n /\ temp' \in BOOLEAN /\ (temp' => put'.cleanup)
  BY <1>2, <1>3, <1>6
<1> QED
  BY <1>1, <1>6, <1>7, <1>8, <1>9, <1>10 DEF WriteInv

\* The frame that is being filled is not full, and ends within the body.
LEMMA FrameEndIs ==
    ASSUME NEW l \in Nat, l = Len(put.plain), put.declared \in Nat, l < put.declared
    PROVE  FrameEnd \in Nat /\ l < FrameEnd /\ FrameEnd <= put.declared
<1> DEFINE q == l \div FrameSize
<1>1. q \in Nat /\ q * FrameSize \in Nat /\ l < q * FrameSize + FrameSize
  BY Division, Sizes
<1> HIDE DEF q
<1>2. PICK e : e = (q + 1) * FrameSize
  OBVIOUS
<1>3. e = q * FrameSize + FrameSize /\ FrameSize \in Nat
  BY <1>1, <1>2, NextProduct, FrameAssumption
<1>4. FrameEnd = Least(e, put.declared)
  BY <1>2 DEF FrameEnd, q
<1> QED
  BY <1>1, <1>3, <1>4 DEF Least

LEMMA SealFrameStep ==
    ASSUME WriteInv, SealFrame
    PROVE  WriteInv'
<1>1. /\ put \in PutState /\ put.altered <= put.n /\ put.pc = "seal" /\ temp' = temp
      /\ Len(put.plain) < put.declared /\ (Staged => Kept(put.file))
      /\ Ahead(put.plain, put.left, put.chunks)
  BY DEF WriteInv, TransferInv, SealFrame
<1>2. PICK taken, l : taken = put.plain /\ l = Len(taken)
  OBVIOUS
<1>3. taken \in Seq(Nat)
  BY <1>1, <1>2 DEF PutState
<1>4. l \in Nat /\ put.declared \in Nat
  BY <1>1, <1>2, <1>3, LenProperties, PutNumbers
<1>5. PICK end : end = FrameEnd
  OBVIOUS
<1>6. end \in Nat /\ l < end /\ end <= put.declared
  BY <1>1, <1>2, <1>4, <1>5, FrameEndIs
<1>7. CASE AnswerPut("error")
  BY <1>1, <1>7, AnswerKeeps
<1>8. PICK want \in Nat : want = end - l
  BY <1>4, <1>6
<1>9. ASSUME NEW read \in Reads(want), read.err = "nil" \/ Len(taken \o read.bytes) = end,
             put' = [put EXCEPT !.plain = taken \o read.bytes, !.left = read.left,
                                !.chunks = read.chunks]
      PROVE  WriteInv'
  <2>1. GoodRead(read, taken, want)
    BY <1>1, <1>2, <1>3, ReadIs
  <2>2. PICK bytes, left, chunks : bytes = read.bytes /\ left = read.left /\ chunks = read.chunks
    OBVIOUS
  <2>3. /\ bytes \in Seq(Nat) /\ left \in Seq(Nat) /\ chunks \in Seq(Seq(Nat))
        /\ Len(bytes) <= want
        /\ read.err = "nil" \/ bytes # <<>> => Ahead(taken \o bytes, left, chunks)
    BY <2>1, <2>2 DEF GoodRead
  <2>4. PICK plain : plain = taken \o bytes
    OBVIOUS
  <2>5. Len(bytes) \in Nat
    BY <2>3, LenProperties
  <2>6. plain \in Seq(Nat) /\ Len(plain) = l + Len(bytes)
    BY <1>2, <1>3, <2>3, <2>4, ConcatProperties
  <2>7. read.err = "nil" \/ bytes # <<>>
    <3>1. CASE Len(plain) = end
      <4>1. Len(bytes) # 0
        BY <1>4, <1>6, <2>5, <2>6, <3>1
      <4> QED
        BY <4>1, Empties
    <3> QED
      BY <1>9, <2>2, <2>4, <3>1
  <2>8. Ahead(plain, left, chunks)
    BY <2>3, <2>4, <2>7
  <2>9. Len(plain) <= put.declared
    BY <1>4, <1>6, <1>8, <2>3, <2>5, <2>6
  <2>10. put' = [put EXCEPT !.plain = plain, !.left = left, !.chunks = chunks]
    BY <1>9, <2>2, <2>4
  <2> QED
    BY <1>1, <2>3, <2>6, <2>8, <2>9, <2>10, TookKeeps
<1> QED
  BY <1>2, <1>5, <1>7, <1>8, <1>9 DEF SealFrame

LEMMA ReceivePartStep ==
    ASSUME WriteInv, ReceivePart
    PROVE  WriteInv'
<1>1. /\ put \in PutState /\ put.altered <= put.n /\ put.pc = "receive" /\ temp' = temp
      /\ put.target = "part"
      /\ Len(put.plain) <= put.declared /\ (Staged => Kept(put.file))
      /\ Ahead(put.plain, put.left, put.chunks)
  BY DEF WriteInv, TransferInv, ReceivePart
<1>2. PICK taken, l : taken = put.plain /\ l = Len(taken)
  OBVIOUS
<1>3. taken \in Seq(Nat)
  BY <1>1, <1>2 DEF PutState
<1>4. l \in Nat /\ put.declared \in Nat
  BY <1>1, <1>2, <1>3, LenProperties, PutNumbers
<1>5. PICK want \in Nat : want = put.declared + 1 - l
  BY <1>1, <1>2, <1>4
<1>6. CASE AnswerPut("error")
  BY <1>1, <1>6, AnswerKeeps
<1>7. CASE AnswerPut("InvalidArgument")
  BY <1>1, <1>7, AnswerKeeps
<1>8. ASSUME NEW read \in Reads(want), NEW plain, plain = taken \o read.bytes,
             NEW took, took = [put EXCEPT !.plain = plain, !.left = read.left,
                                          !.chunks = read.chunks],
             \/ read.err = "nil" /\ Len(plain) <= put.declared /\ put' = took
             \/ /\ Ends(read) /\ Len(plain) = put.declared
                /\ put' = [took EXCEPT !.pc = "done", !.answer = "ok"]
      PROVE  WriteInv'
  <2>1. GoodRead(read, taken, want)
    BY <1>1, <1>2, <1>3, ReadIs
  <2>2. PICK bytes, left, chunks : bytes = read.bytes /\ left = read.left /\ chunks = read.chunks
    OBVIOUS
  <2>3. /\ bytes \in Seq(Nat) /\ left \in Seq(Nat) /\ chunks \in Seq(Seq(Nat))
        /\ read.err = "nil" => Ahead(taken \o bytes, left, chunks)
        /\ read.err = "eof" => Kept(taken \o bytes)
    BY <2>1, <2>2 DEF GoodRead
  <2>4. plain \in Seq(Nat) /\ plain = taken \o bytes
    BY <1>3, <1>8, <2>2, <2>3, ConcatProperties
  <2>5. took = [put EXCEPT !.plain = plain, !.left = left, !.chunks = chunks]
    BY <1>8, <2>2
  <2>6. CASE read.err = "nil" /\ Len(plain) <= put.declared /\ put' = took
    <3>1. Ahead(plain, left, chunks)
      BY <2>3, <2>4, <2>6
    <3>2. put' = [put EXCEPT !.plain = plain, !.left = left, !.chunks = chunks]
      BY <2>5, <2>6
    <3> QED
      BY <1>1, <2>3, <2>4, <2>6, <3>1, <3>2, TookKeeps
  <2>7. CASE /\ Ends(read) /\ Len(plain) = put.declared
             /\ put' = [took EXCEPT !.pc = "done", !.answer = "ok"]
    <3>1. Kept(plain)
      BY <2>3, <2>4, <2>7 DEF Ends
    <3>2. put' = [put EXCEPT !.plain = plain, !.left = left, !.chunks = chunks,
                             !.pc = "done", !.answer = "ok"]
      BY <1>1, <2>5, <2>7 DEF PutState
    <3>3. put' \in PutState
      BY <1>1, <2>3, <2>4, <3>2 DEF PutState
    <3>4. put'.pc = "done" /\ put'.answer = "ok" /\ put'.plain = plain
      BY <1>1, <3>2 DEF PutState
    <3>5. SameBody /\ put'.n = put.n /\ put'.altered = put.altered /\ put'.header = put.header
      BY <1>1, <3>2 DEF PutState, SameBody
    <3>6. put'.file = put.file /\ put'.cleanup = put.cleanup
      BY <1>1, <3>2 DEF PutState
    <3>7. /\ Len(put.file) <= MaxObjectSize + 1 /\ temp \in BOOLEAN
          /\ temp => put.pc = "stage" \/ put.cleanup
      BY DEF WriteInv, LimitsExact
    <3>8. TransferInv'
      BY <3>4 DEF TransferInv, Staged
    <3>9. AcceptedRight'
      <4>1. Kept(plain)'
        BY <3>1, <3>5, KeptStays
      <4>2. put.header # "none" => Len(plain) = put.n
        <5>1. SUFFICES ASSUME put.header # "none" PROVE Len(plain) = put.n
          OBVIOUS
        <5>2. put.n <= put.declared /\ put.n \in Nat
          BY <1>1, <5>1, DeclaredIs, PutNumbers DEF Staged
        <5> QED
          BY <1>4, <2>7, <3>1, <5>2 DEF Kept, Begins
      <4> QED
        BY <1>1, <3>3, <3>4, <3>5, <4>1, <4>2, KeptNext DEF KeptState
    <3>10. LimitsExact'
      BY <3>4, <3>6, <3>7 DEF LimitsExact
    <3>11. put'.altered <= put'.n /\ temp' \in BOOLEAN /\ (temp' => put'.cleanup)
      BY <1>1, <3>5, <3>6, <3>7
    <3> QED
      BY <3>3, <3>4, <3>8, <3>9, <3>10, <3>11 DEF WriteInv
  <2> QED
    BY <1>8, <2>6, <2>7
<1> QED
  BY <1>2, <1>5, <1>6, <1>7, <1>8 DEF ReceivePart

LEMMA CheckStep ==
    ASSUME WriteInv, Check
    PROVE  WriteInv'
<1>1. /\ put \in PutState /\ put.altered <= put.n /\ put.pc = "check" /\ temp' = temp
      /\ put.target = "object" /\ put.plain = <<>> /\ (Staged => Kept(put.file))
      /\ Ahead(put.plain, put.left, put.chunks)
      /\ put.declared = IF Staged THEN Len(put.file)
                        ELSE BodySize(put.mode, put.header, put.n)
      /\ put.answer = "none" /\ Len(put.file) <= MaxObjectSize + 1
      /\ temp \in BOOLEAN /\ (temp => put.cleanup)
  BY DEF WriteInv, TransferInv, LimitsExact, Check
<1>2. (~Staged => put.n <= put.declared) /\ put.declared \in Nat
  BY <1>1, DeclaredIs, PutNumbers
<1>3. CASE CiphertextSize(put.declared) > MaxObjectSize
  <2>1. PICK m, n : m = put.declared /\ n = BodySize(put.mode, "length", put.n)
    OBVIOUS
  <2>2. m \in Nat /\ n \in Nat /\ m <= n
    BY <1>1, <1>2, <2>1, DeclaredIs
  <2>3. /\ CiphertextSize(m) <= CiphertextSize(n)
        /\ CiphertextSize(m) \in Nat /\ CiphertextSize(n) \in Nat /\ MaxObjectSize \in Nat
    BY <2>2, SizesOrdered, LastFrameEnds, BodyAssumption
  <2>4. TooLarge
    BY <1>1, <1>3, <2>1, <2>3 DEF TooLarge
  <2>5. AnswerPut("EntityTooLarge")
    BY <1>3 DEF Check
  <2> QED
    BY <1>1, <2>4, <2>5, AnswerKeeps
<1>4. CASE ~(CiphertextSize(put.declared) > MaxObjectSize)
  <2>1. put' = [put EXCEPT !.pc = "seal"]
    BY <1>4 DEF Check
  <2>2. put' \in PutState
    BY <1>1, <2>1 DEF PutState
  <2>3. /\ put'.pc = "seal" /\ put'.answer = put.answer /\ put'.plain = put.plain
        /\ put'.left = put.left /\ put'.chunks = put.chunks
    BY <1>1, <2>1 DEF PutState
  <2>4. OtherFields
    BY <1>1, <2>1 DEF PutState, OtherFields, SameBody
  <2>5. /\ SameBody /\ put'.declared = put.declared /\ put'.file = put.file
        /\ put'.cleanup = put.cleanup
    BY <2>4 DEF OtherFields
  <2>6. /\ put'.n = put.n /\ put'.altered = put.altered /\ put'.mode = put.mode
        /\ put'.header = put.header /\ put'.target = put.target
    BY <2>5 DEF SameBody
  <2>7. Ahead(put.plain, put.left, put.chunks)'
    <3>1. FromChunks' <=> FromChunks
      BY <1>1, <2>3, <2>6 DEF FromChunks
    <3>2. PICK plain, left, chunks :
              plain = put.plain /\ left = put.left /\ chunks = put.chunks
      OBVIOUS
    <3>3. Staged' <=> Staged
      BY <1>1, <2>3, <2>6 DEF Staged
    <3>4. Ahead(plain, left, chunks)'
      BY <1>1, <2>5, <3>1, <3>2, <3>3, AheadStays
    <3> QED
      BY <2>3, <3>2, <3>4
  <2>8. (Staged' <=> Staged) /\ (Kept(put.file) => Kept(put.file)')
    <3>1. Staged' <=> Staged
      BY <1>1, <2>3, <2>6 DEF Staged
    <3>2. PICK file : file = put.file
      OBVIOUS
    <3>3. Kept(file) => Kept(file)'
      BY <2>5, KeptStays
    <3> QED
      BY <2>5, <3>1, <3>2, <3>3
  <2>9. CiphertextSize(put.declared) <= MaxObjectSize
    BY <1>2, <1>4, LastFrameEnds, BodyAssumption
  <2>10. Len(put'.plain) <= put'.declared
    BY <1>1, <1>2, <2>3, <2>5, Empties
  <2>11. TransferInv'
    BY <1>1, <2>3, <2>5, <2>6, <2>7, <2>8, <2>9, <2>10 DEF TransferInv
  <2>12. LimitsExact'
    BY <1>1, <2>3, <2>5, <2>9 DEF LimitsExact
  <2>13. SealState'
    BY <1>1, <1>2, <2>2, <2>3, <2>5, <2>6, <2>7, <2>8 DEF SealState
  <2>14. AcceptedRight'
    BY <2>13, SealedNext
  <2>15. put'.altered <= put'.n /\ temp' \in BOOLEAN /\ (temp' => put'.cleanup)
    BY <1>1, <2>5, <2>6
  <2> QED
    BY <1>1, <2>2, <2>3, <2>11, <2>12, <2>14, <2>15 DEF WriteInv
<1> QED
  BY <1>3, <1>4

LEMMA StageFailsStep ==
    ASSUME WriteInv, StageFails
    PROVE  WriteInv'
<1>1. AnswerPut("error") /\ temp' = FALSE
  BY DEF StageFails, Unstage
<1> QED
  BY <1>1, AnswerKeeps

LEMMA NoPutIs ==
    /\ NoPut \in PutState
    /\ NoPut.pc = "idle" /\ NoPut.target = "object" /\ NoPut.n = 0 /\ NoPut.altered = 0
    /\ NoPut.file = <<>> /\ NoPut.answer = "none"
<1>1. PICK pc, target, mode, header, n, cleanup, answer :
          /\ pc = "idle" /\ target = "object" /\ mode = "unsigned" /\ header = "none" /\ n = 0
          /\ cleanup = FALSE /\ answer = "none"
  OBVIOUS
<1>2. PICK left, chunks : left = <<>> /\ chunks = <<>>
  OBVIOUS
<1>3. /\ pc \in {"idle", "stage", "check", "seal", "commit", "receive", "done"}
      /\ target \in {"object", "part"} /\ mode \in Mode /\ header \in SizeHeader
      /\ n \in BodySizes \cup {0} /\ n \in Nat /\ cleanup \in BOOLEAN
      /\ answer \in {"none", "ok", "error", "EntityTooLarge", "InvalidArgument"}
  BY <1>1 DEF Mode, SizeHeader
<1>4. left \in Seq(Nat) /\ chunks \in Seq(Seq(Nat))
  BY <1>2, Empties
<1>5. PICK request : request = NoPut
  OBVIOUS
<1>6. request = [pc |-> pc, target |-> target, mode |-> mode, header |-> header, n |-> n,
                 altered |-> n, short |-> cleanup, left |-> left, chunks |-> chunks,
                 declared |-> n,
                 file |-> left, plain |-> left, cleanup |-> cleanup, answer |-> answer]
  BY <1>1, <1>2, <1>5 DEF NoPut
<1>7. request \in PutState
  BY <1>3, <1>4, <1>6 DEF PutState
<1>8. /\ request.pc = pc /\ request.target = target /\ request.n = n /\ request.altered = n
      /\ request.file = left /\ request.answer = answer
  BY <1>6
<1> QED
  BY <1>1, <1>2, <1>5, <1>7, <1>8

\* No body is received.
LEMMA IdleKeeps ==
    ASSUME put' \in PutState, put'.pc \in {"idle", "commit"}, put'.target = "object",
           put'.n = 0, put'.altered = 0, put'.file = <<>>, put'.answer = "none",
           temp' \in BOOLEAN, temp' => put'.cleanup
    PROVE  WriteInv'
<1>1. TransferInv' /\ AcceptedRight'
  BY DEF TransferInv, Staged, AcceptedRight, StoredAsSent, AlterationsFound, Accepted
<1>2. LimitsExact'
  <2>1. Len(put'.file) <= MaxObjectSize + 1
    BY Empties, BodyAssumption
  <2> QED
    BY <2>1 DEF LimitsExact
<1> QED
  BY <1>1, <1>2 DEF WriteInv

LEMMA UploadedStep ==
    ASSUME WriteInv, Uploaded
    PROVE  WriteInv'
<1>1. /\ put' = [NoPut EXCEPT !.pc = "commit", !.declared = put.declared,
                              !.cleanup = put.cleanup]
      /\ temp' = temp /\ put.pc = "seal"
  BY DEF Uploaded
<1>2. temp \in BOOLEAN /\ (temp => put.cleanup) /\ put \in PutState
  BY <1>1 DEF WriteInv
<1>3. PICK request, declared, cleanup :
          request = NoPut /\ declared = put.declared /\ cleanup = put.cleanup
  OBVIOUS
<1>4. declared \in Nat
  BY <1>2, <1>3, PutNumbers
<1>5. cleanup \in BOOLEAN
  BY <1>2, <1>3, Zenon DEF PutState
<1>6. put' = [request EXCEPT !.pc = "commit", !.declared = declared, !.cleanup = cleanup]
  BY <1>1, <1>3
<1>7. /\ request \in PutState
      /\ request.target = "object" /\ request.n = 0 /\ request.altered = 0
      /\ request.file = <<>> /\ request.answer = "none"
  BY <1>3, NoPutIs
<1>8. put' \in PutState
  BY <1>4, <1>5, <1>6, <1>7 DEF PutState
<1>9. /\ put'.pc = "commit" /\ put'.target = "object" /\ put'.n = 0 /\ put'.altered = 0
      /\ put'.file = <<>> /\ put'.answer = "none"
  BY <1>6, <1>7 DEF PutState
<1>10. put'.cleanup = cleanup
  BY <1>6, <1>7 DEF PutState
<1>11. temp' \in BOOLEAN /\ (temp' => put'.cleanup)
  BY <1>1, <1>2, <1>3, <1>10
<1> QED
  BY <1>8, <1>9, <1>11, IdleKeeps

LEMMA FinishPutStep ==
    ASSUME WriteInv, FinishPut
    PROVE  WriteInv'
<1>1. put' = NoPut /\ temp' = (temp /\ ~put.cleanup) /\ put.pc = "done"
  BY DEF FinishPut
<1>2. temp \in BOOLEAN /\ (temp => put.cleanup)
  BY <1>1 DEF WriteInv
<1>3. temp' = FALSE
  BY <1>1, <1>2
<1> QED
  BY <1>1, <1>3, NoPutIs, IdleKeeps

LEMMA CommitStep ==
    ASSUME WriteInv, CommitPut
    PROVE  WriteInv'
<1>1. temp' = temp /\ put.pc = "commit" /\ put.target = "object"
  BY DEF CommitPut, WriteInv
<1>2. AnswerPut("ok") \/ AnswerPut("error")
  BY DEF CommitPut
<1>3. CASE AnswerPut("ok")
  BY <1>1, <1>3, AnswerKeeps
<1>4. CASE AnswerPut("error")
  BY <1>1, <1>4, AnswerKeeps
<1> QED
  BY <1>2, <1>3, <1>4

\* The limit is one of ciphertexts, for objects; a body with more bytes than it allows
\* has a ciphertext that is larger still.
LEMMA BodyTooLarge ==
    ASSUME put \in PutState, NEW l \in Nat, l <= put.n, l > MaxObjectSize
    PROVE  TooLarge
<1>1. put.n \in Nat /\ MaxObjectSize \in Nat
  BY PutNumbers, BodyAssumption
<1>2. PICK mode, n, m : mode = put.mode /\ n = put.n /\ m = BodySize(mode, "length", n)
  OBVIOUS
<1>3. n \in Nat /\ m \in Nat /\ n <= m
  BY <1>1, <1>2, SizeGiven
<1>4. m > MaxObjectSize /\ n > MaxObjectSize
  BY <1>1, <1>2, <1>3
<1>5. CiphertextSize(m) > MaxObjectSize
  <2>1. m <= m
    BY <1>3
  <2> QED
    BY <1>3, <1>4, <2>1, SizedEnough
<1> QED
  BY <1>2, <1>4, <1>5 DEF TooLarge

LEMMA StageStep ==
    ASSUME WriteInv, Stage
    PROVE  WriteInv'
<1>1. /\ put \in PutState /\ put.altered <= put.n /\ put.pc = "stage"
      /\ put.plain = <<>> /\ put.header = "none" /\ Len(put.file) <= MaxObjectSize
      /\ Ahead(put.file, put.left, put.chunks) /\ put.answer = "none"
      /\ temp \in BOOLEAN
  BY DEF WriteInv, TransferInv, Stage
<1>2. PICK taken, l : taken = put.file /\ l = Len(taken)
  OBVIOUS
<1>3. taken \in Seq(Nat)
  BY <1>1, <1>2 DEF PutState
<1>4. l \in Nat /\ put.n \in Nat /\ MaxObjectSize \in Nat
  BY <1>1, <1>2, <1>3, LenProperties, PutNumbers, BodyAssumption
<1>5. PICK want \in Nat : want = MaxObjectSize + 1 - l /\ want = StageWant
  <2>1. StageWant = MaxObjectSize + 1 - l
    BY <1>2 DEF StageWant
  <2>2. l <= MaxObjectSize
    BY <1>1, <1>2
  <2>3. MaxObjectSize + 1 - l \in Nat
    BY <1>4, <2>2
  <2> QED
    BY <2>1, <2>3
<1>6. PICK read, file :
          /\ read \in BodyReads(want)
          /\ file = taken \o read.bytes
          /\ \/ /\ ~Fails(read) /\ Len(file) > MaxObjectSize
                /\ AnswerPut("EntityTooLarge") /\ Unstage
             \/ /\ read.err = "nil" /\ Len(file) <= MaxObjectSize
                /\ put' = [put EXCEPT !.file = file, !.left = read.left,
                                      !.chunks = read.chunks]
                /\ temp' = temp
             \/ /\ Ends(read) /\ Len(file) <= MaxObjectSize
                /\ put' = [put EXCEPT !.pc = IF put.target = "part" THEN "receive" ELSE "check",
                                      !.file = file, !.left = file, !.chunks = <<>>,
                                      !.declared = Len(file), !.cleanup = TRUE]
                /\ temp' = temp
             \/ Fails(read) /\ AnswerPut("error") /\ Unstage
  BY <1>2, <1>5 DEF Stage
<1>7. GoodRead(read, taken, want)
  BY <1>1, <1>2, <1>3, <1>6, BodyReadIs
<1>8. PICK bytes, left, chunks : bytes = read.bytes /\ left = read.left /\ chunks = read.chunks
  OBVIOUS
<1>9. /\ bytes \in Seq(Nat) /\ left \in Seq(Nat) /\ chunks \in Seq(Seq(Nat))
      /\ Len(bytes) <= want
      /\ read.err \in {"nil", "eof", "bad", "broken"}
      /\ read.err = "nil" \/ bytes # <<>> => Ahead(taken \o bytes, left, chunks)
      /\ read.err = "eof" => Kept(taken \o bytes)
  BY <1>7, <1>8 DEF GoodRead
<1>10. Len(bytes) \in Nat
  BY <1>9, LenProperties
<1>11. file \in Seq(Nat) /\ file = taken \o bytes /\ Len(file) = l + Len(bytes)
  BY <1>2, <1>3, <1>6, <1>8, <1>9, ConcatProperties
<1>12. Len(file) <= MaxObjectSize + 1 /\ Len(file) \in Nat
  BY <1>4, <1>5, <1>9, <1>10, <1>11
<1>13. ASSUME Len(file) > MaxObjectSize, AnswerPut("EntityTooLarge"), Unstage
       PROVE  WriteInv'
  <2>1. Len(bytes) # 0
    BY <1>1, <1>2, <1>4, <1>10, <1>11, <1>13
  <2>2. Ahead(file, left, chunks)
    BY <1>9, <1>11, <2>1, Empties
  <2>3. Len(file) <= put.n
    BY <1>1, <1>9, <1>11, <2>2, AheadIs DEF Staged, Begins
  <2>4. TooLarge
    BY <1>1, <1>12, <1>13, <2>3, BodyTooLarge
  <2> QED
    BY <1>13, <2>4, AnswerKeeps DEF Unstage
<1>14. ASSUME read.err = "nil", Len(file) <= MaxObjectSize, temp' = temp,
              put' = [put EXCEPT !.file = file, !.left = left, !.chunks = chunks]
       PROVE  WriteInv'
  <2>1. put' \in PutState
    BY <1>1, <1>9, <1>11, <1>14 DEF PutState
  <2>2. /\ put'.pc = put.pc /\ put'.answer = put.answer /\ put'.plain = put.plain
        /\ put'.left = left /\ put'.chunks = chunks /\ put'.file = file
    BY <1>1, <1>14 DEF PutState
  <2>3. SameBody
    BY <1>1, <1>14 DEF PutState, SameBody
  <2>4. FromChunks' <=> FromChunks
    BY <1>1, <2>2, <2>3 DEF FromChunks, SameBody
  <2>5. Ahead(file, left, chunks)
    BY <1>9, <1>11, <1>14
  <2>6. Ahead(file, left, chunks)'
    <3>1. ~Staged /\ ~Staged'
      BY <1>1, <2>2 DEF Staged
    <3> QED
      BY <2>3, <2>4, <2>5, <3>1, AheadStays
  <2>7. Ahead(put.file, put.left, put.chunks)'
    BY <2>2, <2>6
  <2>8. put'.header = "none" /\ put'.altered <= put'.n
    BY <1>1, <2>3 DEF SameBody
  <2>9. TransferInv'
    BY <1>1, <1>14, <2>2, <2>7, <2>8 DEF TransferInv, Staged
  <2>10. AcceptedRight'
    BY <1>1, <2>2 DEF AcceptedRight, StoredAsSent, AlterationsFound, Accepted
  <2>11. LimitsExact'
    BY <1>1, <1>12, <2>2 DEF LimitsExact
  <2> QED
    BY <1>1, <1>14, <2>1, <2>2, <2>8, <2>9, <2>10, <2>11 DEF WriteInv
<1>15. ASSUME Ends(read), Len(file) <= MaxObjectSize, temp' = temp,
              put' = [put EXCEPT !.pc = IF put.target = "part" THEN "receive" ELSE "check",
                                 !.file = file, !.left = file, !.chunks = <<>>,
                                 !.declared = Len(file), !.cleanup = TRUE]
       PROVE  WriteInv'
  <2>1. Kept(file)
    BY <1>9, <1>11, <1>15 DEF Ends
  <2>2. PICK pc, none, size_, yes :
            /\ pc = IF put.target = "part" THEN "receive" ELSE "check"
            /\ none = <<>> /\ size_ = Len(file) /\ yes = TRUE
    OBVIOUS
  <2>3. pc \in {"receive", "check"} /\ none \in Seq(Seq(Nat)) /\ size_ \in Nat /\ yes \in BOOLEAN
    BY <1>12, <2>2, Empties
  <2>4. put' = [put EXCEPT !.pc = pc, !.file = file, !.left = file, !.chunks = none,
                           !.declared = size_, !.cleanup = yes]
    BY <1>15, <2>2
  <2>5. put' \in PutState
    BY <1>1, <1>11, <2>3, <2>4 DEF PutState
  <2>6. /\ put'.pc = pc /\ put'.answer = put.answer /\ put'.plain = put.plain
        /\ put'.left = file /\ put'.chunks = none /\ put'.file = file
    BY <1>1, <2>4 DEF PutState
  <2>7. put'.declared = size_ /\ put'.cleanup = yes
    BY <1>1, <2>4 DEF PutState
  <2>8. SameBody
    BY <1>1, <2>4 DEF PutState, SameBody
  <2>9. /\ put'.n = put.n /\ put'.altered = put.altered /\ put'.mode = put.mode
        /\ put'.header = "none" /\ put'.target = put.target
    BY <1>1, <2>8 DEF SameBody
  <2>10. ~FromChunks'
    BY <2>3, <2>6, <2>9 DEF FromChunks
  <2>11. Staged' /\ Source' = file
    BY <2>3, <2>6, <2>9 DEF Staged, Source
  <2>12. PICK plain : plain = <<>>
    OBVIOUS
  <2>13. Ahead(plain, file, none)'
    <3>1. plain \o file = file
      BY <1>11, <2>12, ConcatEmptySeq
    <3> QED
      BY <2>2, <2>10, <2>11, <3>1 DEF Ahead
  <2>14. Ahead(put.plain, put.left, put.chunks)'
    BY <1>1, <2>6, <2>12, <2>13
  <2>15. put'.declared = Len(put'.file)
    BY <2>2, <2>6, <2>7
  <2>16. Kept(put.file)'
    <3>1. Kept(file)'
      BY <2>1, <2>8, KeptStays
    <3> QED
      BY <2>6, <3>1
  <2>17. Len(put'.plain) <= put'.declared
    BY <1>1, <2>3, <2>6, <2>7, Empties
  <2>18. /\ put'.pc = "check" => put'.target = "object"
         /\ put'.pc = "receive" => put'.target = "part"
    <3>1. put.target \in {"object", "part"}
      BY <1>1 DEF PutState
    <3> QED
      BY <2>2, <2>6, <2>9, <3>1
  <2>19. put'.pc \in {"receive", "check"}
    BY <2>3, <2>6
  <2>20. TransferInv'
    BY <1>1, <2>6, <2>11, <2>14, <2>15, <2>16, <2>17, <2>18, <2>19 DEF TransferInv
  <2>21. AcceptedRight'
    BY <2>19 DEF AcceptedRight, StoredAsSent, AlterationsFound, Accepted
  <2>22. LimitsExact'
    BY <1>1, <1>12, <2>6, <2>19 DEF LimitsExact
  <2>23. put'.altered <= put'.n /\ temp' \in BOOLEAN /\ put'.cleanup
    BY <1>1, <1>15, <2>2, <2>7, <2>9
  <2> QED
    BY <1>1, <2>5, <2>6, <2>19, <2>20, <2>21, <2>22, <2>23 DEF WriteInv
<1>16. ASSUME AnswerPut("error"), Unstage PROVE WriteInv'
  BY <1>16, AnswerKeeps DEF Unstage
<1> QED
  BY <1>6, <1>8, <1>13, <1>14, <1>15, <1>16

LEMMA BeginPutStep ==
    ASSUME WriteInv, BeginPut
    PROVE  WriteInv'
<1> DEFINE TooMuch(target, mode, header, n) ==
               /\ target = "object" /\ header # "none"
               /\ BodySize(mode, header, n) > MaxObjectSize
           First(target, header) ==
               IF header = "none" THEN "stage"
               ELSE IF target = "part" THEN "receive" ELSE "check"
           Request(target, mode, header, c, n, short, altered) ==
               [pc |-> IF TooMuch(target, mode, header, n) THEN "done"
                       ELSE First(target, header),
                target |-> target, mode |-> mode, header |-> header, n |-> n,
                altered |-> altered, short |-> short,
                left |-> IF mode \in Chunked THEN <<>> ELSE Arrived(n, altered),
                chunks |-> IF mode \in Chunked THEN ChunksOf(Arrived(n, altered), c) ELSE <<>>,
                declared |-> BodySize(mode, header, n), file |-> <<>>, plain |-> <<>>,
                cleanup |-> FALSE,
                answer |-> IF TooMuch(target, mode, header, n) THEN "EntityTooLarge"
                           ELSE "none"]
<1>1. PICK target \in {"object", "part"}, mode \in Mode, header \in SizeHeader,
           c \in ChunkSizes, n \in BodySizes :
          \E altered \in 0..n, short \in IF mode \in Chunked THEN BOOLEAN ELSE {FALSE} :
              /\ put' = Request(target, mode, header, c, n, short, altered)
              /\ temp' = (header = "none")
  BY DEF BeginPut
<1>2. PICK altered \in 0..n, short \in IF mode \in Chunked THEN BOOLEAN ELSE {FALSE} :
          /\ put' = Request(target, mode, header, c, n, short, altered)
          /\ temp' = (header = "none")
  BY <1>1
<1>3. PICK body, declared, pc, left, chunks, answer :
          /\ body = Arrived(n, altered) /\ declared = BodySize(mode, header, n)
          /\ pc = (IF TooMuch(target, mode, header, n) THEN "done" ELSE First(target, header))
          /\ left = (IF mode \in Chunked THEN <<>> ELSE body)
          /\ chunks = (IF mode \in Chunked THEN ChunksOf(body, c) ELSE <<>>)
          /\ answer = (IF TooMuch(target, mode, header, n) THEN "EntityTooLarge" ELSE "none")
  OBVIOUS
<1>4. /\ altered \in 0..n
      /\ body = Arrived(n, altered) /\ declared = BodySize(mode, header, n)
      /\ IF target = "object" /\ header # "none" /\ declared > MaxObjectSize
         THEN pc = "done" /\ answer = "EntityTooLarge"
         ELSE pc = First(target, header) /\ answer = "none"
      /\ left = (IF mode \in Chunked THEN <<>> ELSE body)
      /\ chunks = (IF mode \in Chunked THEN ChunksOf(body, c) ELSE <<>>)
      /\ put' = [pc |-> pc, target |-> target, mode |-> mode, header |-> header, n |-> n,
                 altered |-> altered, short |-> short, left |-> left, chunks |-> chunks,
                 declared |-> declared, file |-> <<>>, plain |-> <<>>,
                 cleanup |-> FALSE, answer |-> answer]
      /\ temp' = (header = "none")
  BY <1>2, <1>3
<1> HIDE DEF Request, TooMuch
<1>5. n \in Nat /\ altered \in Nat /\ altered <= n /\ MaxObjectSize \in Nat
  <2>1. BodySizes \subseteq Nat /\ MaxObjectSize \in Nat
    BY Zenon, BodyAssumption
  <2>2. n \in Nat /\ altered \in 0..n
    BY <1>4, <2>1
  <2> QED
    BY <2>1, <2>2
<1>6. body \in Seq(Nat) /\ Len(body) = n
  BY <1>4, <1>5, ArrivedIs
<1>7. header \in {"decoded", "length", "none"}
  BY DEF SizeHeader
<1>8. /\ declared \in Nat
      /\ header # "none" =>
            /\ n <= declared /\ BodySize(mode, "length", n) \in Nat
            /\ declared <= BodySize(mode, "length", n)
  <2>1. CASE header = "none"
    BY <1>4, <2>1 DEF BodySize
  <2>2. CASE header # "none"
    BY <1>4, <1>5, <1>7, <2>2, SizeGiven
  <2> QED
    BY <2>1, <2>2
<1>9. OnWire(body, mode, <<>>, <<>>, ChunksOf(body, c)) /\ ChunksOf(body, c) \in Seq(Seq(Nat))
  BY <1>6, WireStart
<1>10. left \in Seq(Nat) /\ chunks \in Seq(Seq(Nat))
  BY <1>4, <1>6, <1>9, Empties
<1>11. /\ pc \in {"idle", "stage", "check", "seal", "commit", "receive", "done"}
       /\ answer \in {"none", "ok", "error", "EntityTooLarge", "InvalidArgument"}
  BY <1>4
<1>12. PICK file, cleanup : file = <<>> /\ cleanup = FALSE
  OBVIOUS
<1>13. file \in Seq(Nat) /\ cleanup \in BOOLEAN
  BY <1>12, Empties
<1>14. put' = [pc |-> pc, target |-> target, mode |-> mode, header |-> header, n |-> n,
               altered |-> altered, short |-> short, left |-> left, chunks |-> chunks,
               declared |-> declared, file |-> file, plain |-> file,
               cleanup |-> cleanup, answer |-> answer]
  BY <1>4, <1>12
<1>15. put' \in PutState
  <2>1. n \in BodySizes \cup {0}
    OBVIOUS
  <2>2. short \in BOOLEAN
    OBVIOUS
  <2> QED
    BY <1>5, <1>8, <1>10, <1>11, <1>13, <1>14, <2>1, <2>2 DEF PutState
<1>16. /\ put'.pc = pc /\ put'.target = target /\ put'.mode = mode /\ put'.header = header
       /\ put'.n = n /\ put'.altered = altered
  BY <1>14
<1>17. /\ put'.left = left /\ put'.chunks = chunks /\ put'.declared = declared
       /\ put'.file = file /\ put'.plain = file /\ put'.cleanup = cleanup
       /\ put'.answer = answer
  BY <1>14
<1>18. Body' = body
  BY <1>4, <1>16 DEF Body
<1>19. pc # "done" => Ahead(file, left, chunks)'
  <2>1. FromChunks' <=> mode \in Chunked /\ (pc = "stage" \/ header # "none")
    BY <1>16 DEF FromChunks
  <2>4. pc # "done" => ~Staged'
    BY <1>4, <1>16 DEF Staged
  <2>2. CASE mode \in Chunked
    <3>1. OnWire(body, mode, file, left, chunks)
      BY <1>4, <1>9, <1>12, <2>2
    <3>2. pc # "done" => FromChunks'
      BY <1>4, <2>1, <2>2
    <3> QED
      BY <1>16, <1>18, <3>1, <3>2 DEF Ahead
  <2>3. CASE mode \notin Chunked
    <3>1. ~FromChunks'
      BY <2>1, <2>3
    <3>2. chunks = <<>> /\ left = body
      BY <1>4, <2>3
    <3>3. file \o left = left
      BY <1>10, <1>12, ConcatEmptySeq
    <3> QED
      BY <1>18, <2>4, <3>1, <3>2, <3>3 DEF Ahead, Source
  <2> QED
    BY <2>2, <2>3
<1>20. Len(file) = 0
  BY <1>12, Empties
<1>21. ~Staged'
  BY <1>4, <1>16 DEF Staged
<1>22. TransferInv'
  <2>1. put'.pc = "stage" => Ahead(put.file, put.left, put.chunks)' /\ put'.header = "none"
    BY <1>4, <1>16, <1>17, <1>19
  <2>2. put'.pc \in {"stage", "check"} => put'.plain = <<>>
    BY <1>12, <1>17
  <2>3. Len(put'.file) <= MaxObjectSize /\ Len(put'.plain) <= put'.declared
    BY <1>5, <1>8, <1>17, <1>20
  <2>4. /\ put'.pc = "check" => put'.target = "object"
        /\ put'.pc = "receive" => put'.target = "part"
        /\ put'.pc # "seal"
    BY <1>4, <1>16
  <2>5. put'.pc \in {"check", "seal", "receive"} =>
            /\ Ahead(put.plain, put.left, put.chunks)'
            /\ put'.declared = BodySize(put'.mode, put'.header, put'.n)
    BY <1>4, <1>16, <1>17, <1>19
  <2> QED
    BY <1>21, <2>1, <2>2, <2>3, <2>4, <2>5 DEF TransferInv
<1>23. AcceptedRight'
  BY <1>4, <1>16, <1>17 DEF AcceptedRight, StoredAsSent, AlterationsFound, Accepted
<1>24. answer = "EntityTooLarge" =>
          target = "object" /\ CiphertextSize(BodySize(mode, "length", n)) > MaxObjectSize
  <2>1. SUFFICES ASSUME answer = "EntityTooLarge"
                 PROVE  /\ target = "object"
                        /\ CiphertextSize(BodySize(mode, "length", n)) > MaxObjectSize
    OBVIOUS
  <2>2. target = "object" /\ header # "none" /\ declared > MaxObjectSize
    BY <1>4, <2>1
  <2>3. PICK m : m = BodySize(mode, "length", n)
    OBVIOUS
  <2>4. m \in Nat /\ declared <= m
    BY <1>8, <2>2, <2>3
  <2>5. CiphertextSize(m) > MaxObjectSize
    BY <1>8, <2>2, <2>4, SizedEnough
  <2> QED
    BY <2>2, <2>3, <2>5
<1>25. LimitsExact'
  <2>1. put'.pc # "seal"
    BY <1>4, <1>16
  <2>2. Len(put'.file) <= MaxObjectSize + 1
    BY <1>5, <1>17, <1>20
  <2>3. put'.answer = "EntityTooLarge" =>
          IF put'.target = "part" THEN put'.n > MaxObjectSize
          ELSE CiphertextSize(BodySize(put'.mode, "length", put'.n)) > MaxObjectSize
    BY <1>16, <1>17, <1>24
  <2> QED
    BY <2>1, <2>2, <2>3 DEF LimitsExact
<1>26. temp' \in BOOLEAN
  BY <1>4
<1>27. temp' => put'.pc = "stage"
  BY <1>4, <1>16
<1>28. put'.altered <= put'.n /\ put'.pc \notin {"idle", "commit"}
  BY <1>4, <1>5, <1>16
<1>29. (put'.answer = "none" => put'.pc # "done") /\ (put'.pc # "done" => put'.answer = "none")
  BY <1>4, <1>16, <1>17
<1> QED
  BY <1>15, <1>22, <1>23, <1>25, <1>26, <1>27, <1>28, <1>29 DEF WriteInv

LEMMA WriteSame ==
    ASSUME WriteInv, UNCHANGED writeVars
    PROVE  WriteInv'
<1>1. put' = put /\ temp' = temp
  BY DEF writeVars
<1>2. put' \in PutState /\ TransferInv' /\ AcceptedRight' /\ LimitsExact'
  <2>1. (FromChunks' <=> FromChunks) /\ Body' = Body /\ (Staged' <=> Staged)
        /\ (Accepted' <=> Accepted) /\ (Unaltered' <=> Unaltered)
    BY <1>1 DEF FromChunks, Body, Staged, Accepted, Unaltered
  <2>2. SameBody
    BY <1>1 DEF SameBody
  <2>3. \A plain, left, chunks : Ahead(plain, left, chunks) => Ahead(plain, left, chunks)'
    BY <1>1, <2>1, <2>2, AheadStays
  <2>4. /\ Ahead(put.file, put.left, put.chunks) => Ahead(put.file, put.left, put.chunks)'
        /\ Ahead(put.plain, put.left, put.chunks) => Ahead(put.plain, put.left, put.chunks)'
    BY <1>1, <2>3
  <2>5. Kept(put.file) => Kept(put.file)'
    <3>1. \A file : Kept(file) => Kept(file)'
      BY <2>2, KeptStays
    <3> QED
      BY <1>1, <3>1
  <2>6. TransferInv'
    BY <1>1, <2>1, <2>4, <2>5 DEF WriteInv, TransferInv
  <2>7. AcceptedRight' /\ LimitsExact'
    BY <1>1, <2>1 DEF WriteInv, AcceptedRight, StoredAsSent, AlterationsFound, LimitsExact
  <2> QED
    BY <1>1, <2>6, <2>7 DEF WriteInv
<1> QED
  BY <1>1, <1>2 DEF WriteInv

-----------------------------------------------------------------------------
(* The invariant, and what follows from it *)

WritesInv == ReadInv /\ WriteInv

LEMMA WritesInitInv == WritesInit => WritesInv
<1> SUFFICES ASSUME WritesInit PROVE WritesInv
  OBVIOUS
<1>1. ReadInv
  BY ReadInit DEF WritesInit
<1>2. put = NoPut /\ temp = FALSE
  BY DEF WritesInit
<1>3. TransferInv /\ AcceptedRight
  BY <1>2, NoPutIs DEF TransferInv, Staged, AcceptedRight, StoredAsSent, AlterationsFound, Accepted
<1>4. LimitsExact
  <2>1. Len(put.file) <= MaxObjectSize + 1
    BY <1>2, NoPutIs, Empties, BodyAssumption
  <2> QED
    BY <1>2, <2>1, NoPutIs DEF LimitsExact
<1>5. /\ put \in PutState /\ put.pc = "idle" /\ put.target = "object" /\ put.n = 0
      /\ put.altered = 0 /\ put.file = <<>> /\ put.answer = "none"
  BY <1>2, NoPutIs
<1>6. temp \in BOOLEAN /\ ~temp
  BY <1>2
<1>7. put.altered <= put.n
  BY <1>5
<1>8. WriteInv
  BY <1>3, <1>4, <1>5, <1>6, <1>7 DEF WriteInv
<1> QED
  BY <1>1, <1>8 DEF WritesInv

LEMMA WritesStep ==
    ASSUME WritesInv, [WritesNext]_<<readVars, writeVars>>
    PROVE  WritesInv'
<1> USE DEF WritesInv
<1>1. CASE BeginPut
  BY <1>1, BeginPutStep, StillReads DEF BeginPut
<1>2. CASE Stage
  BY <1>2, StageStep, StillReads DEF Stage
<1>3. CASE StageFails
  BY <1>3, StageFailsStep, StillReads DEF StageFails
<1>4. CASE Check
  <2>1. UNCHANGED readVars
    BY <1>4 DEF Check
  <2> QED
    BY <1>4, <2>1, CheckStep, StillReads
<1>5. CASE SealFrame
  <2>1. UNCHANGED readVars
    BY <1>5 DEF SealFrame
  <2> QED
    BY <1>5, <2>1, SealFrameStep, StillReads
<1>6. CASE Uploaded
  <2>1. UNCHANGED readVars
    BY <1>6 DEF Uploaded
  <2> QED
    BY <1>6, <2>1, UploadedStep, StillReads
<1>7. CASE CommitPut
  <2>1. ReadInv'
    <3>1. Store(put.declared) \/ UNCHANGED readVars
      BY <1>7 DEF CommitPut
    <3>2. PICK n : n = put.declared
      OBVIOUS
    <3>3. n \in Nat
      BY <3>2, PutNumbers DEF WriteInv
    <3>4. CASE Store(n)
      BY <3>3, <3>4, StoreKeeps
    <3> QED
      BY <3>1, <3>2, <3>4, StillReads
  <2> QED
    BY <1>7, <2>1, CommitStep
<1>8. CASE ReceivePart
  <2>1. UNCHANGED readVars
    BY <1>8 DEF ReceivePart
  <2> QED
    BY <1>8, <2>1, ReceivePartStep, StillReads
<1>9. CASE FinishPut
  BY <1>9, FinishPutStep, StillReads DEF FinishPut
<1>10. CASE ReadStep /\ UNCHANGED writeVars
  BY <1>10, ReadStepKeeps, WriteSame
<1>11. CASE UNCHANGED <<readVars, writeVars>>
  <2>1. UNCHANGED readVars /\ UNCHANGED writeVars
    BY <1>11
  <2> QED
    BY <2>1, StillReads, WriteSame
<1> QED
  BY <1>1, <1>2, <1>3, <1>4, <1>5, <1>6, <1>7, <1>8, <1>9, <1>10, <1>11 DEF WritesNext

LEMMA WritesInvariant == WritesSpec => []WritesInv
<1>1. WritesInit => WritesInv
  BY WritesInitInv
<1>2. WritesInv /\ [WritesNext]_<<readVars, writeVars>> => WritesInv'
  BY WritesStep
<1> QED
  BY <1>1, <1>2, PTL DEF WritesSpec

LEMMA WritesTyped == WritesInv => WritesTypeOK
<1> SUFFICES ASSUME WritesInv PROVE WritesTypeOK
  OBVIOUS
<1>1. ReadTypeOK /\ put \in PutState
  BY ReadsTyped DEF WritesInv, WriteInv
<1>2. put.altered \in 0..put.n
  BY <1>1, PutNumbers DEF WritesInv, WriteInv
<1>3. /\ put.pc \in {"idle", "stage", "check", "seal", "commit", "receive", "done"}
      /\ put.target \in {"object", "part"}
      /\ put.answer \in {"none", "ok", "error", "EntityTooLarge", "InvalidArgument"}
  BY <1>1 DEF PutState
<1>4. put.mode \in Mode /\ put.header \in SizeHeader /\ put.n \in BodySizes \cup {0}
  BY <1>1, Zenon DEF PutState
<1>5. put.left \in Seq(Nat) /\ put.file \in Seq(Nat) /\ put.plain \in Seq(Nat)
  BY <1>1 DEF PutState
<1>6. /\ put.chunks \in Seq(Seq(Nat)) /\ put.declared \in Nat
      /\ put.short \in BOOLEAN /\ put.cleanup \in BOOLEAN
  BY <1>1, Zenon DEF PutState
<1>7. temp \in BOOLEAN /\ (temp => put.pc = "stage" \/ put.cleanup)
  BY DEF WritesInv, WriteInv
<1>8. {put.left, put.file, put.plain} \subseteq Seq(Nat)
  BY <1>5
<1>9. {temp, put.short, put.cleanup} \subseteq BOOLEAN
  BY <1>6, <1>7
<1> QED
  BY <1>1, <1>2, <1>3, <1>4, <1>6, <1>7, <1>8, <1>9 DEF WritesTypeOK

\* Every variable keeps its type while bodies are received, refused and stored and
\* objects are read; and a staged file put-*.tmp never stays behind without the removal
\* that stageTemp has deferred for it, or that its error paths do (service.go).
THEOREM WritesTypes == WritesSpec => []WritesTypeOK
BY WritesInvariant, WritesTyped, PTL

\* "reader must yield exactly size bytes" (service.go:58): for bodies, chunks and frames
\* of every size, what the backend or the file of a part has got when it is accepted is
\* the body as it arrived, in order and, where a header or the end of its framing tells
\* its size, whole, whatever the reads returned, wherever the connection broke and
\* wherever the wire of a body in chunks ended; only where no header tells the size and
\* the wire ends early is a beginning accepted.
THEOREM BodiesStoredAsSent == WritesSpec => []StoredAsSent
<1>1. WritesInv => StoredAsSent
  BY DEF WritesInv, WriteInv, AcceptedRight
<1> QED
  BY <1>1, WritesInvariant, PTL

\* The chunk readers verify a chunk before its first byte is handed out, and
\* hashCheckingReader compares where its end is read: no byte is accepted of a chunk that
\* was altered, of any size, and no altered body with a hash by stageTemp or UploadPart.
\* What PutObject accepts of a hashed body with a size is not among it.
THEOREM AlterationsAreFound == WritesSpec => []AlterationsFound
<1>1. WritesInv => AlterationsFound
  BY DEF WritesInv, WriteInv, AcceptedRight
<1> QED
  BY <1>1, WritesInvariant, PTL

\* putObject, stageTemp and PutObject refuse as too large only what is too large, for
\* every limit of the backend and every size; nothing larger is given to the backend,
\* and no more than a byte over the limit is staged.
THEOREM LimitsAreExact == WritesSpec => []LimitsExact
<1>1. WritesInv => LimitsExact
  BY DEF WritesInv, WriteInv
<1> QED
  BY <1>1, WritesInvariant, PTL

\* getObject and the decrypter: an answer that is complete is the object of the row that
\* its headers come from, whatever was cut off its message or exchanged in it, and
\* whatever was stored meanwhile (crypto.go:11-14).
THEOREM WholeAnswersAreRight == WritesSpec => []WholeAnswersRight
<1>1. WritesInv => WholeAnswersRight
  BY WholeAnswers DEF WritesInv
<1> QED
  BY <1>1, WritesInvariant, PTL

\* getObjectRange and DecryptRange: a complete answer to a range is the bytes at the
\* positions asked for, all of one version, for every frame size and every range; and
\* only a range that names no byte, or that raced with an overwrite, is refused.
THEOREM RangeAnswersAreRight == WritesSpec => []RangeAnswersRight
<1>1. WritesInv => RangeAnswersRight
  BY RangeAnswers DEF WritesInv
<1> QED
  BY <1>1, WritesInvariant, PTL

\* CiphertextSize, the encrypter and both readers agree on where every frame is, at every
\* size: no answer is cut short or refused unless the message of its version was changed.
THEOREM UndamagedReadsAreComplete == WritesSpec => []UndamagedReadsComplete
<1>1. WritesInv => UndamagedReadsComplete
  BY UndamagedReads DEF WritesInv
<1> QED
  BY <1>1, WritesInvariant, PTL
=============================================================================

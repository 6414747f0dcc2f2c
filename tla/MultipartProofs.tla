-------------------------- MODULE MultipartProofs --------------------------
(***************************************************************************)
(* Theorems about Multipart: what a completed object holds, and what an    *)
(* abort leaves behind.                                                    *)
(***************************************************************************)
EXTENDS Multipart, FiniteSetTheorems, SequenceTheorems, TLAPS

-----------------------------------------------------------------------------
(* Rows, files and acknowledgements: functions from parts to bodies *)

LEMMA PartsAre ==
    ASSUME NEW f
    PROVE  f \in SomeParts <=> /\ f = [p \in DOMAIN f |-> f[p]]
                               /\ DOMAIN f \subseteq Part
                               /\ \A p \in DOMAIN f : f[p] \in Bodies[p]
<1>1. ASSUME f \in SomeParts
      PROVE  /\ f = [p \in DOMAIN f |-> f[p]] /\ DOMAIN f \subseteq Part
             /\ \A p \in DOMAIN f : f[p] \in Bodies[p]
  BY <1>1 DEF SomeParts
<1>2. ASSUME f = [p \in DOMAIN f |-> f[p]], DOMAIN f \subseteq Part,
             \A p \in DOMAIN f : f[p] \in Bodies[p]
      PROVE  f \in SomeParts
  <2> DEFINE ps == DOMAIN f
  <2>1. f \in [ps -> UNION {Bodies[p] : p \in ps}]
    BY <1>2
  <2> QED
    BY <1>2, <2>1 DEF SomeParts
<1> QED
  BY <1>1, <1>2

\* A part is written over what there was.
LEMMA PartWritten ==
    ASSUME NEW f \in SomeParts, NEW p \in Part, NEW b \in Bodies[p]
    PROVE  /\ WithPart(f, p, b) \in SomeParts
           /\ DOMAIN WithPart(f, p, b) = DOMAIN f \cup {p}
           /\ WithPart(f, p, b)[p] = b
           /\ \A q \in DOMAIN f \ {p} : WithPart(f, p, b)[q] = f[q]
<1> DEFINE g == WithPart(f, p, b)
<1>1. /\ DOMAIN g = DOMAIN f \cup {p} /\ g[p] = b /\ \A q \in DOMAIN f \ {p} : g[q] = f[q]
      /\ g = [q \in DOMAIN g |-> g[q]]
  BY DEF WithPart
<1> HIDE DEF g
<1>2. g \in SomeParts
  BY <1>1, PartsAre
<1> QED
  BY <1>1, <1>2 DEF g

\* A part is forgotten.
LEMMA PartForgotten ==
    ASSUME NEW f \in SomeParts, NEW S
    PROVE  /\ Restrict(f, DOMAIN f \ S) \in SomeParts
           /\ DOMAIN Restrict(f, DOMAIN f \ S) = DOMAIN f \ S
           /\ \A q \in DOMAIN f \ S : Restrict(f, DOMAIN f \ S)[q] = f[q]
<1> DEFINE g == Restrict(f, DOMAIN f \ S)
<1>1. /\ DOMAIN g = DOMAIN f \ S /\ g = [q \in DOMAIN g |-> g[q]]
      /\ \A q \in DOMAIN f \ S : g[q] = f[q]
  BY DEF Restrict
<1> HIDE DEF g
<1>2. g \in SomeParts
  BY <1>1, PartsAre
<1> QED
  BY <1>1, <1>2 DEF g

LEMMA NoParts == Nothing \in SomeParts /\ DOMAIN Nothing = {}
<1>1. DOMAIN Nothing = {} /\ Nothing = [p \in DOMAIN Nothing |-> Nothing[p]]
  BY DEF Nothing
<1> QED
  BY <1>1, PartsAre

-----------------------------------------------------------------------------
(* Least numbers, and joining bodies *)

\* A set of numbers has a least one: the intervals below its elements are
\* ordered by inclusion, which is well-founded on finite sets.
LEMMA LeastPart ==
    ASSUME NEW S, S \subseteq Nat, S # {}
    PROVE  \E n \in S : \A m \in S : n <= m
<1> DEFINE R == StrictSubsetOrdering(Nat)
           U == FiniteSubsetsOf(Nat)
           T == {0..n : n \in S}
<1>1. IsWellFoundedOn(R, U)
  BY FS_StrictSubsetOrderingWellFounded
<1>2. \A n \in Nat : 0..n \in U /\ 0..n \in SUBSET Nat
  BY FS_Interval DEF FiniteSubsetsOf
<1>3. T \subseteq U /\ T # {}
  BY <1>2
<1>4. PICK x \in T : \A y \in T : ~(<<y, x>> \in R)
  <2> HIDE DEF R, U, T
  <2> QED
    BY <1>1, <1>3, WFMin
<1>5. PICK n \in S : x = 0..n
  BY <1>4
<1>6. ASSUME NEW m \in S, m < n PROVE FALSE
  <2>1. 0..m \in T
    OBVIOUS
  <2>2. 0..m \subseteq 0..n /\ n \in 0..n /\ n \notin 0..m
    BY <1>6
  <2>3. <<0..m, 0..n>> \in R
    BY <1>2, <2>2 DEF StrictSubsetOrdering
  <2> QED
    BY <1>4, <1>5, <2>1, <2>3
<1> QED
  BY <1>5, <1>6

\* The part that OpenPart takes.
LEMMA NextPart ==
    ASSUME NEW S, S \subseteq Part, S # {}
    PROVE  LET p == CHOOSE q \in S : \A o \in S : q <= o
           IN  p \in S /\ \A o \in S : p <= o
<1>1. S \subseteq Nat
  BY DEF Part
<1>2. \E p \in S : \A o \in S : p <= o
  BY <1>1, LeastPart
<1> QED
  BY <1>2

Piece(f, i) == IF i \in DOMAIN f THEN f[i] ELSE <<>>

\* g[i]: the bytes of the parts up to i.
Prefixes(f, g, n) ==
    /\ g \in [0..n -> Seq(Block)]
    /\ g[0] = <<>>
    /\ \A i \in 1..n : g[i] = g[i - 1] \o Piece(f, i)

LEMMA PieceTyped ==
    ASSUME NEW f \in SomeParts, NEW i
    PROVE  Piece(f, i) \in Seq(Block)
<1>1. CASE i \in DOMAIN f
  <2>1. f[i] \in Bodies[i] /\ i \in Part
    BY <1>1, PartsAre
  <2> QED
    BY <1>1, <2>1, PartAssumption DEF Piece
<1>2. CASE i \notin DOMAIN f
  BY <1>2 DEF Piece
<1> QED
  BY <1>1, <1>2

LEMMA PrefixesExist ==
    ASSUME NEW f \in SomeParts
    PROVE  \E g : Prefixes(f, g, MaxPart)
<1> DEFINE without == {n \in 0..MaxPart : ~\E g : Prefixes(f, g, n)}
<1>1. without = {}
  <2> SUFFICES ASSUME without # {} PROVE FALSE
    OBVIOUS
  <2>1. PICK n \in without : \A m \in without : n <= m
    <3>1. without \subseteq Nat
      BY PartAssumption
    <3> HIDE DEF without
    <3> QED
      BY <3>1, LeastPart
  <2>2. n # 0
    <3> DEFINE g0 == [i \in 0..0 |-> <<>>]
    <3>1. Prefixes(f, g0, 0)
      BY DEF Prefixes
    <3> HIDE DEF g0
    <3> QED
      BY <2>1, <3>1
  <2>3. n \in Nat /\ n - 1 \in 0..MaxPart /\ n - 1 \in Nat /\ n \in 1..MaxPart
    BY <2>1, <2>2, PartAssumption
  <2>4. PICK g : Prefixes(f, g, n - 1)
    <3>1. ~(n <= n - 1)
      BY <2>3
    <3> QED
      BY <2>1, <2>3, <3>1
  <2> DEFINE h == [i \in 0..n |-> IF i = n THEN g[n - 1] \o Piece(f, n) ELSE g[i]]
  <2>5. g \in [0..n - 1 -> Seq(Block)] /\ g[n - 1] \in Seq(Block)
    BY <2>3, <2>4 DEF Prefixes
  <2>6. h \in [0..n -> Seq(Block)]
    <3>1. g[n - 1] \o Piece(f, n) \in Seq(Block)
      BY <2>5, PieceTyped
    <3>2. ASSUME NEW i \in 0..n, i # n PROVE g[i] \in Seq(Block)
      BY <2>3, <2>5, <3>2
    <3>3. \A i \in 0..n : (IF i = n THEN g[n - 1] \o Piece(f, n) ELSE g[i]) \in Seq(Block)
      BY <3>1, <3>2
    <3> QED
      BY <3>3
  <2>7. h[0] = <<>>
    BY <2>3, <2>4 DEF Prefixes
  <2>8. ASSUME NEW i \in 1..n PROVE h[i] = h[i - 1] \o Piece(f, i)
    <3>1. CASE i = n
      <4>1. n \in 0..n /\ n - 1 \in 0..n /\ n - 1 # n
        BY <2>3
      <4>2. h[n] = g[n - 1] \o Piece(f, n) /\ h[n - 1] = g[n - 1]
        BY <4>1, Zenon
      <4> QED
        BY <3>1, <4>2, Zenon
    <3>2. CASE i # n
      <4>1. i \in 1..n - 1 /\ i - 1 \in 0..n /\ i - 1 # n /\ i \in 0..n
        BY <2>3, <2>8, <3>2
      <4>2. h[i] = g[i] /\ h[i - 1] = g[i - 1]
        BY <3>2, <4>1
      <4> QED
        BY <2>4, <4>1, <4>2 DEF Prefixes
    <3> QED
      BY <3>1, <3>2
  <2>9. Prefixes(f, h, n)
    <3> HIDE DEF h
    <3> QED
      BY <2>6, <2>7, <2>8 DEF Prefixes
  <2> QED
    BY <2>1, <2>9
<1>2. MaxPart \in 0..MaxPart
  BY PartAssumption
<1> QED
  BY <1>1, <1>2

\* The recursion of Join.
LEMMA JoinIs ==
    ASSUME NEW f \in SomeParts
    PROVE  \E g : Prefixes(f, g, MaxPart) /\ Join(f) = g[MaxPart]
<1> DEFINE step(g) == [n \in 0..MaxPart |->
                         IF n = 0 THEN <<>>
                         ELSE g[n - 1] \o (IF n \in DOMAIN f THEN f[n] ELSE <<>>)]
           c == CHOOSE g : g = step(g)
<1>0. MaxPart \in Nat
  BY PartAssumption
<1>1. PICK g : Prefixes(f, g, MaxPart)
  BY PrefixesExist
<1>2. g = step(g)
  <2>1. g = [n \in 0..MaxPart |-> g[n]]
    BY <1>1 DEF Prefixes
  <2>2. ASSUME NEW n \in 0..MaxPart
        PROVE  g[n] = IF n = 0 THEN <<>>
                      ELSE g[n - 1] \o (IF n \in DOMAIN f THEN f[n] ELSE <<>>)
    <3>1. n = 0 \/ n \in 1..MaxPart
      BY <1>0
    <3> QED
      BY <1>1, <3>1 DEF Prefixes, Piece
  <2> QED
    BY <2>1, <2>2, Zenon
<1>3. c = step(c)
  BY <1>2
<1>4. Join(f) = c[MaxPart]
  BY DEF Join
<1> HIDE DEF c
<1> DEFINE wrong == {n \in 0..MaxPart : c[n] # g[n]}
<1>5. c[0] = <<>> /\ \A n \in 1..MaxPart : c[n] = c[n - 1] \o Piece(f, n)
  <2>1. 0 \in 0..MaxPart /\ \A n \in 1..MaxPart : n \in 0..MaxPart /\ n # 0
    BY <1>0
  <2>2. \A n \in 0..MaxPart : step(c)[n] = IF n = 0 THEN <<>> ELSE c[n - 1] \o Piece(f, n)
    BY DEF Piece
  <2> HIDE DEF step
  <2> QED
    BY <1>3, <2>1, <2>2, Zenon
<1>6. wrong = {}
  <2> SUFFICES ASSUME wrong # {} PROVE FALSE
    OBVIOUS
  <2>1. PICK n \in wrong : \A m \in wrong : n <= m
    <3>1. wrong \subseteq Nat
      BY <1>0
    <3> HIDE DEF wrong
    <3> QED
      BY <3>1, LeastPart
  <2>2. n \in 1..MaxPart
    BY <1>0, <1>1, <1>5, <2>1 DEF Prefixes
  <2>3. c[n - 1] = g[n - 1]
    BY <1>0, <2>1, <2>2
  <2> QED
    BY <1>1, <1>5, <2>1, <2>2, <2>3 DEF Prefixes
<1> QED
  BY <1>0, <1>1, <1>4, <1>6

\* Bytes depend on the parts up to there.
LEMMA PrefixesAgree ==
    ASSUME NEW f, NEW g, NEW h, NEW k, Prefixes(f, g, MaxPart), Prefixes(h, k, MaxPart),
           NEW n \in 0..MaxPart, \A i \in 1..n : Piece(f, i) = Piece(h, i)
    PROVE  g[n] = k[n]
<1>0. MaxPart \in Nat /\ n \in Nat
  BY PartAssumption
<1> DEFINE wrong == {m \in 0..n : g[m] # k[m]}
<1> SUFFICES ASSUME wrong # {} PROVE FALSE
  BY <1>0
<1>1. PICK m \in wrong : \A o \in wrong : m <= o
  <2>1. wrong \subseteq Nat
    BY <1>0
  <2> HIDE DEF wrong
  <2> QED
    BY <2>1, LeastPart
<1>2. m # 0
  BY <1>1 DEF Prefixes
<1>3. m \in 1..n /\ m \in 1..MaxPart /\ m - 1 \in 0..n /\ ~(m <= m - 1)
  BY <1>0, <1>1, <1>2
<1>4. g[m - 1] = k[m - 1]
  BY <1>1, <1>3
<1>5. g[m] = g[m - 1] \o Piece(f, m) /\ k[m] = k[m - 1] \o Piece(h, m)
  BY <1>3 DEF Prefixes
<1> QED
  BY <1>1, <1>3, <1>4, <1>5

\* Nothing comes behind the last part.
LEMMA PrefixesStop ==
    ASSUME NEW f, NEW g, Prefixes(f, g, MaxPart), NEW n \in 0..MaxPart,
           \A i \in DOMAIN f : ~(n < i)
    PROVE  g[MaxPart] = g[n]
<1>0. MaxPart \in Nat /\ n \in Nat
  BY PartAssumption
<1> DEFINE wrong == {m \in n..MaxPart : g[m] # g[n]}
<1> SUFFICES ASSUME wrong # {} PROVE FALSE
  BY <1>0
<1>1. PICK m \in wrong : \A o \in wrong : m <= o
  <2>1. wrong \subseteq Nat
    BY <1>0
  <2> HIDE DEF wrong
  <2> QED
    BY <2>1, LeastPart
<1>2. m # n
  BY <1>1
<1>3. m \in 1..MaxPart /\ m - 1 \in n..MaxPart /\ m - 1 \in 0..MaxPart /\ ~(m <= m - 1) /\ n < m
  BY <1>0, <1>1, <1>2
<1>4. g[m - 1] = g[n]
  BY <1>1, <1>3
<1>5. g[m] = g[m - 1] \o <<>> /\ g[m - 1] \in Seq(Block)
  BY <1>3 DEF Prefixes, Piece
<1>6. g[m] = g[m - 1]
  BY <1>5
<1> QED
  BY <1>1, <1>4, <1>6

\* Bytes of no part.
LEMMA JoinNone ==
    ASSUME NEW f \in SomeParts, DOMAIN f = {}
    PROVE  Join(f) = <<>>
<1>1. PICK g : Prefixes(f, g, MaxPart) /\ Join(f) = g[MaxPart]
  BY JoinIs
<1>2. 0 \in 0..MaxPart
  BY PartAssumption
<1>3. g[MaxPart] = g[0]
  BY <1>1, <1>2, PrefixesStop
<1> QED
  BY <1>1, <1>3 DEF Prefixes

LEMMA JoinTyped ==
    ASSUME NEW f \in SomeParts
    PROVE  Join(f) \in Seq(Block)
<1>1. PICK g : Prefixes(f, g, MaxPart) /\ Join(f) = g[MaxPart]
  BY JoinIs
<1>2. MaxPart \in 0..MaxPart
  BY PartAssumption
<1> QED
  BY <1>1, <1>2 DEF Prefixes

\* A part behind all others is appended.
LEMMA JoinNext ==
    ASSUME NEW f \in SomeParts, NEW h \in SomeParts, NEW p \in Part,
           DOMAIN h = DOMAIN f \cup {p}, \A q \in DOMAIN f : q < p /\ h[q] = f[q]
    PROVE  Join(h) = Join(f) \o h[p]
<1>1. PICK g : Prefixes(f, g, MaxPart) /\ Join(f) = g[MaxPart]
  BY JoinIs
<1>2. PICK k : Prefixes(h, k, MaxPart) /\ Join(h) = k[MaxPart]
  BY JoinIs
<1>3. /\ p \in Nat /\ p \in 1..MaxPart /\ p - 1 \in 0..MaxPart /\ p \in 0..MaxPart
      /\ DOMAIN f \subseteq Nat /\ DOMAIN h \subseteq Nat
  BY PartsAre, PartAssumption DEF Part
<1>4. \A i \in DOMAIN f : ~(p - 1 < i)
  BY <1>3
<1>5. \A i \in DOMAIN h : ~(p < i)
  BY <1>3
<1>6. \A i \in 1..p - 1 : Piece(f, i) = Piece(h, i)
  <2>1. \A i \in 1..p - 1 : i # p
    BY <1>3
  <2> QED
    BY <2>1 DEF Piece
<1>7. g[p - 1] = k[p - 1]
  BY <1>1, <1>2, <1>3, <1>6, PrefixesAgree
<1>8. g[MaxPart] = g[p - 1]
  BY <1>1, <1>3, <1>4, PrefixesStop
<1>9. k[MaxPart] = k[p]
  BY <1>2, <1>3, <1>5, PrefixesStop
<1>10. k[p] = k[p - 1] \o h[p]
  BY <1>2, <1>3 DEF Prefixes, Piece
<1> QED
  BY <1>1, <1>2, <1>7, <1>8, <1>9, <1>10

-----------------------------------------------------------------------------
(* The invariants *)

\* What a handler holds at its step.
WellFormed(q) ==
    /\ q \in RequestState
    /\ q.pc \in CreateStep => q.op = "create" /\ q.key \in Key
    /\ q.pc \in PartStep => q.op = "uploadPart" /\ q.part \in Part /\ q.body \in Bodies[q.part]
    /\ q.pc \in CompleteStep => q.op = "complete" /\ q.key \in Key
    /\ q.pc \in AbortStep => q.op = "abort"
    /\ q.pc \in CloseStep => q.op \in {"complete", "abort"}
    /\ q.pc \in Step \ {"createCheck", "makeDir"} => q.upload \in Upload
    /\ q.pc \in {"commit", "rollback"} => q.msg \in Message
    /\ q.listed \subseteq DOMAIN q.want /\ q.todo \subseteq DOMAIN q.want
    /\ q.pc \in {"completeRow", "listParts"} => q.stream = <<>> /\ q.total = 0
    /\ q.pc = "openPart" => q.todo # {}

StagingTyped ==
    /\ uploads \in [Upload -> Key \cup {None}]
    /\ parts \in [Upload -> SomeParts]
    /\ dirs \subseteq Upload
    /\ files \in [Upload -> SomeParts]
    /\ temps \in [Upload -> SUBSET (Request \cup {None})]
    /\ nextUpload \in 1..(MaxUploads + 1)

StoredTyped ==
    /\ objects \in [Key -> Message \cup {NoMessage}]
    /\ channel \subseteq Message
    /\ content \in [Message -> Seq(Block)]
    /\ nextMessage \in 1..(MaxMessages + 1)

HistoryTyped ==
    /\ status \in [Upload -> {"unknown", "open", "completed", "aborted"}]
    /\ acked \in [Upload -> SomeParts]

RequestsTyped == req \in [Request -> RequestState] /\ \A r \in Request : WellFormed(req[r])

TypeInv == StagingTyped /\ StoredTyped /\ HistoryTyped /\ RequestsTyped

\* What the open files of a Complete hold: bodies of the first parts it lists.
Gathered(q, w) ==
    /\ w \in SomeParts
    /\ DOMAIN w = DOMAIN q.want \ q.todo
    /\ \A p \in DOMAIN w, o \in q.todo : p < o
    /\ q.stream = Join(w) /\ q.total = Len(q.stream)

\* Whole bodies are sent, of messages that have been numbered.
BodiesInv ==
    /\ \A m \in Message : m < nextMessage => \E w \in SomeParts : content[m] = Join(w)
    /\ \A k \in Key : objects[k] # NoMessage => objects[k] < nextMessage
    /\ \A r \in Request :
          /\ req[r].pc \in {"commit", "rollback"} => req[r].msg < nextMessage
          /\ req[r].pc \in {"openPart", "store"} => \E w \in SomeParts : Gathered(req[r], w)

\* Requests on an upload that exists.
Using(r, u) == InFlight(r) /\ req[r].op # "create" /\ req[r].upload = u

\* Careful clients: what is in progress on an upload is one request, or uploads of
\* different parts.
Alone ==
    /\ \A r \in Request : req[r].live
    /\ \A u \in Upload : \A r, s \in Request :
          Using(r, u) /\ Using(s, u) /\ r # s =>
              /\ req[r].op = "uploadPart" /\ req[s].op = "uploadPart"
              /\ req[r].part # req[s].part

\* What the client was answered for a part is what its file holds, if it has one.
AckedAreFiled ==
    \A u \in Upload : \A p \in DOMAIN acked[u] \cap DOMAIN files[u] : files[u][p] = acked[u][p]

\* A part is not acknowledged while it is uploaded, and its file is there, if it still
\* is, before its row.
PartsPending ==
    \A r \in Request : req[r].pc \in PartStep =>
        LET u == req[r].upload
            p == req[r].part
        IN  /\ p \notin DOMAIN acked[u]
            /\ req[r].pc = "upsert" /\ p \in DOMAIN files[u] => files[u][p] = req[r].body

\* A Complete lists the parts as they were acknowledged, and gathers these.
Listing(q) ==
    /\ q.pc \in {"completeRow", "listParts", "openPart", "store"} =>
          /\ DOMAIN q.want \subseteq DOMAIN acked[q.upload]
          /\ \A p \in DOMAIN q.want : q.want[p] = acked[q.upload][p]
    /\ q.pc \in {"openPart", "store"} => Gathered(q, Restrict(q.want, DOMAIN q.want \ q.todo))
    /\ q.pc = "store" => q.todo = {}

\* A Complete whose message has been sent, up to its answer.
Sent(q) ==
    /\ q.op = "complete"
    /\ \/ q.pc \in {"commit", "rollback"} \cup CloseStep
       \/ q.pc = "replied" /\ q.answer = "ok"

SentAsListed ==
    \A r \in Request : Sent(req[r]) =>
        /\ req[r].msg \in Message /\ req[r].msg < nextMessage
        /\ content[req[r].msg] = Join(req[r].want)

PartsListed == \A r \in Request : Listing(req[r])

ListedInv == AckedAreFiled /\ PartsPending /\ PartsListed /\ SentAsListed

\* An upload is known to the clients when its creation has been answered.
Creating(r) == req[r].pc \in {"insertUpload", "dropDir"}

Introduced ==
    /\ \A u \in Upload : status[u] # "unknown" => u < nextUpload
    /\ \A r \in Request :
          /\ Creating(r) => req[r].upload < nextUpload /\ status[req[r].upload] = "unknown"
          /\ \A s \in Request : Creating(r) /\ Creating(s) /\ r # s => req[r].upload # req[s].upload
          /\ InFlight(r) /\ req[r].op # "create" => status[req[r].upload] # "unknown"

\* The directory is emptied, then removed, then the rows are deleted.
Emptying ==
    \A r \in Request :
        /\ req[r].pc \in {"removeDir", "deleteUpload"} =>
               files[req[r].upload] = Nothing /\ temps[req[r].upload] = {}
        /\ req[r].pc = "deleteUpload" => req[r].upload \notin dirs

Gone(u) ==
    /\ uploads[u] = None /\ parts[u] = Nothing
    /\ files[u] = Nothing /\ u \notin dirs

\* Of an aborted upload nothing is left, and no request gets past its row.
AbortedInv ==
    \A u \in Upload : status[u] = "aborted" =>
        /\ Gone(u)
        /\ \A r \in Request : Using(r, u) => req[r].pc \in {"partRow", "completeRow", "abortRow"}

AbortInv == Introduced /\ Emptying /\ AbortedInv

-----------------------------------------------------------------------------
(* How requests move *)

\* The steps a handler goes through, each with the next one.
Order ==
    {<<"createCheck", "makeDir">>, <<"insertUpload", "dropDir">>,
     <<"partRow", "createTemp">>, <<"createTemp", "receive">>, <<"receive", "rename">>,
     <<"rename", "upsert">>, <<"completeRow", "listParts">>, <<"commit", "removeFiles">>,
     <<"commit", "rollback">>, <<"abortRow", "removeFiles">>,
     <<"removeFiles", "removeDir">>, <<"removeDir", "deleteUpload">>}

Others(r) == \A s \in Request : s # r => req'[s] = req[s]

\* A request keeps who it is.
SameRequest(p, q) ==
    /\ q.op = p.op /\ q.upload = p.upload /\ q.key = p.key
    /\ q.want = p.want /\ q.msg = p.msg

SameWork(p, q) ==
    /\ SameRequest(p, q)
    /\ q.part = p.part /\ q.body = p.body /\ q.listed = p.listed /\ q.todo = p.todo
    /\ q.stream = p.stream /\ q.total = p.total

LEMMA Becoming ==
    ASSUME RequestsTyped, NEW r \in Request, NEW q, WellFormed(q), Become(r, q)
    PROVE  RequestsTyped' /\ req'[r] = q /\ Others(r)
<1>1. q \in RequestState
  BY DEF WellFormed
<1>2. req' \in [Request -> RequestState] /\ req'[r] = q /\ Others(r)
  BY <1>1 DEF RequestsTyped, Become, Others
<1>3. \A s \in Request : WellFormed(req'[s])
  BY <1>2 DEF RequestsTyped, Others
<1> QED
  BY <1>2, <1>3 DEF RequestsTyped, WellFormed, RequestState

LEMMA Going ==
    ASSUME RequestsTyped, NEW r \in Request, NEW step, <<req[r].pc, step>> \in Order,
           step = "rollback" => req[r].msg \in Message,
           Goto(r, step)
    PROVE  /\ RequestsTyped' /\ Others(r)
           /\ req'[r].pc = step /\ SameWork(req[r], req'[r]) /\ req'[r].live = req[r].live
           /\ req'[r].answer = req[r].answer
<1> DEFINE p == req[r]
           q == [p EXCEPT !.pc = step]
<1>1. p \in RequestState /\ WellFormed(p)
  BY DEF RequestsTyped
<1>2. /\ p.pc \in Step /\ step \in Step
      /\ p.pc \in CreateStep <=> step \in CreateStep
      /\ p.pc \in PartStep <=> step \in PartStep
      /\ step \in CompleteStep => p.pc \in CompleteStep
      /\ step \notin AbortStep
      /\ step \in CloseStep => p.pc \in CloseStep \/ p.pc \in CompleteStep \/ p.pc \in AbortStep
      /\ step \in Step \ {"createCheck", "makeDir"} => p.pc \in Step \ {"createCheck", "makeDir"}
      /\ step \in {"commit", "rollback"} => step = "rollback"
      /\ step # "openPart" /\ step # "completeRow"
      /\ step = "listParts" => p.pc = "completeRow"
  BY DEF Order, Step, CreateStep, PartStep, CompleteStep, AbortStep, CloseStep
<1>3. /\ q.pc = step /\ SameWork(p, q) /\ q.live = p.live /\ q.answer = p.answer
      /\ q \in RequestState
  BY <1>1, <1>2 DEF RequestState, SameWork, SameRequest
<1>4. WellFormed(q)
  <2> HIDE DEF p, q
  <2>1. step \in {"commit", "rollback"} => p.msg \in Message
    BY <1>2 DEF p
  <2> QED
    BY <1>1, <1>2, <1>3, <2>1 DEF WellFormed, SameWork, SameRequest
<1>5. Become(r, q)
  BY DEF Goto
<1> HIDE DEF q
<1> QED
  BY <1>3, <1>4, <1>5, Becoming

LEMMA IdleWellFormed == WellFormed(Idle)
<1>1. Idle \in RequestState
  BY NoParts DEF Idle, RequestState
<1> QED
  BY <1>1 DEF WellFormed, Idle, Step, CreateStep, PartStep, CompleteStep, AbortStep, CloseStep

LEMMA Replying ==
    ASSUME RequestsTyped, NEW r \in Request, InFlight(r), NEW answer \in Answer,
           Reply(r, answer)
    PROVE  /\ RequestsTyped' /\ Others(r)
           /\ req'[r].pc = "replied" /\ req'[r].answer = answer
           /\ SameRequest(req[r], req'[r]) /\ req'[r].live
<1> DEFINE p == req[r]
           q == [Idle EXCEPT !.pc = "replied", !.op = p.op, !.upload = p.upload,
                             !.key = p.key, !.want = p.want, !.msg = p.msg,
                             !.answer = answer]
<1>1. p \in RequestState
  BY DEF RequestsTyped
<1>2. /\ q.pc = "replied" /\ q.answer = answer /\ q.op = p.op /\ q.upload = p.upload
      /\ q.key = p.key /\ q.want = p.want /\ q.msg = p.msg /\ q.live
      /\ q.listed = {} /\ q.todo = {}
  BY DEF Idle
<1>3. SameRequest(p, q)
  BY <1>2 DEF SameRequest
<1>4. q \in RequestState
  <2>1. Idle \in RequestState
    BY IdleWellFormed DEF WellFormed
  <2>2. /\ p.op \in {"create", "uploadPart", "complete", "abort", None}
        /\ p.upload \in Upload \cup {0} /\ p.key \in Key \cup {None}
        /\ p.want \in SomeParts /\ p.msg \in Message \cup {NoMessage}
    BY <1>1 DEF RequestState
  <2> QED
    BY <2>1, <2>2 DEF RequestState
<1> HIDE DEF q
<1>5. WellFormed(q)
  <2>1. "replied" \notin Step
    BY DEF Step, CreateStep, PartStep, CompleteStep, AbortStep, CloseStep
  <2> QED
    BY <1>2, <1>4, <2>1
    DEF WellFormed, Step, CreateStep, PartStep, CompleteStep, AbortStep, CloseStep
<1>6. Become(r, q)
  BY DEF Reply, q
<1> QED
  BY <1>2, <1>3, <1>5, <1>6, Becoming

LEMMA StepsApart ==
    /\ {"idle", "replied"} \cap Step = {}
    /\ PartStep \cap (CreateStep \cup CompleteStep \cup AbortStep \cup CloseStep) = {}
    /\ CreateStep \cap (CompleteStep \cup AbortStep \cup CloseStep) = {}
    /\ CompleteStep \cap (AbortStep \cup CloseStep) = {} /\ AbortStep \cap CloseStep = {}
    /\ "completeRow" \in CompleteStep /\ "listParts" \in CompleteStep
    /\ "openPart" \in CompleteStep /\ "store" \in CompleteStep /\ "commit" \in CompleteStep
    /\ "rollback" \in CompleteStep /\ "createCheck" \in CreateStep /\ "makeDir" \in CreateStep
  BY DEF Step, CreateStep, PartStep, CompleteStep, AbortStep, CloseStep

LEMMA CreateBegins ==
    ASSUME RequestsTyped, NEW r \in Request, NEW k \in Key,
           Become(r, [Idle EXCEPT !.pc = "createCheck", !.op = "create", !.key = k])
    PROVE  /\ RequestsTyped' /\ Others(r)
           /\ req'[r].pc = "createCheck" /\ req'[r].op = "create" /\ req'[r].live
           /\ req'[r].upload = 0
<1> DEFINE q == [Idle EXCEPT !.pc = "createCheck", !.op = "create", !.key = k]
<1>1. /\ q.pc = "createCheck" /\ q.op = "create" /\ q.key = k /\ q.live /\ q.upload = 0
      /\ q.listed = {} /\ q.todo = {}
  BY DEF Idle
<1>2. q \in RequestState
  <2>1. Idle \in RequestState /\ "createCheck" \in Step
    BY IdleWellFormed DEF WellFormed, Step, CreateStep
  <2> QED
    BY <2>1 DEF RequestState
<1>3. Become(r, q)
  OBVIOUS
<1> HIDE DEF q
<1>4. WellFormed(q)
  BY <1>1, <1>2, StepsApart DEF WellFormed
<1> QED
  BY <1>1, <1>3, <1>4, Becoming

UploadAsked(u, p, body) ==
    [Idle EXCEPT !.pc = "partRow", !.op = "uploadPart", !.upload = u, !.part = p, !.body = body]

CompleteAsked(u, k, want) ==
    [Idle EXCEPT !.pc = "completeRow", !.op = "complete", !.upload = u, !.key = k, !.want = want]

LEMMA UploadBegins ==
    ASSUME RequestsTyped, NEW r \in Request, NEW u \in Upload, NEW p \in Part,
           NEW body \in Bodies[p], Become(r, UploadAsked(u, p, body))
    PROVE  /\ RequestsTyped' /\ Others(r)
           /\ req'[r].pc = "partRow" /\ req'[r].op = "uploadPart" /\ req'[r].live
           /\ req'[r].upload = u /\ req'[r].part = p /\ req'[r].body = body
<1> DEFINE q == UploadAsked(u, p, body)
<1>1. /\ q.pc = "partRow" /\ q.op = "uploadPart" /\ q.upload = u /\ q.part = p
      /\ q.body = body /\ q.live /\ q.listed = {} /\ q.todo = {}
  BY DEF Idle, UploadAsked
<1>2. q \in RequestState
  <2>1. Idle \in RequestState /\ "partRow" \in Step
    BY IdleWellFormed DEF WellFormed, Step, PartStep
  <2>2. body \in Seq(Block)
    BY PartAssumption
  <2> QED
    BY <2>1, <2>2 DEF RequestState, UploadAsked
<1>3. Become(r, q)
  OBVIOUS
<1>4. "partRow" \in PartStep
  BY DEF PartStep
<1> HIDE DEF q
<1>5. WellFormed(q)
  BY <1>1, <1>2, <1>4, StepsApart DEF WellFormed
<1> QED
  BY <1>1, <1>3, <1>5, Becoming

LEMMA CompleteBegins ==
    ASSUME RequestsTyped, NEW r \in Request, NEW u \in Upload, NEW k \in Key,
           NEW want \in SomeParts, Become(r, CompleteAsked(u, k, want))
    PROVE  /\ RequestsTyped' /\ Others(r)
           /\ req'[r].pc = "completeRow" /\ req'[r].op = "complete" /\ req'[r].live
           /\ req'[r].upload = u /\ req'[r].want = want
<1> DEFINE q == CompleteAsked(u, k, want)
<1>1. /\ q.pc = "completeRow" /\ q.op = "complete" /\ q.upload = u /\ q.key = k
      /\ q.want = want /\ q.live /\ q.listed = {} /\ q.todo = {}
      /\ q.stream = <<>> /\ q.total = 0
  BY DEF Idle, CompleteAsked
<1>2. q \in RequestState
  <2>1. Idle \in RequestState /\ "completeRow" \in Step
    BY IdleWellFormed DEF WellFormed, Step, CompleteStep
  <2> QED
    BY <2>1 DEF RequestState, CompleteAsked
<1>3. Become(r, q)
  OBVIOUS
<1>4. "completeRow" \in CompleteStep
  BY DEF CompleteStep
<1> HIDE DEF q
<1>5. WellFormed(q)
  BY <1>1, <1>2, <1>4, StepsApart DEF WellFormed
<1> QED
  BY <1>1, <1>3, <1>5, Becoming

LEMMA AbortBegins ==
    ASSUME RequestsTyped, NEW r \in Request, NEW u \in Upload,
           Become(r, [Idle EXCEPT !.pc = "abortRow", !.op = "abort", !.upload = u])
    PROVE  /\ RequestsTyped' /\ Others(r)
           /\ req'[r].pc = "abortRow" /\ req'[r].op = "abort" /\ req'[r].live
           /\ req'[r].upload = u
<1> DEFINE q == [Idle EXCEPT !.pc = "abortRow", !.op = "abort", !.upload = u]
<1>1. /\ q.pc = "abortRow" /\ q.op = "abort" /\ q.upload = u /\ q.live
      /\ q.listed = {} /\ q.todo = {}
  BY DEF Idle
<1>2. q \in RequestState
  <2>1. Idle \in RequestState /\ "abortRow" \in Step
    BY IdleWellFormed DEF WellFormed, Step, AbortStep
  <2> QED
    BY <2>1 DEF RequestState
<1>3. Become(r, q)
  OBVIOUS
<1>4. "abortRow" \in AbortStep
  BY DEF AbortStep
<1> HIDE DEF q
<1>5. WellFormed(q)
  BY <1>1, <1>2, <1>4, StepsApart DEF WellFormed
<1> QED
  BY <1>1, <1>3, <1>5, Becoming

LEMMA Finishing ==
    ASSUME RequestsTyped, NEW r \in Request, Become(r, Idle)
    PROVE  RequestsTyped' /\ Others(r) /\ req'[r].pc = "idle" /\ req'[r].live
<1>1. Idle.pc = "idle" /\ Idle.live
  BY DEF Idle
<1> QED
  BY <1>1, IdleWellFormed, Becoming

LEMMA Cancelling ==
    ASSUME RequestsTyped, NEW r \in Request, Become(r, [req[r] EXCEPT !.live = FALSE])
    PROVE  /\ RequestsTyped' /\ Others(r)
           /\ req'[r].pc = req[r].pc /\ SameWork(req[r], req'[r])
<1> DEFINE p == req[r]
           q == [p EXCEPT !.live = FALSE]
<1>1. p \in RequestState /\ WellFormed(p)
  BY DEF RequestsTyped
<1>2. q.pc = p.pc /\ SameWork(p, q) /\ q \in RequestState
  BY <1>1 DEF RequestState, SameWork, SameRequest
<1>3. Become(r, q)
  OBVIOUS
<1> HIDE DEF q
<1>4. WellFormed(q)
  <2> HIDE DEF p
  <2> QED
    BY <1>1, <1>2 DEF WellFormed, SameWork, SameRequest
<1> QED
  BY <1>2, <1>3, <1>4, Becoming

LEMMA DirGiven ==
    ASSUME RequestsTyped, NEW r \in Request, At(r, "makeDir"), NEW u \in Upload,
           Become(r, [req[r] EXCEPT !.pc = "insertUpload", !.upload = u])
    PROVE  /\ RequestsTyped' /\ Others(r)
           /\ req'[r].pc = "insertUpload" /\ req'[r].op = "create" /\ req'[r].upload = u
           /\ req'[r].live = req[r].live
<1> DEFINE p == req[r]
           q == [p EXCEPT !.pc = "insertUpload", !.upload = u]
<1>1. p \in RequestState /\ WellFormed(p) /\ p.pc = "makeDir"
  BY DEF RequestsTyped, At
<1>2. "insertUpload" \in Step /\ "insertUpload" \in CreateStep
  BY DEF Step, CreateStep
<1>3. /\ q.pc = "insertUpload" /\ q.upload = u /\ q.op = p.op /\ q.key = p.key
      /\ q.listed = p.listed /\ q.todo = p.todo /\ q.want = p.want /\ q.live = p.live
  BY <1>1 DEF RequestState
<1>4. q \in RequestState
  BY <1>1, <1>2 DEF RequestState
<1>5. Become(r, q)
  OBVIOUS
<1> HIDE DEF q
<1>6. WellFormed(q) /\ q.op = "create"
  <2> HIDE DEF p
  <2> QED
    BY <1>1, <1>2, <1>3, <1>4, StepsApart DEF WellFormed
<1> QED
  BY <1>3, <1>5, <1>6, Becoming

LEMMA RowsListed ==
    ASSUME RequestsTyped, NEW r \in Request, At(r, "listParts"), NEW L,
           L \subseteq DOMAIN req[r].want,
           Become(r, [req[r] EXCEPT !.pc = Opening(DOMAIN req[r].want),
                                    !.todo = DOMAIN req[r].want, !.listed = L])
    PROVE  /\ RequestsTyped' /\ Others(r) /\ SameRequest(req[r], req'[r])
           /\ req'[r].pc \in {"openPart", "store"}
           /\ req'[r].pc = "store" => req'[r].todo = {}
           /\ req'[r].todo = DOMAIN req[r].want
           /\ req'[r].stream = <<>> /\ req'[r].total = 0 /\ req'[r].live = req[r].live
<1> DEFINE p == req[r]
           want == p.want
           pc == Opening(DOMAIN want)
           q == [p EXCEPT !.pc = pc, !.todo = DOMAIN want, !.listed = L]
<1>1. p \in RequestState /\ WellFormed(p) /\ p.pc = "listParts"
  BY DEF RequestsTyped, At
<1>2. pc \in {"openPart", "store"} /\ (pc = "openPart" <=> DOMAIN want # {})
  BY DEF Opening
<1>3. want \in SomeParts /\ DOMAIN want \subseteq Part
  BY <1>1, PartsAre DEF RequestState
<1> HIDE DEF pc
<1>4. /\ q.pc = pc /\ q.todo = DOMAIN want /\ q.listed = L /\ SameRequest(p, q)
      /\ q.stream = p.stream /\ q.total = p.total /\ q.live = p.live
  BY <1>1 DEF RequestState, SameRequest
<1>5. q \in RequestState
  <2>1. pc \in Step
    BY <1>2, StepsApart DEF Step
  <2>2. L \subseteq Part
    BY <1>3
  <2> QED
    BY <1>1, <1>3, <2>1, <2>2 DEF RequestState
<1>6. Become(r, q)
  BY DEF pc
<1> HIDE DEF q
<1>7. WellFormed(q)
  <2>1. p.op = "complete" /\ p.key \in Key /\ p.upload \in Upload
    BY <1>1, StepsApart DEF WellFormed, Step
  <2> HIDE DEF p, want
  <2>2. q.op = "complete" /\ q.key \in Key /\ q.upload \in Upload /\ q.want = want
    BY <1>4, <2>1 DEF SameRequest, want
  <2>3. L \subseteq DOMAIN want
    BY DEF want, p
  <2> QED
    BY <1>2, <1>4, <1>5, <2>2, <2>3, StepsApart DEF WellFormed
<1>8. p.stream = <<>> /\ p.total = 0
  BY <1>1 DEF WellFormed
<1>9. pc = "store" => DOMAIN want = {}
  BY <1>2
<1> QED
  BY <1>2, <1>4, <1>6, <1>7, <1>8, <1>9, Becoming

LEMMA PartOpened ==
    ASSUME RequestsTyped, NEW r \in Request, At(r, "openPart"), NEW p \in req[r].listed,
           NEW body \in Seq(Block),
           Become(r, [req[r] EXCEPT !.pc = Opening(req[r].todo \ {p}),
                                    !.todo = req[r].todo \ {p},
                                    !.stream = @ \o body,
                                    !.total = @ + Len(req[r].want[p])])
    PROVE  /\ RequestsTyped' /\ Others(r) /\ SameRequest(req[r], req'[r])
           /\ req'[r].pc \in {"openPart", "store"}
           /\ req'[r].pc = "store" => req'[r].todo = {}
           /\ req'[r].todo = req[r].todo \ {p} /\ req'[r].stream = req[r].stream \o body
           /\ req'[r].total = req[r].total + Len(req[r].want[p])
           /\ req'[r].live = req[r].live
<1> DEFINE o == req[r]
           todo == o.todo \ {p}
           stream == o.stream \o body
           total == o.total + Len(o.want[p])
           pc == Opening(todo)
           q == [o EXCEPT !.pc = pc, !.todo = todo, !.stream = stream, !.total = total]
<1>1. o \in RequestState /\ WellFormed(o) /\ o.pc = "openPart"
  BY DEF RequestsTyped, At
<1>2. pc \in {"openPart", "store"} /\ (pc = "openPart" <=> todo # {})
  BY DEF Opening
<1>3. /\ o.want \in SomeParts /\ o.todo \subseteq DOMAIN o.want /\ o.todo \subseteq Part
      /\ p \in DOMAIN o.want
  BY <1>1, PartsAre DEF RequestState, WellFormed
<1>4. Len(o.want[p]) \in Nat
  <2>1. o.want[p] \in Bodies[p] /\ p \in Part
    BY <1>3, PartsAre
  <2>2. o.want[p] \in Seq(Block)
    BY <2>1, PartAssumption
  <2> QED
    BY <2>2
<1>5. stream \in Seq(Block) /\ total \in Nat
  BY <1>1, <1>4 DEF RequestState
<1>6. Become(r, q)
  BY DEF Become
<1> HIDE DEF pc, stream, total, todo
<1>7. /\ q.pc = pc /\ q.todo = todo /\ q.listed = o.listed /\ SameRequest(o, q)
      /\ q.stream = stream /\ q.total = total /\ q.live = o.live
  BY <1>1 DEF RequestState, SameRequest
<1>8. q \in RequestState
  <2>1. pc \in Step
    BY <1>2, StepsApart DEF Step
  <2>2. todo \subseteq Part
    BY <1>3 DEF todo
  <2> QED
    BY <1>1, <1>5, <2>1, <2>2 DEF RequestState
<1> HIDE DEF q
<1>9. WellFormed(q)
  <2>1. /\ o.op = "complete" /\ o.key \in Key /\ o.upload \in Upload
        /\ o.listed \subseteq DOMAIN o.want
    BY <1>1, StepsApart DEF WellFormed, Step
  <2>2. todo \subseteq DOMAIN o.want
    BY <1>3 DEF todo
  <2> HIDE DEF o
  <2>3. q.op = "complete" /\ q.key \in Key /\ q.upload \in Upload /\ q.want = o.want
    BY <1>7, <2>1 DEF SameRequest
  <2> QED
    BY <1>2, <1>7, <1>8, <2>1, <2>2, <2>3, StepsApart DEF WellFormed
<1>10. /\ RequestsTyped' /\ req'[r] = q /\ Others(r)
  BY <1>6, <1>9, Becoming
<1> QED
  BY <1>2, <1>7, <1>10 DEF todo, stream, total

LEMMA MessageGiven ==
    ASSUME RequestsTyped, NEW r \in Request, At(r, "store"), NEW m \in Message,
           Become(r, [req[r] EXCEPT !.pc = "commit", !.msg = m])
    PROVE  /\ RequestsTyped' /\ Others(r)
           /\ req'[r].pc = "commit" /\ req'[r].msg = m /\ req'[r].op = "complete"
           /\ req'[r].upload = req[r].upload /\ req'[r].want = req[r].want
           /\ req'[r].live = req[r].live
<1> DEFINE p == req[r]
           q == [p EXCEPT !.pc = "commit", !.msg = m]
<1>1. p \in RequestState /\ WellFormed(p) /\ p.pc = "store"
  BY DEF RequestsTyped, At
<1>2. "commit" \in Step /\ "store" \in Step
  BY StepsApart DEF Step
<1>3. /\ q.pc = "commit" /\ q.msg = m /\ q.upload = p.upload /\ q.op = p.op /\ q.key = p.key
      /\ q.listed = p.listed /\ q.todo = p.todo /\ q.want = p.want /\ q.live = p.live
  BY <1>1 DEF RequestState
<1>4. q \in RequestState
  BY <1>1, <1>2 DEF RequestState
<1>5. Become(r, q)
  OBVIOUS
<1> HIDE DEF q
<1>6. WellFormed(q) /\ q.op = "complete"
  <2> HIDE DEF p
  <2> QED
    BY <1>1, <1>2, <1>3, <1>4, StepsApart DEF WellFormed
<1> QED
  BY <1>3, <1>5, <1>6, Becoming

LEMMA CommitCut ==
    ASSUME RequestsTyped, NEW r \in Request, At(r, "commit"),
           Become(r, [req[r] EXCEPT !.pc = "rollback", !.live = FALSE])
    PROVE  /\ RequestsTyped' /\ Others(r)
           /\ req'[r].pc = "rollback" /\ SameWork(req[r], req'[r])
<1> DEFINE p == req[r]
           q == [p EXCEPT !.pc = "rollback", !.live = FALSE]
<1>1. p \in RequestState /\ WellFormed(p) /\ p.pc = "commit"
  BY DEF RequestsTyped, At
<1>2. "commit" \in Step /\ "rollback" \in Step
  BY StepsApart DEF Step
<1>3. q.pc = "rollback" /\ SameWork(p, q)
  BY <1>1 DEF RequestState, SameWork, SameRequest
<1>4. q \in RequestState
  BY <1>1, <1>2 DEF RequestState
<1>5. Become(r, q)
  OBVIOUS
<1> HIDE DEF q
<1>6. WellFormed(q)
  <2> HIDE DEF p
  <2> QED
    BY <1>1, <1>2, <1>3, <1>4, StepsApart DEF WellFormed, SameWork, SameRequest
<1> QED
  BY <1>3, <1>5, <1>6, Becoming

-----------------------------------------------------------------------------
(* What each action does *)

Replied(r, answers) ==
    /\ req'[r].pc = "replied" /\ req'[r].answer \in answers
    /\ SameRequest(req[r], req'[r]) /\ req'[r].live

Went(r, step) ==
    /\ req'[r].pc = step /\ SameWork(req[r], req'[r])
    /\ req'[r].live = req[r].live /\ req'[r].answer = req[r].answer

Failure == Answer \ {"ok"}

LEMMA StagingKept == StagingTyped /\ UNCHANGED staging => StagingTyped'
  BY DEF StagingTyped, staging, SomeParts, Upload

LEMMA StoredKept == StoredTyped /\ UNCHANGED stored => StoredTyped'
  BY DEF StoredTyped, stored

LEMMA HistoryKept == HistoryTyped /\ UNCHANGED <<status, acked>> => HistoryTyped'
  BY DEF HistoryTyped, SomeParts

LEMMA Kept ==
    ASSUME TypeInv, RequestsTyped'
    PROVE  /\ UNCHANGED <<staging, stored, status, acked>> => TypeInv'
           /\ StagingTyped' /\ UNCHANGED <<stored, status, acked>> => TypeInv'
           /\ StoredTyped' /\ UNCHANGED <<staging, status, acked>> => TypeInv'
           /\ StagingTyped' /\ HistoryTyped' /\ UNCHANGED stored => TypeInv'
  BY StagingKept, StoredKept, HistoryKept DEF TypeInv

LEMMA Inside ==
    ASSUME NEW r, NEW step \in Step, At(r, step)
    PROVE  InFlight(r)
  BY DEF At, InFlight

LEMMA Answers ==
    ASSUME RequestsTyped, NEW r \in Request, InFlight(r), NEW answer \in Answer,
           Reply(r, answer)
    PROVE  RequestsTyped' /\ Others(r) /\ Replied(r, {answer})
  BY Replying DEF Replied

LEMMA Goes ==
    ASSUME RequestsTyped, NEW r \in Request, NEW step, <<req[r].pc, step>> \in Order,
           step = "rollback" => req[r].msg \in Message,
           Goto(r, step)
    PROVE  RequestsTyped' /\ Others(r) /\ Went(r, step)
  BY Going DEF Went

LEMMA CreateCheckDoes ==
    ASSUME TypeInv, NEW r \in Request, CreateCheck(r)
    PROVE  /\ TypeInv' /\ Others(r) /\ UNCHANGED <<staging, stored, status, acked>>
           /\ Went(r, "makeDir") \/ Replied(r, Failure)
<1>1. UNCHANGED <<staging, stored, status, acked>> /\ RequestsTyped
  BY DEF CreateCheck, TypeInv
<1>2. InFlight(r) /\ <<req[r].pc, "makeDir">> \in Order
  BY Inside DEF CreateCheck, At, Step, CreateStep, Order
<1>3. CASE Goto(r, "makeDir")
  <2>1. RequestsTyped' /\ Others(r) /\ Went(r, "makeDir")
    BY <1>1, <1>2, <1>3, Goes
  <2> QED
    BY <1>1, <2>1, Kept
<1>4. ASSUME NEW a \in {"NoSuchBucket", "error"}, Reply(r, a)
      PROVE  TypeInv' /\ Others(r) /\ Replied(r, Failure)
  <2>1. a \in Answer /\ a \in Failure
    BY DEF Answer, Failure
  <2>2. RequestsTyped' /\ Others(r) /\ Replied(r, {a})
    BY <1>1, <1>2, <1>4, <2>1, Answers
  <2> QED
    BY <1>1, <2>1, <2>2, Kept DEF Replied
<1> QED
  BY <1>1, <1>3, <1>4 DEF CreateCheck

LEMMA MakeDirDoes ==
    ASSUME TypeInv, NEW r \in Request, MakeDir(r)
    PROVE  /\ TypeInv' /\ Others(r)
           /\ UNCHANGED <<uploads, parts, files, temps, stored, status, acked>>
           /\ \/ /\ nextUpload \in Upload /\ dirs' = dirs \cup {nextUpload}
                 /\ nextUpload' = nextUpload + 1
                 /\ req'[r].pc = "insertUpload" /\ req'[r].op = "create"
                 /\ req'[r].upload = nextUpload /\ req'[r].live = req[r].live
              \/ Replied(r, Failure) /\ UNCHANGED <<dirs, nextUpload>>
<1>1. /\ UNCHANGED <<uploads, parts, files, temps, stored, status, acked>>
      /\ RequestsTyped /\ StagingTyped
  BY DEF MakeDir, TypeInv
<1>2. InFlight(r) /\ At(r, "makeDir")
  BY Inside DEF MakeDir, At, Step, CreateStep
<1>3. CASE /\ nextUpload \in Upload /\ dirs' = dirs \cup {nextUpload}
           /\ nextUpload' = nextUpload + 1
           /\ Become(r, [req[r] EXCEPT !.pc = "insertUpload", !.upload = nextUpload])
  <2>1. /\ RequestsTyped' /\ Others(r)
        /\ req'[r].pc = "insertUpload" /\ req'[r].op = "create"
        /\ req'[r].upload = nextUpload /\ req'[r].live = req[r].live
    BY <1>1, <1>2, <1>3, DirGiven
  <2>2. nextUpload + 1 \in 1..(MaxUploads + 1)
    BY <1>3, BoundAssumption DEF Upload
  <2>3. dirs' \subseteq Upload
    BY <1>1, <1>3 DEF StagingTyped
  <2>4. StagingTyped'
    BY <1>1, <1>3, <2>2, <2>3 DEF StagingTyped, SomeParts
  <2> QED
    BY <1>1, <1>3, <2>1, <2>4, Kept
<1>4. CASE Reply(r, "error") /\ UNCHANGED <<dirs, nextUpload>>
  <2>1. "error" \in Answer /\ "error" \in Failure
    BY DEF Answer, Failure
  <2>2. RequestsTyped' /\ Others(r) /\ Replied(r, {"error"})
    BY <1>1, <1>2, <1>4, <2>1, Answers
  <2>3. UNCHANGED staging
    BY <1>1, <1>4 DEF staging
  <2> QED
    BY <1>1, <1>4, <2>1, <2>2, <2>3, Kept DEF Replied
<1> QED
  BY <1>3, <1>4, <1>1 DEF MakeDir

LEMMA InsertUploadDoes ==
    ASSUME TypeInv, NEW r \in Request, InsertUpload(r)
    PROVE  /\ TypeInv' /\ Others(r)
           /\ UNCHANGED <<parts, dirs, files, temps, nextUpload, stored, acked>>
           /\ \A v \in Upload : v # req[r].upload => uploads'[v] = uploads[v]
           /\ \/ Replied(r, {"ok"}) /\ status' = [status EXCEPT ![req[r].upload] = "open"]
              \/ Went(r, "dropDir") /\ UNCHANGED status
<1> DEFINE u == req[r].upload
<1>1. /\ UNCHANGED <<parts, dirs, files, temps, nextUpload, stored, acked>>
      /\ RequestsTyped /\ StagingTyped /\ HistoryTyped
      /\ \/ uploads' = [uploads EXCEPT ![u] = req[r].key]
         \/ uploads' = uploads
  BY DEF InsertUpload, TypeInv
<1>2. InFlight(r) /\ <<req[r].pc, "dropDir">> \in Order
  BY Inside DEF InsertUpload, At, Step, CreateStep, Order
<1>3. u \in Upload /\ req[r].key \in Key
  <2>1. WellFormed(req[r]) /\ req[r].pc = "insertUpload"
    BY <1>1 DEF InsertUpload, At, RequestsTyped
  <2> QED
    BY <2>1 DEF WellFormed, Step, CreateStep
<1>4. /\ uploads' \in [Upload -> Key \cup {None}]
      /\ \A v \in Upload : v # u => uploads'[v] = uploads[v]
  BY <1>1, <1>3 DEF StagingTyped
<1>5. StagingTyped'
  BY <1>1, <1>4 DEF StagingTyped, SomeParts
<1>6. CASE Reply(r, "ok") /\ status' = [status EXCEPT ![u] = "open"]
  <2>1. RequestsTyped' /\ Others(r) /\ Replied(r, {"ok"})
    <3>1. "ok" \in Answer
      BY DEF Answer
    <3> QED
      BY <1>1, <1>2, <1>6, <3>1, Answers
  <2>2. HistoryTyped'
    BY <1>1, <1>6 DEF HistoryTyped, SomeParts
  <2> QED
    BY <1>1, <1>4, <1>5, <1>6, <2>1, <2>2, Kept
<1>7. CASE Goto(r, "dropDir") /\ UNCHANGED status
  <2>1. RequestsTyped' /\ Others(r) /\ Went(r, "dropDir")
    BY <1>1, <1>2, <1>7, Goes
  <2> QED
    BY <1>1, <1>4, <1>5, <1>7, <2>1, Kept
<1> QED
  BY <1>6, <1>7 DEF InsertUpload

LEMMA DropDirDoes ==
    ASSUME TypeInv, NEW r \in Request, DropDir(r)
    PROVE  /\ TypeInv' /\ Others(r) /\ Replied(r, Failure)
           /\ UNCHANGED <<uploads, parts, files, temps, nextUpload, stored, status, acked>>
           /\ dirs' \subseteq dirs
<1>1. /\ UNCHANGED <<uploads, parts, files, temps, nextUpload, stored, status, acked>>
      /\ RequestsTyped /\ StagingTyped /\ dirs' \subseteq dirs /\ Reply(r, "error")
  BY DEF DropDir, TypeInv
<1>2. InFlight(r)
  BY Inside DEF DropDir, Step, CreateStep
<1>3. StagingTyped'
  BY <1>1 DEF StagingTyped, SomeParts
<1>4. "error" \in Answer /\ "error" \in Failure
  BY DEF Answer, Failure
<1>5. RequestsTyped' /\ Others(r) /\ Replied(r, {"error"})
  BY <1>1, <1>2, <1>4, Answers
<1> QED
  BY <1>1, <1>3, <1>4, <1>5, Kept DEF Replied

LEMMA PartRowDoes ==
    ASSUME TypeInv, NEW r \in Request, PartRow(r)
    PROVE  /\ TypeInv' /\ Others(r) /\ UNCHANGED <<staging, stored, status, acked>>
           /\ \/ Went(r, "createTemp") /\ uploads[req[r].upload] # None
              \/ Replied(r, Failure)
<1>1. UNCHANGED <<staging, stored, status, acked>> /\ RequestsTyped
  BY DEF PartRow, TypeInv
<1>2. InFlight(r) /\ <<req[r].pc, "createTemp">> \in Order
  BY Inside DEF PartRow, At, Step, PartStep, Order
<1>3. CASE Goto(r, "createTemp") /\ uploads[req[r].upload] # None
  <2>1. RequestsTyped' /\ Others(r) /\ Went(r, "createTemp")
    BY <1>1, <1>2, <1>3, Goes
  <2> QED
    BY <1>1, <1>3, <2>1, Kept
<1>4. ASSUME NEW a \in {"NoSuchUpload", "EntityTooLarge", "error"}, Reply(r, a)
      PROVE  TypeInv' /\ Others(r) /\ Replied(r, Failure)
  <2>1. a \in Answer /\ a \in Failure
    BY DEF Answer, Failure
  <2>2. RequestsTyped' /\ Others(r) /\ Replied(r, {a})
    BY <1>1, <1>2, <1>4, <2>1, Answers
  <2> QED
    BY <1>1, <2>1, <2>2, Kept DEF Replied
<1> QED
  BY <1>1, <1>3, <1>4 DEF PartRow

\* Who uploads what to where.
LEMMA PartHeld ==
    ASSUME RequestsTyped, NEW r \in Request, req[r].pc \in PartStep
    PROVE  /\ req[r].upload \in Upload /\ req[r].part \in Part
           /\ req[r].body \in Bodies[req[r].part]
<1>1. WellFormed(req[r]) /\ req[r].pc \in Step \ {"createCheck", "makeDir"}
  BY StepsApart DEF RequestsTyped, Step
<1> QED
  BY <1>1 DEF WellFormed

LEMMA CreateTempDoes ==
    ASSUME TypeInv, NEW r \in Request, CreateTemp(r)
    PROVE  /\ TypeInv' /\ Others(r)
           /\ UNCHANGED <<uploads, parts, dirs, files, nextUpload, stored, status, acked>>
           /\ \A v \in Upload : v # req[r].upload => temps'[v] = temps[v]
           /\ Went(r, "receive") \/ Replied(r, Failure)
<1> DEFINE u == req[r].upload
<1>1. /\ UNCHANGED <<uploads, parts, dirs, files, nextUpload, stored, status, acked>>
      /\ RequestsTyped /\ StagingTyped
      /\ \/ temps' = [temps EXCEPT ![u] = @ \cup {r}] /\ Goto(r, "receive")
         \/ temps' = temps /\ Reply(r, "error")
  BY DEF CreateTemp, TypeInv
<1>2. InFlight(r) /\ <<req[r].pc, "receive">> \in Order /\ req[r].pc \in PartStep
  BY Inside DEF CreateTemp, At, Step, PartStep, Order
<1>3. /\ temps' \in [Upload -> SUBSET (Request \cup {None})]
      /\ \A v \in Upload : v # u => temps'[v] = temps[v]
  <2>1. u \in Upload
    BY <1>1, <1>2, PartHeld
  <2> QED
    BY <1>1, <2>1 DEF StagingTyped
<1>4. StagingTyped'
  BY <1>1, <1>3 DEF StagingTyped, SomeParts
<1>5. CASE Goto(r, "receive")
  <2>1. RequestsTyped' /\ Others(r) /\ Went(r, "receive")
    BY <1>1, <1>2, <1>5, Goes
  <2> QED
    BY <1>1, <1>3, <1>4, <2>1, Kept
<1>6. CASE Reply(r, "error")
  <2>1. "error" \in Answer /\ "error" \in Failure
    BY DEF Answer, Failure
  <2>2. RequestsTyped' /\ Others(r) /\ Replied(r, {"error"})
    BY <1>1, <1>2, <1>6, <2>1, Answers
  <2> QED
    BY <1>1, <1>3, <1>4, <2>1, <2>2, Kept DEF Replied
<1> QED
  BY <1>1, <1>5, <1>6

LEMMA ReceiveDoes ==
    ASSUME TypeInv, NEW r \in Request, Receive(r)
    PROVE  /\ TypeInv' /\ Others(r)
           /\ UNCHANGED <<uploads, parts, dirs, files, nextUpload, stored, status, acked>>
           /\ \A v \in Upload : v # req[r].upload => temps'[v] = temps[v]
           /\ Went(r, "rename") \/ Replied(r, Failure)
<1> DEFINE u == req[r].upload
<1>1. /\ UNCHANGED <<uploads, parts, dirs, files, nextUpload, stored, status, acked>>
      /\ RequestsTyped /\ StagingTyped
      /\ \/ temps' = temps /\ Goto(r, "rename")
         \/ temps' = [temps EXCEPT ![u] = @ \ {r}]
            /\ \E a \in {"InvalidArgument", "error"} : Reply(r, a)
  BY DEF Receive, DropTemp, TypeInv
<1>2. InFlight(r) /\ <<req[r].pc, "rename">> \in Order /\ req[r].pc \in PartStep
  BY Inside DEF Receive, At, Step, PartStep, Order
<1>3. /\ temps' \in [Upload -> SUBSET (Request \cup {None})]
      /\ \A v \in Upload : v # u => temps'[v] = temps[v]
  <2>1. u \in Upload
    BY <1>1, <1>2, PartHeld
  <2> QED
    BY <1>1, <2>1 DEF StagingTyped
<1>4. StagingTyped'
  BY <1>1, <1>3 DEF StagingTyped, SomeParts
<1>5. CASE Goto(r, "rename")
  <2>1. RequestsTyped' /\ Others(r) /\ Went(r, "rename")
    BY <1>1, <1>2, <1>5, Goes
  <2> QED
    BY <1>1, <1>3, <1>4, <2>1, Kept
<1>6. ASSUME NEW a \in {"InvalidArgument", "error"}, Reply(r, a)
      PROVE  TypeInv' /\ Others(r) /\ Replied(r, Failure)
  <2>1. a \in Answer /\ a \in Failure
    BY DEF Answer, Failure
  <2>2. RequestsTyped' /\ Others(r) /\ Replied(r, {a})
    BY <1>1, <1>2, <1>6, <2>1, Answers
  <2> QED
    BY <1>1, <1>4, <2>1, <2>2, Kept DEF Replied
<1> QED
  BY <1>1, <1>3, <1>5, <1>6

\* A file or a row of the part, of nothing else, becomes the body.
PartSet(r, f, g) ==
    LET u == req[r].upload
        p == req[r].part
    IN  /\ \A v \in Upload : v # u => g[v] = f[v]
        /\ DOMAIN g[u] = DOMAIN f[u] \cup {p} /\ g[u][p] = req[r].body
        /\ \A q \in DOMAIN f[u] \ {p} : g[u][q] = f[u][q]

LEMMA PartWrites ==
    ASSUME RequestsTyped, NEW r \in Request, req[r].pc \in PartStep,
           NEW f \in [Upload -> SomeParts], NEW g,
           g = [f EXCEPT ![req[r].upload] = WithPart(@, req[r].part, req[r].body)]
    PROVE  g \in [Upload -> SomeParts] /\ PartSet(r, f, g)
<1> DEFINE u == req[r].upload
           p == req[r].part
           b == req[r].body
           w == WithPart(f[u], p, b)
<1>1. u \in Upload /\ p \in Part /\ b \in Bodies[p] /\ f[u] \in SomeParts
  BY PartHeld
<1>2. /\ w \in SomeParts /\ DOMAIN w = DOMAIN f[u] \cup {p} /\ w[p] = b
      /\ \A q \in DOMAIN f[u] \ {p} : w[q] = f[u][q]
  <2> HIDE DEF u, p, b
  <2> QED
    BY <1>1, PartWritten
<1>3. g = [f EXCEPT ![u] = w]
  OBVIOUS
<1> HIDE DEF w
<1>4. g \in [Upload -> SomeParts] /\ g[u] = w /\ \A v \in Upload : v # u => g[v] = f[v]
  BY <1>1, <1>2, <1>3
<1> QED
  BY <1>2, <1>4 DEF PartSet

LEMMA RenameDoes ==
    ASSUME TypeInv, NEW r \in Request, Rename(r)
    PROVE  /\ TypeInv' /\ Others(r)
           /\ UNCHANGED <<uploads, parts, dirs, nextUpload, stored, status, acked>>
           /\ \A v \in Upload : v # req[r].upload => temps'[v] = temps[v]
           /\ \/ Went(r, "upsert") /\ PartSet(r, files, files')
              \/ Replied(r, Failure) /\ UNCHANGED files
<1> DEFINE u == req[r].upload
<1>1. /\ UNCHANGED <<uploads, parts, dirs, nextUpload, stored, status, acked>>
      /\ RequestsTyped /\ StagingTyped
      /\ temps' = [temps EXCEPT ![u] = @ \ {r}]
      /\ \/ Goto(r, "upsert")
            /\ files' = [files EXCEPT ![u] = WithPart(@, req[r].part, req[r].body)]
         \/ Reply(r, "error") /\ UNCHANGED files
  BY DEF Rename, DropTemp, TypeInv
<1>2. InFlight(r) /\ <<req[r].pc, "upsert">> \in Order /\ req[r].pc \in PartStep
  BY Inside DEF Rename, At, Step, PartStep, Order
<1>3. /\ temps' \in [Upload -> SUBSET (Request \cup {None})]
      /\ \A v \in Upload : v # u => temps'[v] = temps[v]
  <2>1. u \in Upload
    BY <1>1, <1>2, PartHeld
  <2> QED
    BY <1>1, <2>1 DEF StagingTyped
<1>4. files \in [Upload -> SomeParts]
  BY <1>1 DEF StagingTyped
<1>5. ASSUME files' \in [Upload -> SomeParts] PROVE StagingTyped'
  <2>1. /\ uploads' = uploads /\ parts' = parts /\ dirs' = dirs /\ nextUpload' = nextUpload
    BY <1>1
  <2>2. parts' \in [Upload -> SomeParts]
    BY <1>1, <2>1 DEF StagingTyped
  <2> QED
    BY <1>1, <1>3, <1>5, <2>1, <2>2 DEF StagingTyped, SomeParts
<1>6. CASE /\ Goto(r, "upsert")
           /\ files' = [files EXCEPT ![u] = WithPart(@, req[r].part, req[r].body)]
  <2>1. RequestsTyped' /\ Others(r) /\ Went(r, "upsert")
    BY <1>1, <1>2, <1>6, Goes
  <2>2. files' \in [Upload -> SomeParts] /\ PartSet(r, files, files')
    BY <1>1, <1>2, <1>4, <1>6, PartWrites
  <2> QED
    BY <1>1, <1>3, <1>5, <2>1, <2>2, Kept
<1>7. CASE Reply(r, "error") /\ UNCHANGED files
  <2>1. "error" \in Answer /\ "error" \in Failure
    BY DEF Answer, Failure
  <2>2. RequestsTyped' /\ Others(r) /\ Replied(r, {"error"})
    BY <1>1, <1>2, <1>7, <2>1, Answers
  <2>3. files' \in [Upload -> SomeParts]
    BY <1>4, <1>7
  <2> QED
    BY <1>1, <1>3, <1>5, <1>7, <2>1, <2>2, <2>3, Kept DEF Replied
<1> QED
  BY <1>1, <1>6, <1>7

LEMMA UpsertDoes ==
    ASSUME TypeInv, NEW r \in Request, Upsert(r)
    PROVE  /\ TypeInv' /\ Others(r)
           /\ UNCHANGED <<uploads, dirs, files, temps, nextUpload, stored, status>>
           /\ \A v \in Upload : v # req[r].upload => parts'[v] = parts[v]
           /\ \/ Replied(r, {"ok"}) /\ PartSet(r, acked, acked')
              \/ Replied(r, Failure) /\ UNCHANGED acked
<1> DEFINE u == req[r].upload
<1>1. /\ UNCHANGED <<uploads, dirs, files, temps, nextUpload, stored, status>>
      /\ RequestsTyped /\ StagingTyped /\ HistoryTyped
      /\ \/ parts' = [parts EXCEPT ![u] = WithPart(@, req[r].part, req[r].body)]
         \/ parts' = parts
      /\ \/ Reply(r, "ok")
            /\ acked' = [acked EXCEPT ![u] = WithPart(@, req[r].part, req[r].body)]
         \/ Reply(r, "error") /\ UNCHANGED acked
  BY DEF Upsert, TypeInv
<1>2. InFlight(r) /\ req[r].pc \in PartStep
  BY Inside DEF Upsert, At, Step, PartStep
<1>3. parts \in [Upload -> SomeParts] /\ acked \in [Upload -> SomeParts]
  BY <1>1 DEF StagingTyped, HistoryTyped
<1>4. /\ parts' \in [Upload -> SomeParts]
      /\ \A v \in Upload : v # u => parts'[v] = parts[v]
  <2>1. CASE parts' = [parts EXCEPT ![u] = WithPart(@, req[r].part, req[r].body)]
    BY <1>1, <1>2, <1>3, <2>1, PartWrites DEF PartSet
  <2>2. CASE parts' = parts
    BY <1>3, <2>2
  <2> QED
    BY <1>1, <2>1, <2>2
<1>5. StagingTyped'
  <2>1. files' = files /\ files \in [Upload -> SomeParts]
    BY <1>1 DEF StagingTyped
  <2>2. files' \in [Upload -> SomeParts]
    BY <2>1
  <2> QED
    BY <1>1, <1>4, <2>2 DEF StagingTyped, SomeParts
<1>6. ASSUME acked' \in [Upload -> SomeParts] PROVE HistoryTyped'
  BY <1>1, <1>6 DEF HistoryTyped, SomeParts
<1>7. CASE /\ Reply(r, "ok")
           /\ acked' = [acked EXCEPT ![u] = WithPart(@, req[r].part, req[r].body)]
  <2>1. "ok" \in Answer
    BY DEF Answer
  <2>2. RequestsTyped' /\ Others(r) /\ Replied(r, {"ok"})
    BY <1>1, <1>2, <1>7, <2>1, Answers
  <2>3. acked' \in [Upload -> SomeParts] /\ PartSet(r, acked, acked')
    BY <1>1, <1>2, <1>3, <1>7, PartWrites
  <2> QED
    BY <1>1, <1>4, <1>5, <1>6, <2>2, <2>3, Kept
<1>8. CASE Reply(r, "error") /\ UNCHANGED acked
  <2>1. "error" \in Answer /\ "error" \in Failure
    BY DEF Answer, Failure
  <2>2. RequestsTyped' /\ Others(r) /\ Replied(r, {"error"})
    BY <1>1, <1>2, <1>8, <2>1, Answers
  <2>3. acked' \in [Upload -> SomeParts]
    BY <1>3, <1>8
  <2> QED
    BY <1>1, <1>4, <1>5, <1>6, <1>8, <2>1, <2>2, <2>3, Kept DEF Replied
<1> QED
  BY <1>1, <1>7, <1>8

LEMMA CompleteHeld ==
    ASSUME RequestsTyped, NEW r \in Request, req[r].pc \in CompleteStep
    PROVE  /\ req[r].upload \in Upload /\ req[r].key \in Key /\ req[r].op = "complete"
           /\ req[r].want \in SomeParts /\ req[r].todo \subseteq DOMAIN req[r].want
           /\ req[r].stream \in Seq(Block) /\ req[r].total \in Nat
<1>1. WellFormed(req[r]) /\ req[r].pc \in Step \ {"createCheck", "makeDir"}
  BY StepsApart DEF RequestsTyped, Step
<1> QED
  BY <1>1 DEF WellFormed, RequestState

LEMMA CompleteRowDoes ==
    ASSUME TypeInv, NEW r \in Request, CompleteRow(r)
    PROVE  /\ TypeInv' /\ Others(r) /\ UNCHANGED <<staging, stored, status, acked>>
           /\ \/ Went(r, "listParts") /\ uploads[req[r].upload] = req[r].key
              \/ Replied(r, Failure)
<1>1. UNCHANGED <<staging, stored, status, acked>> /\ RequestsTyped
  BY DEF CompleteRow, TypeInv
<1>2. InFlight(r) /\ <<req[r].pc, "listParts">> \in Order
  BY Inside DEF CompleteRow, At, Step, CompleteStep, Order
<1>3. CASE Goto(r, "listParts") /\ uploads[req[r].upload] = req[r].key
  <2>1. RequestsTyped' /\ Others(r) /\ Went(r, "listParts")
    BY <1>1, <1>2, <1>3, Goes
  <2> QED
    BY <1>1, <1>3, <2>1, Kept
<1>4. ASSUME NEW a \in {"NoSuchUpload", "error"}, Reply(r, a)
      PROVE  TypeInv' /\ Others(r) /\ Replied(r, Failure)
  <2>1. a \in Answer /\ a \in Failure
    BY DEF Answer, Failure
  <2>2. RequestsTyped' /\ Others(r) /\ Replied(r, {a})
    BY <1>1, <1>2, <1>4, <2>1, Answers
  <2> QED
    BY <1>1, <2>1, <2>2, Kept DEF Replied
<1> QED
  BY <1>1, <1>3, <1>4 DEF CompleteRow

LEMMA ListPartsDoes ==
    ASSUME TypeInv, NEW r \in Request, ListParts(r)
    PROVE  /\ TypeInv' /\ Others(r) /\ UNCHANGED <<staging, stored, status, acked>>
           /\ \/ /\ SameRequest(req[r], req'[r]) /\ req'[r].live = req[r].live
                 /\ req'[r].pc \in {"openPart", "store"}
                 /\ req'[r].pc = "store" => req'[r].todo = {}
                 /\ req'[r].todo = DOMAIN req[r].want
                 /\ req'[r].stream = <<>> /\ req'[r].total = 0
              \/ Replied(r, Failure)
<1>1. UNCHANGED <<staging, stored, status, acked>> /\ RequestsTyped
  BY DEF ListParts, TypeInv
<1>2. InFlight(r) /\ At(r, "listParts")
  BY Inside DEF ListParts, At, Step, CompleteStep
<1> DEFINE want == req[r].want
           rows == parts[req[r].upload]
           L == {p \in DOMAIN want \cap DOMAIN rows : rows[p] = want[p]}
<1>3. CASE Become(r, [req[r] EXCEPT !.pc = Opening(DOMAIN want), !.todo = DOMAIN want,
                                    !.listed = L])
  <2>1. L \subseteq DOMAIN want
    OBVIOUS
  <2> HIDE DEF L
  <2>2. RequestsTyped' /\ Others(r)
    BY <1>1, <1>2, <1>3, <2>1, RowsListed
  <2>3. /\ SameRequest(req[r], req'[r]) /\ req'[r].live = req[r].live
        /\ req'[r].pc \in {"openPart", "store"}
        /\ req'[r].pc = "store" => req'[r].todo = {}
        /\ req'[r].todo = DOMAIN req[r].want
        /\ req'[r].stream = <<>> /\ req'[r].total = 0
    BY <1>1, <1>2, <1>3, <2>1, RowsListed
  <2> QED
    BY <1>1, <2>2, <2>3, Kept
<1>4. CASE Reply(r, "error")
  <2>1. "error" \in Answer /\ "error" \in Failure
    BY DEF Answer, Failure
  <2>2. RequestsTyped' /\ Others(r) /\ Replied(r, {"error"})
    BY <1>1, <1>2, <1>4, <2>1, Answers
  <2> QED
    BY <1>1, <2>1, <2>2, Kept DEF Replied
<1> QED
  BY <1>3, <1>4 DEF ListParts

LEMMA OpenPartDoes ==
    ASSUME TypeInv, NEW r \in Request, OpenPart(r)
    PROVE  /\ TypeInv' /\ Others(r) /\ UNCHANGED <<staging, stored, status, acked>>
           /\ \/ /\ SameRequest(req[r], req'[r]) /\ req'[r].live = req[r].live
                 /\ req'[r].pc \in {"openPart", "store"}
                 /\ req'[r].pc = "store" => req'[r].todo = {}
                 /\ \E p \in req[r].todo \cap DOMAIN files[req[r].upload] :
                       /\ \A o \in req[r].todo : p <= o
                       /\ req'[r].todo = req[r].todo \ {p}
                       /\ req'[r].stream = req[r].stream \o files[req[r].upload][p]
                       /\ req'[r].total = req[r].total + Len(req[r].want[p])
              \/ Replied(r, Failure)
<1> DEFINE u == req[r].upload
           p == CHOOSE q \in req[r].todo : \A o \in req[r].todo : q <= o
<1>1. UNCHANGED <<staging, stored, status, acked>> /\ RequestsTyped /\ StagingTyped
  BY DEF OpenPart, TypeInv
<1>2. InFlight(r) /\ At(r, "openPart") /\ req[r].pc = "openPart"
  BY Inside DEF OpenPart, At, Step, CompleteStep
<1>3. p \in req[r].todo /\ \A o \in req[r].todo : p <= o
  <2>1. WellFormed(req[r]) /\ req[r] \in RequestState
    BY <1>1 DEF RequestsTyped
  <2>2. req[r].todo \subseteq Part /\ req[r].todo # {}
    BY <1>2, <2>1 DEF WellFormed, RequestState
  <2> QED
    BY <2>2, NextPart
<1>4. \/ Reply(r, "InvalidPart") \/ Reply(r, "error")
      \/ /\ p \in req[r].listed /\ p \in DOMAIN files[u]
         /\ Become(r, [req[r] EXCEPT !.pc = Opening(req[r].todo \ {p}),
                                     !.todo = req[r].todo \ {p},
                                     !.stream = @ \o files[u][p],
                                     !.total = @ + Len(req[r].want[p])])
  BY DEF OpenPart
<1> HIDE DEF p
<1>5. CASE /\ p \in req[r].listed /\ p \in DOMAIN files[u]
           /\ Become(r, [req[r] EXCEPT !.pc = Opening(req[r].todo \ {p}),
                                       !.todo = req[r].todo \ {p},
                                       !.stream = @ \o files[u][p],
                                       !.total = @ + Len(req[r].want[p])])
  <2> DEFINE body == files[u][p]
  <2>1. body \in Seq(Block)
    <3>1. u \in Upload
      BY <1>1, <1>2, StepsApart, CompleteHeld
    <3>2. files[u] \in SomeParts
      BY <1>1, <3>1 DEF StagingTyped
    <3>3. files[u][p] \in Bodies[p] /\ p \in Part
      BY <1>5, <3>2, PartsAre
    <3> QED
      BY <3>3, PartAssumption
  <2>2. Become(r, [req[r] EXCEPT !.pc = Opening(req[r].todo \ {p}),
                                 !.todo = req[r].todo \ {p},
                                 !.stream = @ \o body,
                                 !.total = @ + Len(req[r].want[p])])
    BY <1>5
  <2> HIDE DEF body
  <2>3. /\ RequestsTyped' /\ Others(r) /\ SameRequest(req[r], req'[r])
        /\ req'[r].pc \in {"openPart", "store"}
        /\ req'[r].pc = "store" => req'[r].todo = {}
        /\ req'[r].todo = req[r].todo \ {p} /\ req'[r].stream = req[r].stream \o body
        /\ req'[r].total = req[r].total + Len(req[r].want[p])
        /\ req'[r].live = req[r].live
    BY <1>1, <1>2, <1>5, <2>1, <2>2, PartOpened
  <2> QED
    BY <1>1, <1>3, <1>5, <2>3, Kept DEF body
<1>6. ASSUME NEW a \in {"InvalidPart", "error"}, Reply(r, a)
      PROVE  TypeInv' /\ Others(r) /\ Replied(r, Failure)
  <2>1. a \in Answer /\ a \in Failure
    BY DEF Answer, Failure
  <2>2. RequestsTyped' /\ Others(r) /\ Replied(r, {a})
    BY <1>1, <1>2, <1>6, <2>1, Answers
  <2> QED
    BY <1>1, <2>1, <2>2, Kept DEF Replied
<1> QED
  BY <1>1, <1>4, <1>5, <1>6

LEMMA StoreDoes ==
    ASSUME TypeInv, NEW r \in Request, Store(r)
    PROVE  /\ TypeInv' /\ Others(r) /\ UNCHANGED <<staging, objects, status, acked>>
           /\ \/ /\ nextMessage \in Message /\ nextMessage' = nextMessage + 1
                 /\ req[r].total <= Len(req[r].stream)
                 /\ content' = [content EXCEPT ![nextMessage] =
                                    SubSeq(req[r].stream, 1, req[r].total)]
                 /\ \/ /\ req'[r].pc = "commit" /\ req'[r].msg = nextMessage
                       /\ req'[r].op = "complete" /\ req'[r].upload = req[r].upload
                       /\ req'[r].want = req[r].want /\ req'[r].live = req[r].live
                    \/ Replied(r, Failure)
              \/ Replied(r, Failure) /\ UNCHANGED <<content, nextMessage>>
<1> DEFINE bytes == SubSeq(req[r].stream, 1, req[r].total)
           fails == \E a \in {"error", "NoSuchBucket", "EntityTooLarge"} : Reply(r, a)
           goes == Become(r, [req[r] EXCEPT !.pc = "commit", !.msg = nextMessage])
           sends == /\ nextMessage \in Message /\ Len(req[r].stream) >= req[r].total
                    /\ channel' = channel \cup {nextMessage}
                    /\ content' = [content EXCEPT ![nextMessage] = bytes]
                    /\ nextMessage' = nextMessage + 1
<1>1. /\ UNCHANGED <<staging, objects, status, acked>>
      /\ RequestsTyped /\ StoredTyped
      /\ \/ sends /\ (goes \/ fails)
         \/ fails /\ UNCHANGED <<channel, content, nextMessage>>
  BY DEF Store, TypeInv
<1>2. InFlight(r) /\ At(r, "store") /\ req[r].pc \in CompleteStep
  BY Inside DEF Store, At, Step, CompleteStep
<1>3. ASSUME sends PROVE StoredTyped' /\ req[r].total <= Len(req[r].stream)
  <2>1. req[r].stream \in Seq(Block) /\ req[r].total \in Nat
    BY <1>1, <1>2, CompleteHeld
  <2>2. req[r].total <= Len(req[r].stream)
    BY <1>3, <2>1
  <2>3. bytes \in Seq(Block)
    BY <2>1, <2>2
  <2>4. nextMessage + 1 \in 1..(MaxMessages + 1)
    BY <1>3, BoundAssumption DEF Message
  <2> HIDE DEF bytes
  <2>5. content' \in [Message -> Seq(Block)] /\ channel' \subseteq Message
    BY <1>1, <1>3, <2>3 DEF StoredTyped
  <2> QED
    BY <1>1, <1>3, <2>2, <2>4, <2>5 DEF StoredTyped
<1>4. ASSUME fails PROVE RequestsTyped' /\ Others(r) /\ Replied(r, Failure)
  <2>1. PICK a \in {"error", "NoSuchBucket", "EntityTooLarge"} : Reply(r, a)
    BY <1>4
  <2>2. a \in Answer /\ a \in Failure
    BY DEF Answer, Failure
  <2>3. RequestsTyped' /\ Others(r) /\ Replied(r, {a})
    BY <1>1, <1>2, <2>1, <2>2, Answers
  <2> QED
    BY <2>2, <2>3 DEF Replied
<1>5. ASSUME goes, nextMessage \in Message
      PROVE  /\ RequestsTyped' /\ Others(r)
             /\ req'[r].pc = "commit" /\ req'[r].msg = nextMessage
             /\ req'[r].op = "complete" /\ req'[r].upload = req[r].upload
             /\ req'[r].want = req[r].want /\ req'[r].live = req[r].live
  BY <1>1, <1>2, <1>5, MessageGiven
<1> HIDE DEF goes, fails
<1>6. ASSUME StoredTyped', RequestsTyped' PROVE TypeInv'
  BY <1>1, <1>6, Kept
<1>7. CASE sends /\ goes
  BY <1>1, <1>3, <1>5, <1>6, <1>7
<1>8. CASE sends /\ fails
  BY <1>1, <1>3, <1>4, <1>6, <1>8
<1>9. CASE fails /\ UNCHANGED <<channel, content, nextMessage>>
  <2>1. StoredTyped'
    BY <1>1, <1>9 DEF StoredTyped
  <2> QED
    BY <1>1, <1>4, <1>6, <1>9, <2>1
<1> QED
  BY <1>1, <1>7, <1>8, <1>9

LEMMA MessageHeld ==
    ASSUME RequestsTyped, NEW r \in Request, req[r].pc \in {"commit", "rollback"}
    PROVE  req[r].msg \in Message /\ req[r].key \in Key /\ req[r].pc \in CompleteStep
<1>1. WellFormed(req[r]) /\ req[r].pc \in CompleteStep
  BY StepsApart DEF RequestsTyped
<1> QED
  BY <1>1 DEF WellFormed

LEMMA CommitDoes ==
    ASSUME TypeInv, NEW r \in Request, Commit(r)
    PROVE  /\ TypeInv' /\ Others(r)
           /\ UNCHANGED <<staging, channel, content, nextMessage, status, acked>>
           /\ \/ objects' = [objects EXCEPT ![req[r].key] = req[r].msg]
              \/ objects' = objects
           /\ \/ Went(r, "removeFiles") \/ Went(r, "rollback")
              \/ "cancel" \in Faults /\ req'[r].pc = "rollback" /\ SameWork(req[r], req'[r])
<1>1. /\ UNCHANGED <<staging, channel, content, nextMessage, status, acked>>
      /\ RequestsTyped /\ StoredTyped
      /\ \/ objects' = [objects EXCEPT ![req[r].key] = req[r].msg]
         \/ objects' = objects
      /\ \/ Goto(r, "removeFiles") \/ Goto(r, "rollback")
         \/ "cancel" \in Faults
            /\ Become(r, [req[r] EXCEPT !.pc = "rollback", !.live = FALSE])
  BY DEF Commit, TypeInv
<1>2. /\ At(r, "commit") /\ req[r].pc \in {"commit", "rollback"}
      /\ \A step \in {"removeFiles", "rollback"} : <<req[r].pc, step>> \in Order
  BY DEF Commit, At, Order
<1>3. req[r].msg \in Message /\ req[r].key \in Key
  BY <1>1, <1>2, MessageHeld
<1>4. StoredTyped'
  <2>1. objects' \in [Key -> Message \cup {NoMessage}]
    BY <1>1, <1>3 DEF StoredTyped
  <2> QED
    BY <1>1, <2>1 DEF StoredTyped
<1>5. ASSUME RequestsTyped' PROVE TypeInv'
  BY <1>1, <1>4, <1>5, Kept
<1>6. ASSUME NEW step \in {"removeFiles", "rollback"}, Goto(r, step)
      PROVE  RequestsTyped' /\ Others(r) /\ Went(r, step)
  BY <1>1, <1>2, <1>3, <1>6, Goes
<1>7. ASSUME Become(r, [req[r] EXCEPT !.pc = "rollback", !.live = FALSE])
      PROVE  RequestsTyped' /\ Others(r) /\ req'[r].pc = "rollback" /\ SameWork(req[r], req'[r])
  BY <1>1, <1>2, <1>7, CommitCut
<1> QED
  BY <1>1, <1>5, <1>6, <1>7

LEMMA RollbackDoes ==
    ASSUME TypeInv, NEW r \in Request, Rollback(r)
    PROVE  /\ TypeInv' /\ Others(r) /\ Replied(r, Failure)
           /\ UNCHANGED <<staging, objects, content, nextMessage, status, acked>>
<1>1. /\ UNCHANGED <<staging, objects, content, nextMessage, status, acked>>
      /\ RequestsTyped /\ StoredTyped /\ Reply(r, "error") /\ channel' \subseteq channel
  BY DEF Rollback, TypeInv
<1>2. InFlight(r)
  BY Inside DEF Rollback, Step, CompleteStep
<1>3. "error" \in Answer /\ "error" \in Failure
  BY DEF Answer, Failure
<1>4. RequestsTyped' /\ Others(r) /\ Replied(r, {"error"})
  BY <1>1, <1>2, <1>3, Answers
<1>5. StoredTyped'
  BY <1>1 DEF StoredTyped
<1> QED
  BY <1>1, <1>3, <1>4, <1>5, Kept DEF Replied

LEMMA AbortRowDoes ==
    ASSUME TypeInv, NEW r \in Request, AbortRow(r)
    PROVE  /\ TypeInv' /\ Others(r) /\ UNCHANGED <<staging, stored, status, acked>>
           /\ \/ Went(r, "removeFiles") /\ uploads[req[r].upload] # None
              \/ Replied(r, Failure)
<1>1. UNCHANGED <<staging, stored, status, acked>> /\ RequestsTyped
  BY DEF AbortRow, TypeInv
<1>2. InFlight(r) /\ <<req[r].pc, "removeFiles">> \in Order
  BY Inside DEF AbortRow, At, Step, AbortStep, Order
<1>3. CASE Goto(r, "removeFiles") /\ uploads[req[r].upload] # None
  <2>1. RequestsTyped' /\ Others(r) /\ Went(r, "removeFiles")
    BY <1>1, <1>2, <1>3, Goes
  <2> QED
    BY <1>1, <1>3, <2>1, Kept
<1>4. ASSUME NEW a \in {"NoSuchUpload", "error"}, Reply(r, a)
      PROVE  TypeInv' /\ Others(r) /\ Replied(r, Failure)
  <2>1. a \in Answer /\ a \in Failure
    BY DEF Answer, Failure
  <2>2. RequestsTyped' /\ Others(r) /\ Replied(r, {a})
    BY <1>1, <1>2, <1>4, <2>1, Answers
  <2> QED
    BY <1>1, <2>1, <2>2, Kept DEF Replied
<1> QED
  BY <1>1, <1>3, <1>4 DEF AbortRow

LEMMA CloseHeld ==
    ASSUME RequestsTyped, NEW r \in Request, req[r].pc \in CloseStep
    PROVE  req[r].upload \in Upload /\ req[r].op \in {"complete", "abort"}
<1>1. WellFormed(req[r]) /\ req[r].pc \in Step \ {"createCheck", "makeDir"}
  BY StepsApart DEF RequestsTyped, Step
<1> QED
  BY <1>1 DEF WellFormed

LEMMA RemoveFilesDoes ==
    ASSUME TypeInv, NEW r \in Request, RemoveFiles(r)
    PROVE  /\ TypeInv' /\ Others(r) /\ Went(r, "removeDir")
           /\ UNCHANGED <<uploads, parts, dirs, nextUpload, stored, status, acked>>
           /\ \A v \in Upload : v # req[r].upload => files'[v] = files[v] /\ temps'[v] = temps[v]
           /\ \/ files'[req[r].upload] = Nothing /\ temps'[req[r].upload] = {}
              \/ "removal" \in Faults /\ UNCHANGED <<files, temps>>
<1> DEFINE u == req[r].upload
<1>1. /\ UNCHANGED <<uploads, parts, dirs, nextUpload, stored, status, acked>>
      /\ RequestsTyped /\ StagingTyped /\ Goto(r, "removeDir")
      /\ \/ files' = [files EXCEPT ![u] = Nothing] /\ temps' = [temps EXCEPT ![u] = {}]
         \/ "removal" \in Faults /\ UNCHANGED <<files, temps>>
  BY DEF RemoveFiles, TypeInv
<1>2. <<req[r].pc, "removeDir">> \in Order /\ u \in Upload
  <2>1. req[r].pc = "removeFiles" /\ req[r].pc \in CloseStep
    BY DEF RemoveFiles, At, CloseStep
  <2> QED
    BY <1>1, <2>1, CloseHeld DEF Order
<1>3. /\ files \in [Upload -> SomeParts] /\ parts \in [Upload -> SomeParts]
      /\ temps \in [Upload -> SUBSET (Request \cup {None})]
  BY <1>1 DEF StagingTyped
<1>4. RequestsTyped' /\ Others(r) /\ Went(r, "removeDir")
  BY <1>1, <1>2, Goes
<1>5. /\ files' \in [Upload -> SomeParts]
      /\ temps' \in [Upload -> SUBSET (Request \cup {None})]
      /\ \A v \in Upload : v # u => files'[v] = files[v] /\ temps'[v] = temps[v]
      /\ \/ files'[u] = Nothing /\ temps'[u] = {}
         \/ "removal" \in Faults /\ UNCHANGED <<files, temps>>
  <2>1. Nothing \in SomeParts
    BY NoParts
  <2> HIDE DEF u
  <2> QED
    BY <1>1, <1>2, <1>3, <2>1
<1>6. StagingTyped'
  <2>1. parts' \in [Upload -> SomeParts]
    BY <1>1, <1>3
  <2> QED
    BY <1>1, <1>5, <2>1 DEF StagingTyped, SomeParts
<1> QED
  BY <1>1, <1>4, <1>5, <1>6, Kept

LEMMA RemoveDirDoes ==
    ASSUME TypeInv, NEW r \in Request, RemoveDir(r)
    PROVE  /\ TypeInv' /\ Others(r) /\ Went(r, "deleteUpload")
           /\ UNCHANGED <<uploads, parts, files, temps, nextUpload, stored, status, acked>>
           /\ dirs' \subseteq dirs
           /\ \/ req[r].upload \notin dirs' \/ "removal" \in Faults
              \/ files[req[r].upload] # Nothing \/ temps[req[r].upload] # {}
<1> DEFINE u == req[r].upload
<1>1. /\ UNCHANGED <<uploads, parts, files, temps, nextUpload, stored, status, acked>>
      /\ RequestsTyped /\ StagingTyped /\ Goto(r, "deleteUpload")
      /\ dirs' \subseteq dirs
      /\ \/ u \notin dirs' \/ "removal" \in Faults
         \/ files[u] # Nothing \/ temps[u] # {}
  BY DEF RemoveDir, TypeInv
<1>2. <<req[r].pc, "deleteUpload">> \in Order
  BY DEF RemoveDir, At, Order
<1>3. RequestsTyped' /\ Others(r) /\ Went(r, "deleteUpload")
  BY <1>1, <1>2, Goes
<1>4. StagingTyped'
  BY <1>1 DEF StagingTyped, SomeParts
<1> QED
  BY <1>1, <1>3, <1>4, Kept

LEMMA DeleteUploadDoes ==
    ASSUME TypeInv, NEW r \in Request, DeleteUpload(r)
    PROVE  /\ TypeInv' /\ Others(r)
           /\ UNCHANGED <<dirs, files, temps, nextUpload, stored, acked>>
           /\ \A v \in Upload : v # req[r].upload =>
                 uploads'[v] = uploads[v] /\ parts'[v] = parts[v]
           /\ \/ /\ Replied(r, {"ok"}) /\ req[r].op = "complete"
                 /\ status' = [status EXCEPT ![req[r].upload] = "completed"]
              \/ /\ Replied(r, {"ok"}) /\ req[r].op = "abort"
                 /\ uploads'[req[r].upload] = None /\ parts'[req[r].upload] = Nothing
                 /\ status' = [status EXCEPT ![req[r].upload] = "aborted"]
              \/ /\ Replied(r, Failure) /\ UNCHANGED <<uploads, parts, status>>
<1> DEFINE u == req[r].upload
           op == req[r].op
           deletes == /\ uploads' = [uploads EXCEPT ![u] = None]
                      /\ parts' = [parts EXCEPT ![u] = Nothing]
           closes == Reply(r, "ok") /\ status' = [status EXCEPT ![u] = Closed[op]]
           fails == Reply(r, "error") /\ UNCHANGED status
<1>1. /\ UNCHANGED <<dirs, files, temps, nextUpload, stored, acked>>
      /\ RequestsTyped /\ StagingTyped /\ HistoryTyped
      /\ \/ deletes /\ closes
         \/ UNCHANGED <<uploads, parts>> /\ op = "complete" /\ closes
         \/ UNCHANGED <<uploads, parts>> /\ op = "abort" /\ fails
  BY DEF DeleteUpload, TypeInv
<1>2. InFlight(r) /\ req[r].pc \in CloseStep
  BY Inside DEF DeleteUpload, At, Step, CloseStep
<1>3. u \in Upload /\ op \in {"complete", "abort"}
  BY <1>1, <1>2, CloseHeld
<1>4. /\ files \in [Upload -> SomeParts] /\ parts \in [Upload -> SomeParts]
      /\ uploads \in [Upload -> Key \cup {None}] /\ acked \in [Upload -> SomeParts]
      /\ status \in [Upload -> {"unknown", "open", "completed", "aborted"}]
  BY <1>1 DEF StagingTyped, HistoryTyped
<1>5. /\ uploads' \in [Upload -> Key \cup {None}] /\ parts' \in [Upload -> SomeParts]
      /\ \A v \in Upload : v # u => uploads'[v] = uploads[v] /\ parts'[v] = parts[v]
      /\ deletes => uploads'[u] = None /\ parts'[u] = Nothing
  <2>1. Nothing \in SomeParts
    BY NoParts
  <2> HIDE DEF u
  <2> QED
    BY <1>1, <1>3, <1>4, <2>1
<1>6. StagingTyped'
  <2>1. files' \in [Upload -> SomeParts]
    BY <1>1, <1>4
  <2> QED
    BY <1>1, <1>5, <2>1 DEF StagingTyped, SomeParts
<1>7. ASSUME closes
      PROVE  /\ RequestsTyped' /\ Others(r) /\ Replied(r, {"ok"}) /\ HistoryTyped'
             /\ op = "complete" => status' = [status EXCEPT ![u] = "completed"]
             /\ op = "abort" => status' = [status EXCEPT ![u] = "aborted"]
  <2>1. "ok" \in Answer
    BY DEF Answer
  <2>2. RequestsTyped' /\ Others(r) /\ Replied(r, {"ok"})
    BY <1>1, <1>2, <1>7, <2>1, Answers
  <2>3. /\ op = "complete" => Closed[op] = "completed"
        /\ op = "abort" => Closed[op] = "aborted"
    BY DEF Closed
  <2>4. HistoryTyped'
    <3>1. acked' \in [Upload -> SomeParts]
      BY <1>1, <1>4
    <3>2. status' \in [Upload -> {"unknown", "open", "completed", "aborted"}]
      BY <1>3, <1>4, <1>7, <2>3
    <3> QED
      BY <3>1, <3>2 DEF HistoryTyped, SomeParts
  <2> QED
    BY <1>7, <2>2, <2>3, <2>4
<1>8. ASSUME fails
      PROVE  RequestsTyped' /\ Others(r) /\ Replied(r, Failure) /\ HistoryTyped'
  <2>1. "error" \in Answer /\ "error" \in Failure
    BY DEF Answer, Failure
  <2>2. RequestsTyped' /\ Others(r) /\ Replied(r, {"error"})
    BY <1>1, <1>2, <1>8, <2>1, Answers
  <2>3. HistoryTyped'
    BY <1>1, <1>8 DEF HistoryTyped, SomeParts
  <2> QED
    BY <2>1, <2>2, <2>3 DEF Replied
<1>9. ASSUME RequestsTyped', HistoryTyped' PROVE TypeInv'
  BY <1>1, <1>6, <1>9, Kept
<1>10. CASE deletes /\ closes
  <2> HIDE DEF deletes, closes
  <2> QED
    BY <1>1, <1>3, <1>5, <1>7, <1>9, <1>10
<1>11. CASE UNCHANGED <<uploads, parts>> /\ op = "complete" /\ closes
  <2> HIDE DEF deletes, closes
  <2> QED
    BY <1>1, <1>3, <1>5, <1>7, <1>9, <1>11
<1>12. CASE UNCHANGED <<uploads, parts>> /\ op = "abort" /\ fails
  <2>1. RequestsTyped' /\ Others(r) /\ Replied(r, Failure) /\ HistoryTyped' /\ UNCHANGED status
    BY <1>8, <1>12
  <2> HIDE DEF deletes, closes, fails
  <2> QED
    BY <1>1, <1>3, <1>5, <1>9, <1>12, <2>1
<1> QED
  <2> HIDE DEF deletes, closes, fails
  <2> QED
    BY <1>1, <1>10, <1>11, <1>12

LEMMA BeginCreateDoes ==
    ASSUME TypeInv, NEW r \in Request, BeginCreate(r)
    PROVE  /\ TypeInv' /\ Others(r) /\ UNCHANGED <<staging, stored, status, acked>>
           /\ req[r].pc = "idle"
           /\ req'[r].pc = "createCheck" /\ req'[r].op = "create" /\ req'[r].live
<1>1. UNCHANGED <<staging, stored, status, acked>> /\ RequestsTyped /\ req[r].pc = "idle"
  BY DEF BeginCreate, Begin, At, TypeInv
<1>2. PICK k \in Key :
          Become(r, [Idle EXCEPT !.pc = "createCheck", !.op = "create", !.key = k])
  BY DEF BeginCreate, Begin
<1>3. /\ RequestsTyped' /\ Others(r)
      /\ req'[r].pc = "createCheck" /\ req'[r].op = "create" /\ req'[r].live
  BY <1>1, <1>2, CreateBegins
<1> QED
  BY <1>1, <1>3, Kept

LEMMA BeginUploadPartDoes ==
    ASSUME TypeInv, NEW r \in Request, BeginUploadPart(r)
    PROVE  /\ TypeInv' /\ Others(r) /\ UNCHANGED <<staging, stored, status>>
           /\ req[r].pc = "idle"
           /\ req'[r].pc = "partRow" /\ req'[r].op = "uploadPart" /\ req'[r].live
           /\ \E u \in Upload, p \in Part :
                 /\ status[u] # "unknown" /\ MayUpload(u, p)
                 /\ req'[r].upload = u /\ req'[r].part = p
                 /\ \A v \in Upload : v # u => acked'[v] = acked[v]
                 /\ DOMAIN acked'[u] = DOMAIN acked[u] \ {p}
                 /\ \A q \in DOMAIN acked'[u] : acked'[u][q] = acked[u][q]
<1>1. /\ UNCHANGED <<staging, stored, status>> /\ RequestsTyped /\ HistoryTyped
      /\ req[r].pc = "idle"
  BY DEF BeginUploadPart, Begin, At, TypeInv
<1>2. PICK u \in Upload, p \in Part : \E body \in Bodies[p] :
          /\ status[u] # "unknown" /\ MayUpload(u, p)
          /\ Become(r, UploadAsked(u, p, body))
          /\ acked' = [acked EXCEPT ![u] = Restrict(@, DOMAIN @ \ {p})]
  BY DEF BeginUploadPart, Begin, UploadAsked
<1>3. /\ RequestsTyped' /\ Others(r)
      /\ req'[r].pc = "partRow" /\ req'[r].op = "uploadPart" /\ req'[r].live
      /\ req'[r].upload = u /\ req'[r].part = p
  BY <1>1, <1>2, UploadBegins
<1> DEFINE a == acked[u]
           w == Restrict(a, DOMAIN a \ {p})
<1>4. w \in SomeParts /\ DOMAIN w = DOMAIN a \ {p} /\ \A q \in DOMAIN w : w[q] = a[q]
  <2>1. a \in SomeParts
    BY <1>1 DEF HistoryTyped
  <2> HIDE DEF a
  <2> QED
    BY <2>1, PartForgotten
<1>5. acked' = [acked EXCEPT ![u] = w]
  BY <1>2
<1> HIDE DEF w
<1>6. /\ acked' \in [Upload -> SomeParts] /\ acked'[u] = w
      /\ \A v \in Upload : v # u => acked'[v] = acked[v]
  BY <1>1, <1>4, <1>5 DEF HistoryTyped
<1>7. HistoryTyped'
  BY <1>1, <1>6 DEF HistoryTyped, SomeParts
<1>8. TypeInv'
  BY <1>1, <1>3, <1>7, StagingKept, StoredKept DEF TypeInv
<1> QED
  BY <1>1, <1>2, <1>3, <1>4, <1>6, <1>8

LEMMA BeginCompleteDoes ==
    ASSUME TypeInv, NEW r \in Request, BeginComplete(r)
    PROVE  /\ TypeInv' /\ Others(r) /\ UNCHANGED <<staging, stored, status, acked>>
           /\ req[r].pc = "idle"
           /\ req'[r].pc = "completeRow" /\ req'[r].op = "complete" /\ req'[r].live
           /\ \E u \in Upload, want \in SomeParts :
                 /\ status[u] # "unknown" /\ MayComplete(u, want)
                 /\ req'[r].upload = u /\ req'[r].want = want
<1>1. UNCHANGED <<staging, stored, status, acked>> /\ RequestsTyped /\ req[r].pc = "idle"
  BY DEF BeginComplete, Begin, At, TypeInv
<1>2. PICK u \in Upload, k \in Key, want \in SomeParts :
          /\ status[u] # "unknown" /\ MayComplete(u, want)
          /\ Become(r, CompleteAsked(u, k, want))
  BY DEF BeginComplete, Begin, CompleteAsked
<1>3. /\ RequestsTyped' /\ Others(r)
      /\ req'[r].pc = "completeRow" /\ req'[r].op = "complete" /\ req'[r].live
      /\ req'[r].upload = u /\ req'[r].want = want
  BY <1>1, <1>2, CompleteBegins
<1>4. TypeInv'
  BY <1>1, <1>3, Kept
<1> QED
  BY <1>1, <1>2, <1>3, <1>4

LEMMA BeginAbortDoes ==
    ASSUME TypeInv, NEW r \in Request, BeginAbort(r)
    PROVE  /\ TypeInv' /\ Others(r) /\ UNCHANGED <<staging, stored, status, acked>>
           /\ req[r].pc = "idle"
           /\ req'[r].pc = "abortRow" /\ req'[r].op = "abort" /\ req'[r].live
           /\ \E u \in Upload :
                 status[u] # "unknown" /\ MayAbort(u) /\ req'[r].upload = u
<1>1. UNCHANGED <<staging, stored, status, acked>> /\ RequestsTyped /\ req[r].pc = "idle"
  BY DEF BeginAbort, Begin, At, TypeInv
<1>2. PICK u \in Upload :
          /\ status[u] # "unknown" /\ MayAbort(u)
          /\ Become(r, [Idle EXCEPT !.pc = "abortRow", !.op = "abort", !.upload = u])
  BY DEF BeginAbort, Begin
<1>3. /\ RequestsTyped' /\ Others(r)
      /\ req'[r].pc = "abortRow" /\ req'[r].op = "abort" /\ req'[r].live
      /\ req'[r].upload = u
  BY <1>1, <1>2, AbortBegins
<1>4. TypeInv'
  BY <1>1, <1>3, Kept
<1> QED
  BY <1>1, <1>2, <1>3, <1>4

LEMMA FinishDoes ==
    ASSUME TypeInv, NEW r \in Request, Finish(r)
    PROVE  /\ TypeInv' /\ Others(r) /\ UNCHANGED <<staging, stored, status, acked>>
           /\ req'[r].pc = "idle" /\ req'[r].live
<1>1. UNCHANGED <<staging, stored, status, acked>> /\ RequestsTyped /\ Become(r, Idle)
  BY DEF Finish, TypeInv
<1> QED
  BY <1>1, Finishing, Kept

LEMMA CancelDoes ==
    ASSUME TypeInv, NEW r \in Request, Cancel(r)
    PROVE  /\ TypeInv' /\ Others(r) /\ UNCHANGED <<staging, stored, status, acked>>
           /\ "cancel" \in Faults
           /\ req'[r].pc = req[r].pc /\ SameWork(req[r], req'[r])
<1>1. /\ UNCHANGED <<staging, stored, status, acked>> /\ RequestsTyped /\ "cancel" \in Faults
      /\ Become(r, [req[r] EXCEPT !.live = FALSE])
  BY DEF Cancel, TypeInv
<1>2. /\ RequestsTyped' /\ Others(r)
      /\ req'[r].pc = req[r].pc /\ SameWork(req[r], req'[r])
  BY <1>1, Cancelling
<1> QED
  BY <1>1, <1>2, Kept

LEMMA CrashDoes ==
    ASSUME TypeInv, Crash
    PROVE  /\ TypeInv'
           /\ UNCHANGED <<uploads, parts, dirs, files, nextUpload, stored, status, acked>>
           /\ \A r \in Request : req'[r] = Idle
<1>1. /\ UNCHANGED <<uploads, parts, dirs, files, nextUpload, stored, status, acked>>
      /\ StagingTyped /\ req' = [r \in Request |-> Idle]
      /\ temps' = [u \in Upload |-> IF temps[u] = {} THEN {} ELSE {None}]
  BY DEF Crash, TypeInv
<1>2. RequestsTyped'
  <2>1. req' \in [Request -> RequestState] /\ \A r \in Request : WellFormed(req'[r])
    BY <1>1, IdleWellFormed DEF WellFormed
  <2> QED
    BY <2>1 DEF RequestsTyped, WellFormed, RequestState
<1>3. StagingTyped'
  <2>1. temps' \in [Upload -> SUBSET (Request \cup {None})]
    BY <1>1
  <2> QED
    BY <1>1, <2>1 DEF StagingTyped, SomeParts
<1> QED
  BY <1>1, <1>2, <1>3, Kept

-----------------------------------------------------------------------------
(* Type correctness *)

LEMMA TypeInit == Init => TypeInv
<1> SUFFICES ASSUME Init PROVE TypeInv
  OBVIOUS
<1>1. StagingTyped
  BY NoParts, BoundAssumption DEF Init, StagingTyped
<1>2. StoredTyped
  <2>1. 1 \in 1..(MaxMessages + 1) /\ <<>> \in Seq(Block)
    BY BoundAssumption
  <2> QED
    BY <2>1 DEF Init, StoredTyped
<1>3. HistoryTyped
  BY NoParts DEF Init, HistoryTyped
<1>4. RequestsTyped
  <2>1. req = [r \in Request |-> Idle] /\ Idle \in RequestState
    BY IdleWellFormed DEF Init, WellFormed
  <2> QED
    BY <2>1, IdleWellFormed DEF RequestsTyped
<1> QED
  BY <1>1, <1>2, <1>3, <1>4 DEF TypeInv

LEMMA TypeStep == TypeInv /\ [Next]_vars => TypeInv'
<1> SUFFICES ASSUME TypeInv, [Next]_vars PROVE TypeInv'
  OBVIOUS
<1>1. CASE UNCHANGED vars
  <2>1. RequestsTyped'
    BY <1>1 DEF vars, TypeInv, RequestsTyped, WellFormed, RequestState
  <2> QED
    BY <1>1, <2>1, Kept DEF vars
<1>2. CASE Crash
  BY <1>2, CrashDoes
<1>3. ASSUME NEW r \in Request,
             \/ BeginCreate(r) \/ BeginUploadPart(r) \/ BeginComplete(r) \/ BeginAbort(r)
             \/ Finish(r) \/ Cancel(r)
      PROVE  TypeInv'
  BY <1>3, BeginCreateDoes, BeginUploadPartDoes, BeginCompleteDoes, BeginAbortDoes,
     FinishDoes, CancelDoes
<1>4. ASSUME NEW r \in Request,
             \/ CreateCheck(r) \/ MakeDir(r) \/ InsertUpload(r) \/ DropDir(r)
             \/ PartRow(r) \/ CreateTemp(r) \/ Receive(r) \/ Rename(r) \/ Upsert(r)
      PROVE  TypeInv'
  BY <1>4, CreateCheckDoes, MakeDirDoes, InsertUploadDoes, DropDirDoes,
     PartRowDoes, CreateTempDoes, ReceiveDoes, RenameDoes, UpsertDoes
<1>5. ASSUME NEW r \in Request,
             \/ CompleteRow(r) \/ ListParts(r) \/ OpenPart(r) \/ Store(r) \/ Commit(r)
             \/ Rollback(r)
             \/ AbortRow(r) \/ RemoveFiles(r) \/ RemoveDir(r) \/ DeleteUpload(r)
      PROVE  TypeInv'
  BY <1>5, CompleteRowDoes, ListPartsDoes, OpenPartDoes, StoreDoes, CommitDoes, RollbackDoes,
     AbortRowDoes, RemoveFilesDoes, RemoveDirDoes, DeleteUploadDoes
<1> QED
  BY <1>1, <1>2, <1>3, <1>4, <1>5 DEF Next, RequestStep

LEMMA TypeSafe == Spec => []TypeInv
  BY TypeInit, TypeStep, PTL DEF Spec

\* Every variable keeps its type, and a handler holds the upload, part or message that
\* its step uses, whatever requests overlap, fail or are cut short (multipart.go).
THEOREM TypeCorrect == Spec => []TypeOK
<1>1. TypeInv => TypeOK
  <2> SUFFICES ASSUME TypeInv PROVE TypeOK
    OBVIOUS
  <2>1. StagingTyped /\ StoredTyped /\ HistoryTyped /\ RequestsTyped
    BY DEF TypeInv
  <2>2. ASSUME NEW r \in Request
        PROVE  /\ req[r].pc \in Step \ {"createCheck", "makeDir"} => req[r].upload \in Upload
               /\ req[r].pc \in {"receive", "rename", "upsert"} => req[r].part \in Part
               /\ req[r].pc \in {"commit", "rollback"} =>
                      req[r].msg \in Message /\ req[r].key \in Key
               /\ req[r].pc = "openPart" => req[r].todo # {}
    <3>1. WellFormed(req[r])
      BY <2>1 DEF RequestsTyped
    <3>2. {"receive", "rename", "upsert"} \subseteq PartStep
      BY DEF PartStep
    <3> QED
      BY <3>1, <3>2, StepsApart DEF WellFormed
  <2> QED
    BY <2>1, <2>2 DEF TypeOK, StagingTyped, StoredTyped, HistoryTyped, RequestsTyped
<1> QED
  BY <1>1, TypeSafe, PTL

-----------------------------------------------------------------------------
(* What the messages hold *)

LEMMA GatherNothing ==
    ASSUME NEW n, NEW v \in SomeParts, DOMAIN v = {}, n.todo = DOMAIN n.want,
           n.stream = <<>>, n.total = 0
    PROVE  Gathered(n, v)
<1>1. Join(v) = <<>> /\ Len(<<>>) = 0
  BY JoinNone
<1> QED
  BY <1>1 DEF Gathered

LEMMA LengthsAdd ==
    ASSUME NEW s \in Seq(Block), NEW t \in Seq(Block)
    PROVE  Len(s \o t) = Len(s) + Len(t)
  OBVIOUS

LEMMA GatherNext ==
    ASSUME NEW q, NEW n, NEW w, NEW v \in SomeParts, NEW p, NEW b,
           Gathered(q, w), q.want \in SomeParts, q.todo \subseteq DOMAIN q.want,
           p \in q.todo, \A o \in q.todo : p <= o, b \in Bodies[p], Len(b) = Len(q.want[p]),
           DOMAIN v = DOMAIN w \cup {p}, v[p] = b, \A o \in DOMAIN w : v[o] = w[o],
           n.want = q.want, n.todo = q.todo \ {p}, n.stream = q.stream \o b,
           n.total = q.total + Len(q.want[p])
    PROVE  Gathered(n, v)
<1>1. p \in Part /\ q.todo \subseteq Part /\ w \in SomeParts /\ DOMAIN w \subseteq Part
  BY PartsAre DEF Gathered
<1>2. Part \subseteq Nat
  BY DEF Part
<1>3. DOMAIN v = DOMAIN n.want \ n.todo
  BY DEF Gathered
<1>4. ASSUME NEW o \in DOMAIN v, NEW t \in n.todo
      PROVE  o < t
  <2>1. CASE o \in DOMAIN w
    BY <2>1 DEF Gathered
  <2>2. CASE o = p
    <3>1. p <= t /\ t # p
      OBVIOUS
    <3>2. p \in Nat /\ t \in Nat
      BY <1>1, <1>2
    <3> QED
      BY <2>2, <3>1, <3>2
  <2> QED
    BY <2>1, <2>2
<1>5. Join(v) = Join(w) \o b
  <2>1. \A o \in DOMAIN w : o < p /\ v[o] = w[o]
    BY DEF Gathered
  <2>2. Join(v) = Join(w) \o v[p]
    BY <1>1, <2>1, JoinNext
  <2> QED
    BY <2>2
<1>6. n.stream = Join(v)
  BY <1>5 DEF Gathered
<1>7. n.total = Len(n.stream)
  <2>1. Join(w) \in Seq(Block) /\ b \in Seq(Block)
    <3>1. Join(w) \in Seq(Block)
      BY <1>1, JoinTyped
    <3>2. Bodies[p] \subseteq Seq(Block)
      BY <1>1, PartAssumption
    <3> QED
      BY <3>1, <3>2
  <2>2. q.stream = Join(w) /\ q.total = Len(q.stream)
    BY DEF Gathered
  <2>3. Len(q.stream \o b) = Len(q.stream) + Len(b)
    <3>1. q.stream \in Seq(Block)
      BY <2>1, <2>2
    <3> QED
      BY <2>1, <3>1, LengthsAdd
  <2> QED
    BY <2>2, <2>3
<1> QED
  BY <1>3, <1>4, <1>6, <1>7 DEF Gathered

\* All that was gathered is sent.
LEMMA AllSent ==
    ASSUME NEW q, NEW w, Gathered(q, w)
    PROVE  SubSeq(q.stream, 1, q.total) = Join(w)
<1>1. w \in SomeParts /\ q.stream = Join(w) /\ q.total = Len(q.stream)
  BY DEF Gathered
<1>2. q.stream \in Seq(Block)
  BY <1>1, JoinTyped
<1>3. SubSeq(q.stream, 1, Len(q.stream)) = q.stream
  BY <1>2
<1> QED
  BY <1>1, <1>3

\* A client that sends a file again sends as many bytes: the bodies of a part have
\* one size.
SameSizes == \A p \in Part : \A b, c \in Bodies[p] : Len(b) = Len(c)

OffStream == {"openPart", "store", "commit", "rollback"}

\* A step that neither sends nor gathers.
LEMMA BodiesKept ==
    ASSUME BodiesInv, NEW r \in Request, Others(r), UNCHANGED <<objects, content, nextMessage>>,
           \/ req'[r].pc \notin OffStream
           \/ req'[r].pc = req[r].pc /\ SameWork(req[r], req'[r])
    PROVE  BodiesInv'
<1>1. /\ \A m \in Message : m < nextMessage' => \E w \in SomeParts : content'[m] = Join(w)
      /\ \A k \in Key : objects'[k] # NoMessage => objects'[k] < nextMessage'
  BY DEF BodiesInv
<1>2. ASSUME NEW s \in Request
      PROVE  /\ req'[s].pc \in {"commit", "rollback"} => req'[s].msg < nextMessage'
             /\ req'[s].pc \in {"openPart", "store"} => \E w \in SomeParts : Gathered(req'[s], w)
  <2>1. CASE s # r
    <3>1. req'[s] = req[s]
      BY <2>1 DEF Others
    <3> QED
      BY <3>1 DEF BodiesInv
  <2>2. CASE s = r /\ req'[r].pc \notin OffStream
    BY <2>2 DEF OffStream
  <2>3. CASE s = r /\ req'[r].pc = req[r].pc /\ SameWork(req[r], req'[r])
    <3>1. \A w : Gathered(req[r], w) => Gathered(req'[r], w)
      BY <2>3 DEF Gathered, SameWork, SameRequest
    <3>2. req'[r].msg = req[r].msg
      BY <2>3 DEF SameWork, SameRequest
    <3> QED
      BY <2>3, <3>1, <3>2 DEF BodiesInv
  <2> QED
    BY <2>1, <2>2, <2>3
<1> QED
  BY <1>1, <1>2 DEF BodiesInv

LEMMA BodiesInit == Init => BodiesInv
<1> SUFFICES ASSUME Init PROVE BodiesInv
  OBVIOUS
<1>1. nextMessage = 1 /\ \A k \in Key : objects[k] = NoMessage
  BY DEF Init
<1>2. \A m \in Message : ~(m < nextMessage)
  BY <1>1 DEF Message
<1>3. \A r \in Request : req[r].pc = "idle"
  BY DEF Init, Idle
<1> QED
  BY <1>1, <1>2, <1>3 DEF BodiesInv

LEMMA BodiesListParts ==
    ASSUME TypeInv, BodiesInv, NEW r \in Request, ListParts(r)
    PROVE  BodiesInv'
<1>1. Others(r) /\ UNCHANGED <<objects, content, nextMessage>>
  BY ListPartsDoes DEF stored
<1>2. CASE Replied(r, Failure)
  BY <1>1, <1>2, BodiesKept DEF Replied, OffStream
<1>3. CASE /\ SameRequest(req[r], req'[r])
           /\ req'[r].pc \in {"openPart", "store"}
           /\ req'[r].todo = DOMAIN req[r].want
           /\ req'[r].stream = <<>> /\ req'[r].total = 0
  <2>1. req'[r].want = req[r].want
    BY <1>3 DEF SameRequest
  <2>2. Gathered(req'[r], Nothing)
    BY <1>3, <2>1, NoParts, GatherNothing
  <2>3. \A s \in Request : s # r => req'[s] = req[s]
    BY <1>1 DEF Others
  <2> QED
    BY <1>1, <1>3, <2>2, <2>3, NoParts DEF BodiesInv
<1> QED
  BY <1>2, <1>3, ListPartsDoes

\* The file of a part has as many bytes as the body that the part is listed with.
LEMMA BodiesOpenPart ==
    ASSUME SameSizes, TypeInv, BodiesInv, NEW r \in Request, OpenPart(r)
    PROVE  BodiesInv'
<1>1. Others(r) /\ UNCHANGED <<objects, content, nextMessage>>
  BY OpenPartDoes DEF stored
<1>2. CASE Replied(r, Failure)
  BY <1>1, <1>2, BodiesKept DEF Replied, OffStream
<1>3. ASSUME SameRequest(req[r], req'[r]), req'[r].pc \in {"openPart", "store"},
             NEW p \in req[r].todo \cap DOMAIN files[req[r].upload],
             \A o \in req[r].todo : p <= o,
             req'[r].todo = req[r].todo \ {p},
             req'[r].stream = req[r].stream \o files[req[r].upload][p],
             req'[r].total = req[r].total + Len(req[r].want[p])
      PROVE  BodiesInv'
  <2> DEFINE q == req[r]
             b == files[q.upload][p]
  <2>1. /\ q.upload \in Upload /\ q.want \in SomeParts /\ q.todo \subseteq DOMAIN q.want
        /\ q.pc = "openPart"
    BY StepsApart, CompleteHeld DEF TypeInv, OpenPart, At
  <2>2. p \in Part /\ b \in Bodies[p] /\ q.want[p] \in Bodies[p]
    <3>1. files[q.upload] \in SomeParts
      BY <2>1 DEF TypeInv, StagingTyped
    <3> QED
      BY <1>3, <2>1, <3>1, PartsAre
  <2>3. Len(b) = Len(q.want[p])
    BY <2>2 DEF SameSizes
  <2>4. PICK w \in SomeParts : Gathered(q, w)
    BY <2>1 DEF BodiesInv
  <2> DEFINE v == WithPart(w, p, b)
  <2> HIDE DEF b
  <2>5. /\ v \in SomeParts /\ DOMAIN v = DOMAIN w \cup {p} /\ v[p] = b
        /\ \A o \in DOMAIN w \ {p} : v[o] = w[o]
    BY <2>2, <2>4, PartWritten
  <2> HIDE DEF v
  <2>6. p \notin DOMAIN w
    BY <1>3, <2>4 DEF Gathered
  <2>7. /\ req'[r].want = q.want /\ req'[r].todo = q.todo \ {p}
        /\ req'[r].stream = q.stream \o b /\ req'[r].total = q.total + Len(q.want[p])
    BY <1>3 DEF SameRequest, b
  <2>8. p \in q.todo /\ \A o \in q.todo : p <= o
    BY <1>3
  <2>9. \A o \in DOMAIN w : v[o] = w[o]
    BY <2>5, <2>6
  <2> HIDE DEF q
  <2>10. Gathered(req'[r], v)
    BY <2>1, <2>2, <2>3, <2>4, <2>5, <2>7, <2>8, <2>9, GatherNext, SMTT(30)
  <2>11. \A s \in Request : s # r => req'[s] = req[s]
    BY <1>1 DEF Others
  <2> QED
    BY <1>1, <1>3, <2>5, <2>10, <2>11 DEF BodiesInv
<1> QED
  BY <1>2, <1>3, OpenPartDoes

LEMMA BodiesStore ==
    ASSUME TypeInv, BodiesInv, NEW r \in Request, Store(r)
    PROVE  BodiesInv'
<1>1. Others(r) /\ UNCHANGED objects /\ req[r].pc = "store"
  BY StoreDoes DEF Store, At
<1>2. CASE Replied(r, Failure) /\ UNCHANGED <<content, nextMessage>>
  BY <1>1, <1>2, BodiesKept DEF Replied, OffStream
<1>3. CASE /\ nextMessage \in Message /\ nextMessage' = nextMessage + 1
           /\ content' = [content EXCEPT ![nextMessage] =
                              SubSeq(req[r].stream, 1, req[r].total)]
           /\ \/ req'[r].pc = "commit" /\ req'[r].msg = nextMessage
              \/ Replied(r, Failure)
  <2>1. PICK w \in SomeParts : Gathered(req[r], w)
    BY <1>1 DEF BodiesInv
  <2>2. SubSeq(req[r].stream, 1, req[r].total) = Join(w)
    BY <2>1, AllSent
  <2>3. /\ content'[nextMessage] = Join(w)
        /\ \A m \in Message : m # nextMessage => content'[m] = content[m]
    BY <1>3, <2>2 DEF TypeInv, StoredTyped
  <2>4. /\ nextMessage \in Nat /\ Message \subseteq Nat
        /\ \A k \in Key : objects[k] \in Nat
    <3>1. \A k \in Key : objects[k] \in Message \cup {NoMessage}
      BY DEF TypeInv, StoredTyped
    <3>2. Message \subseteq Nat /\ NoMessage \in Nat
      BY DEF Message, NoMessage
    <3> QED
      BY <1>3, <3>1, <3>2
  <2>5. ASSUME NEW m \in Message, m < nextMessage'
        PROVE  \E x \in SomeParts : content'[m] = Join(x)
    <3>1. CASE m = nextMessage
      BY <2>1, <2>3, <3>1
    <3>2. CASE m # nextMessage
      <4>1. m < nextMessage
        BY <1>3, <2>4, <2>5, <3>2
      <4> QED
        BY <2>3, <3>2, <4>1 DEF BodiesInv
    <3> QED
      BY <3>1, <3>2
  <2>6. \A k \in Key : objects'[k] # NoMessage => objects'[k] < nextMessage'
    BY <1>1, <1>3, <2>4 DEF BodiesInv
  <2>7. ASSUME NEW s \in Request
        PROVE  /\ req'[s].pc \in {"commit", "rollback"} => req'[s].msg < nextMessage'
               /\ req'[s].pc \in {"openPart", "store"} =>
                      \E x \in SomeParts : Gathered(req'[s], x)
    <3>1. CASE s # r
      <4>1. req'[s] = req[s]
        BY <1>1, <3>1 DEF Others
      <4>2. req[s].pc \in {"commit", "rollback"} => req[s].msg \in Nat /\ req[s].msg < nextMessage
        BY <2>4, MessageHeld DEF TypeInv, BodiesInv
      <4>3. req[s].pc \in {"commit", "rollback"} => req[s].msg < nextMessage'
        BY <1>3, <2>4, <4>2
      <4> QED
        BY <4>1, <4>3 DEF BodiesInv
    <3>2. CASE s = r
      BY <1>3, <2>4, <3>2 DEF Replied
    <3> QED
      BY <3>1, <3>2
  <2> QED
    BY <2>5, <2>6, <2>7 DEF BodiesInv
<1> QED
  BY <1>2, <1>3, StoreDoes

LEMMA BodiesCommit ==
    ASSUME TypeInv, BodiesInv, NEW r \in Request, Commit(r)
    PROVE  BodiesInv'
<1>1. /\ Others(r) /\ UNCHANGED <<content, nextMessage>> /\ req[r].pc = "commit"
      /\ \/ objects' = [objects EXCEPT ![req[r].key] = req[r].msg]
         \/ objects' = objects
      /\ req'[r].pc \in {"removeFiles", "rollback"} /\ SameWork(req[r], req'[r])
  BY CommitDoes DEF Commit, At, Went
<1>2. req[r].msg < nextMessage /\ req'[r].msg = req[r].msg
  BY <1>1 DEF BodiesInv, SameWork, SameRequest
<1>3. ASSUME NEW k \in Key, objects'[k] # NoMessage
      PROVE  objects'[k] < nextMessage'
  BY <1>1, <1>2, <1>3 DEF BodiesInv, TypeInv, StoredTyped
<1>4. ASSUME NEW s \in Request
      PROVE  /\ req'[s].pc \in {"commit", "rollback"} => req'[s].msg < nextMessage'
             /\ req'[s].pc \in {"openPart", "store"} =>
                    \E w \in SomeParts : Gathered(req'[s], w)
  <2>1. CASE s # r
    <3>1. req'[s] = req[s]
      BY <1>1, <2>1 DEF Others
    <3> QED
      BY <1>1, <3>1 DEF BodiesInv
  <2>2. CASE s = r
    BY <1>1, <1>2, <2>2
  <2> QED
    BY <2>1, <2>2
<1> QED
  BY <1>1, <1>3, <1>4 DEF BodiesInv

\* Steps of requests that neither send nor gather.
Aside(r) ==
    \/ BeginCreate(r) \/ BeginUploadPart(r) \/ BeginComplete(r) \/ BeginAbort(r) \/ Finish(r)
    \/ CreateCheck(r) \/ MakeDir(r) \/ InsertUpload(r) \/ DropDir(r)
    \/ PartRow(r) \/ CreateTemp(r) \/ Receive(r) \/ Rename(r) \/ Upsert(r)
    \/ CompleteRow(r) \/ Rollback(r) \/ AbortRow(r)
    \/ RemoveFiles(r) \/ RemoveDir(r) \/ DeleteUpload(r)

LEMMA AsideDoes ==
    ASSUME TypeInv, NEW r \in Request, Aside(r)
    PROVE  /\ TypeInv' /\ Others(r) /\ UNCHANGED <<objects, content, nextMessage>>
           /\ req'[r].pc \notin OffStream
<1>1. CASE \/ BeginCreate(r) \/ BeginUploadPart(r) \/ BeginComplete(r) \/ BeginAbort(r)
           \/ Finish(r)
  BY <1>1, BeginCreateDoes, BeginUploadPartDoes, BeginCompleteDoes, BeginAbortDoes, FinishDoes
  DEF stored, OffStream
<1>2. CASE CreateCheck(r) \/ MakeDir(r) \/ InsertUpload(r) \/ DropDir(r)
  BY <1>2, CreateCheckDoes, MakeDirDoes, InsertUploadDoes, DropDirDoes
  DEF stored, OffStream, Went, Replied
<1>3. CASE PartRow(r) \/ CreateTemp(r) \/ Receive(r) \/ Rename(r) \/ Upsert(r)
  BY <1>3, PartRowDoes, CreateTempDoes, ReceiveDoes, RenameDoes, UpsertDoes
  DEF stored, OffStream, Went, Replied
<1>4. CASE CompleteRow(r) \/ Rollback(r) \/ AbortRow(r)
  BY <1>4, CompleteRowDoes, RollbackDoes, AbortRowDoes DEF stored, OffStream, Went, Replied
<1>5. CASE RemoveFiles(r) \/ RemoveDir(r)
  BY <1>5, RemoveFilesDoes, RemoveDirDoes DEF stored, OffStream, Went, Replied
<1>6. CASE DeleteUpload(r)
  BY <1>6, DeleteUploadDoes DEF stored, OffStream, Went, Replied
<1> QED
  BY <1>1, <1>2, <1>3, <1>4, <1>5, <1>6 DEF Aside

LEMMA StepKinds ==
    ASSUME [Next]_vars
    PROVE  \/ UNCHANGED vars \/ Crash
           \/ \E r \in Request : \/ Aside(r) \/ Cancel(r) \/ ListParts(r) \/ OpenPart(r)
                                 \/ Store(r) \/ Commit(r)
  BY DEF Next, RequestStep, Aside

LEMMA BodiesStep ==
    ASSUME SameSizes
    PROVE  TypeInv /\ BodiesInv /\ [Next]_vars => BodiesInv'
<1> SUFFICES ASSUME TypeInv, BodiesInv, [Next]_vars PROVE BodiesInv'
  OBVIOUS
<1>1. CASE UNCHANGED vars
  BY <1>1 DEF BodiesInv, vars, stored, SomeParts
<1>2. CASE Crash
  <2>1. UNCHANGED <<objects, content, nextMessage>> /\ \A r \in Request : req'[r].pc = "idle"
    BY <1>2, CrashDoes DEF stored, Idle
  <2> QED
    BY <2>1 DEF BodiesInv
<1>3. ASSUME NEW r \in Request, Aside(r)
      PROVE  BodiesInv'
  BY <1>3, AsideDoes, BodiesKept
<1>4. ASSUME NEW r \in Request, Cancel(r)
      PROVE  BodiesInv'
  BY <1>4, CancelDoes, BodiesKept DEF stored
<1>5. ASSUME NEW r \in Request, ListParts(r) \/ OpenPart(r) \/ Store(r) \/ Commit(r)
      PROVE  BodiesInv'
  BY <1>5, BodiesListParts, BodiesOpenPart, BodiesStore, BodiesCommit
<1> QED
  BY <1>1, <1>2, <1>3, <1>4, <1>5, StepKinds

\* ARCHITECTURE.md:124, "the object appears on the final POST and never partially": when
\* the bodies that are sent as a part have one size, every object is made of whole
\* bodies, whatever uploads of a part, completions and aborts overlap, fail or are cut
\* short. (CompleteMultipart declares the sum of the sizes in the rows and reads the
\* files; WholeBodies fails, in one of the runs, when a file and its row can differ
\* in size.)
THEOREM BodiesWhole ==
    ASSUME SameSizes
    PROVE  Spec => []WholeBodies
<1>1. TypeInv /\ BodiesInv => WholeBodies
  <2> SUFFICES ASSUME TypeInv, BodiesInv, NEW k \in Key, objects[k] # NoMessage
               PROVE  \E w \in SomeParts : Stored(k) = Join(w)
    BY DEF WholeBodies
  <2>1. objects[k] \in Message /\ objects[k] < nextMessage
    BY DEF TypeInv, StoredTyped, BodiesInv
  <2> QED
    BY <2>1 DEF BodiesInv, Stored
<1>2. Spec => []BodiesInv
  BY BodiesInit, BodiesStep, TypeSafe, PTL DEF Spec
<1> QED
  BY <1>1, <1>2, TypeSafe, PTL

-----------------------------------------------------------------------------
(* Careful clients *)

\* They wait for an answer before they disturb what it is about, and do not hang up.
Careful == CarefulClients /\ "cancel" \notin Faults

Follows(r) ==
    /\ InFlight(r) /\ req'[r].live = req[r].live
    /\ req'[r].op = req[r].op /\ req'[r].upload = req[r].upload
    /\ req[r].op = "uploadPart" => req'[r].part = req[r].part

Over(r) == req'[r].live /\ (req'[r].pc \notin Step \/ req'[r].op = "create")

LEMMA WentFollows ==
    ASSUME NEW r \in Request, NEW step, Went(r, step), InFlight(r)
    PROVE  Follows(r)
  BY DEF Went, SameWork, SameRequest, Follows

LEMMA RepliedOver ==
    ASSUME NEW r \in Request, NEW answers, Replied(r, answers)
    PROVE  Over(r)
  BY StepsApart DEF Replied, Over

LEMMA RequestFollows ==
    ASSUME TypeInv, Alone, "cancel" \notin Faults, NEW r \in Request, RequestStep(r)
    PROVE  Others(r) /\ (Follows(r) \/ Over(r))
<1>1. CASE CreateCheck(r)
  <2>1. InFlight(r)
    BY <1>1, Inside DEF CreateCheck, Step, CreateStep
  <2> QED
    BY <1>1, <2>1, CreateCheckDoes, WentFollows, RepliedOver
<1>2. CASE MakeDir(r)
  <2>1. req[r].live
    BY DEF Alone
  <2> QED
    BY <1>2, <2>1, MakeDirDoes, RepliedOver DEF Over
<1>3. CASE InsertUpload(r)
  <2>1. InFlight(r)
    BY <1>3, Inside DEF InsertUpload, Step, CreateStep
  <2> QED
    BY <1>3, <2>1, InsertUploadDoes, WentFollows, RepliedOver
<1>4. CASE DropDir(r)
  BY <1>4, DropDirDoes, RepliedOver
<1>5. CASE PartRow(r) \/ CreateTemp(r) \/ Receive(r) \/ Rename(r) \/ Upsert(r)
  <2>1. InFlight(r)
    BY <1>5, Inside DEF PartRow, CreateTemp, Receive, Rename, Upsert, Step, PartStep
  <2> QED
    BY <1>5, <2>1, PartRowDoes, CreateTempDoes, ReceiveDoes, RenameDoes, UpsertDoes,
       WentFollows, RepliedOver
<1>6. CASE CompleteRow(r)
  <2>1. InFlight(r)
    BY <1>6, Inside DEF CompleteRow, Step, CompleteStep
  <2> QED
    BY <1>6, <2>1, CompleteRowDoes, WentFollows, RepliedOver
<1>7. CASE ListParts(r) \/ OpenPart(r)
  <2>1. InFlight(r) /\ req[r].pc \in CompleteStep
    BY <1>7, Inside DEF ListParts, OpenPart, At, Step, CompleteStep
  <2>2. req[r].op = "complete"
    BY <2>1, CompleteHeld DEF TypeInv
  <2> QED
    BY <1>7, <2>1, <2>2, ListPartsDoes, OpenPartDoes, RepliedOver DEF Follows, SameRequest
<1>8. CASE Store(r)
  <2>1. InFlight(r) /\ req[r].pc \in CompleteStep
    BY <1>8, Inside DEF Store, At, Step, CompleteStep
  <2>2. req[r].op = "complete"
    BY <2>1, CompleteHeld DEF TypeInv
  <2>3. Others(r)
    BY <1>8, StoreDoes
  <2>4. CASE Replied(r, Failure)
    BY <2>3, <2>4, RepliedOver
  <2>5. CASE /\ req'[r].pc = "commit" /\ req'[r].op = "complete"
             /\ req'[r].upload = req[r].upload /\ req'[r].live = req[r].live
    BY <2>1, <2>2, <2>3, <2>5 DEF Follows
  <2> QED
    BY <1>8, <2>4, <2>5, StoreDoes
<1>9. CASE Commit(r)
  <2>1. InFlight(r)
    BY <1>9, Inside DEF Commit, Step, CompleteStep
  <2> QED
    BY <1>9, <2>1, CommitDoes, WentFollows
<1>10. CASE Rollback(r)
  BY <1>10, RollbackDoes, RepliedOver
<1>11. CASE AbortRow(r)
  <2>1. InFlight(r)
    BY <1>11, Inside DEF AbortRow, Step, AbortStep
  <2> QED
    BY <1>11, <2>1, AbortRowDoes, WentFollows, RepliedOver
<1>12. CASE RemoveFiles(r) \/ RemoveDir(r)
  <2>1. InFlight(r)
    BY <1>12, Inside DEF RemoveFiles, RemoveDir, Step, CloseStep
  <2> QED
    BY <1>12, <2>1, RemoveFilesDoes, RemoveDirDoes, WentFollows
<1>13. CASE DeleteUpload(r)
  BY <1>13, DeleteUploadDoes, RepliedOver
<1> QED
  BY <1>1, <1>2, <1>3, <1>4, <1>5, <1>6, <1>7, <1>8, <1>9, <1>10, <1>11, <1>12, <1>13
  DEF RequestStep

LEMMA AloneKept ==
    ASSUME Alone, NEW r \in Request, Others(r), Follows(r) \/ Over(r)
    PROVE  Alone'
<1>1. /\ \A s \in Request : s # r => req'[s] = req[s]
      /\ \A s \in Request : req'[s].live
  BY DEF Others, Alone, Follows, Over
<1>2. ASSUME NEW s \in Request, NEW u \in Upload, Using(s, u)'
      PROVE  /\ Using(s, u) /\ req'[s].op = req[s].op
             /\ req[s].op = "uploadPart" => req'[s].part = req[s].part
  <2>1. CASE s # r
    BY <1>1, <1>2, <2>1 DEF Using, InFlight
  <2>2. CASE s = r /\ Follows(r)
    BY <1>2, <2>2 DEF Using, InFlight, Follows
  <2>3. CASE s = r /\ Over(r)
    BY <1>2, <2>3 DEF Using, InFlight, Over
  <2> QED
    BY <2>1, <2>2, <2>3
<1>3. ASSUME NEW u \in Upload, NEW s \in Request, NEW t \in Request,
             Using(s, u)', Using(t, u)', s # t
      PROVE  /\ req'[s].op = "uploadPart" /\ req'[t].op = "uploadPart"
             /\ req'[s].part # req'[t].part
  <2>1. Using(s, u) /\ Using(t, u)
    BY <1>2, <1>3
  <2>2. req[s].op = "uploadPart" /\ req[t].op = "uploadPart" /\ req[s].part # req[t].part
    BY <1>3, <2>1 DEF Alone
  <2> QED
    BY <1>2, <1>3, <2>2
<1> QED
  BY <1>1, <1>3 DEF Alone

\* A request that begins finds nothing on its upload that it could disturb.
LEMMA AloneBegins ==
    ASSUME Alone, NEW r \in Request, Others(r), req'[r].live, NEW u \in Upload,
           req'[r].upload = u,
           \A s \in Request : Awaited(s, u) =>
               /\ req[s].op = "uploadPart" /\ req'[r].op = "uploadPart"
               /\ req[s].part # req'[r].part,
           req[r].pc = "idle"
    PROVE  Alone'
<1>1. /\ \A s \in Request : s # r => req'[s] = req[s]
      /\ \A s \in Request : req'[s].live
  BY DEF Others, Alone
<1>2. ASSUME NEW s \in Request, s # r, NEW v \in Upload, Using(s, v)'
      PROVE  /\ Using(s, v) /\ req'[s] = req[s]
             /\ v = u => /\ req[s].op = "uploadPart" /\ req'[r].op = "uploadPart"
                         /\ req[s].part # req'[r].part
  <2>1. req'[s] = req[s] /\ Using(s, v)
    BY <1>1, <1>2 DEF Using, InFlight
  <2>2. v = u => Awaited(s, u)
    BY <2>1 DEF Awaited, Using, Alone
  <2> QED
    BY <2>1, <2>2
<1>3. ASSUME NEW v \in Upload, NEW s \in Request, NEW t \in Request,
             Using(s, v)', Using(t, v)', s # t
      PROVE  /\ req'[s].op = "uploadPart" /\ req'[t].op = "uploadPart"
             /\ req'[s].part # req'[t].part
  <2>1. CASE s # r /\ t # r
    BY <1>2, <1>3, <2>1 DEF Alone
  <2>2. CASE s = r
    <3>1. v = u
      BY <1>3, <2>2 DEF Using
    <3> QED
      BY <1>2, <1>3, <2>2, <3>1
  <2>3. CASE t = r
    <3>1. v = u
      BY <1>3, <2>3 DEF Using
    <3> QED
      BY <1>2, <1>3, <2>3, <3>1
  <2> QED
    BY <2>1, <2>2, <2>3
<1> QED
  BY <1>1, <1>3 DEF Alone

LEMMA AloneInit == Init => Alone
<1> SUFFICES ASSUME Init PROVE Alone
  OBVIOUS
<1>1. \A r \in Request : req[r].live /\ req[r].pc = "idle"
  BY DEF Init, Idle
<1> QED
  BY <1>1, StepsApart DEF Alone, Using, InFlight

LEMMA AloneStep ==
    ASSUME Careful
    PROVE  TypeInv /\ Alone /\ [Next]_vars => Alone'
<1> SUFFICES ASSUME TypeInv, Alone, [Next]_vars PROVE Alone'
  OBVIOUS
<1>1. CASE UNCHANGED vars
  BY <1>1 DEF vars, Alone, Using, InFlight
<1>2. CASE Crash
  <2>1. \A r \in Request : req'[r].live /\ req'[r].pc = "idle"
    BY <1>2, CrashDoes DEF Idle
  <2> QED
    BY <2>1, StepsApart DEF Alone, Using, InFlight
<1>3. ASSUME NEW r \in Request, BeginCreate(r) \/ Finish(r)
      PROVE  Alone'
  <2>1. Others(r) /\ Over(r)
    BY <1>3, BeginCreateDoes, FinishDoes, StepsApart DEF Over
  <2> QED
    BY <2>1, AloneKept
<1>4. ASSUME NEW r \in Request, BeginUploadPart(r)
      PROVE  Alone'
  <2>1. PICK u \in Upload, p \in Part :
           MayUpload(u, p) /\ req'[r].upload = u /\ req'[r].part = p
    BY <1>4, BeginUploadPartDoes
  <2>2. /\ Others(r) /\ req'[r].live /\ req'[r].op = "uploadPart" /\ req[r].pc = "idle"
    BY <1>4, BeginUploadPartDoes
  <2>3. \A s \in Request : Awaited(s, u) => req[s].op = "uploadPart" /\ req[s].part # p
    BY <2>1 DEF MayUpload, Careful
  <2> QED
    BY <2>1, <2>2, <2>3, AloneBegins
<1>5. ASSUME NEW r \in Request, BeginComplete(r)
      PROVE  Alone'
  <2>1. PICK u \in Upload, want \in SomeParts :
           MayComplete(u, want) /\ req'[r].upload = u
    BY <1>5, BeginCompleteDoes
  <2>2. /\ Others(r) /\ req'[r].live /\ req[r].pc = "idle"
    BY <1>5, BeginCompleteDoes
  <2>3. \A s \in Request : ~Awaited(s, u)
    BY <2>1 DEF MayComplete, Careful
  <2> QED
    BY <2>1, <2>2, <2>3, AloneBegins
<1>6. ASSUME NEW r \in Request, BeginAbort(r)
      PROVE  Alone'
  <2>1. PICK u \in Upload : MayAbort(u) /\ req'[r].upload = u
    BY <1>6, BeginAbortDoes
  <2>2. /\ Others(r) /\ req'[r].live /\ req[r].pc = "idle"
    BY <1>6, BeginAbortDoes
  <2>3. \A s \in Request : ~Awaited(s, u)
    BY <2>1 DEF MayAbort, Careful
  <2> QED
    BY <2>1, <2>2, <2>3, AloneBegins
<1>7. ASSUME NEW r \in Request, RequestStep(r)
      PROVE  Alone'
  BY <1>7, RequestFollows, AloneKept DEF Careful
<1>8. \A r \in Request : ~Cancel(r)
  BY DEF Cancel, Careful
<1> QED
  BY <1>1, <1>2, <1>3, <1>4, <1>5, <1>6, <1>7, <1>8 DEF Next

LEMMA AloneSafe ==
    ASSUME Careful
    PROVE  Spec => []Alone
  BY AloneInit, AloneStep, TypeSafe, PTL DEF Spec

-----------------------------------------------------------------------------
(* Parts as they were acknowledged *)

\* Two requests on one upload are uploads of different parts.
LEMMA OneUser ==
    ASSUME TypeInv, Alone, NEW r \in Request, NEW s \in Request, r # s,
           req[r].pc \in Step \ CreateStep, req[s].pc \in Step \ CreateStep,
           req[r].upload = req[s].upload
    PROVE  /\ req[r].pc \in PartStep /\ req[s].pc \in PartStep
           /\ req[r].part # req[s].part
<1>1. ASSUME NEW t \in Request, req[t].pc \in Step \ CreateStep
      PROVE  /\ req[t].upload \in Upload /\ Using(t, req[t].upload)
             /\ req[t].op = "uploadPart" => req[t].pc \in PartStep
  <2>1. WellFormed(req[t]) /\ req[t].pc \in Step \ {"createCheck", "makeDir"}
    BY <1>1, StepsApart DEF TypeInv, RequestsTyped
  <2>2. /\ req[t].op # "create" /\ req[t].upload \in Upload
        /\ req[t].op = "uploadPart" => req[t].pc \in PartStep
    BY <1>1, <2>1 DEF WellFormed, Step
  <2> QED
    BY <1>1, <2>2 DEF Using, InFlight
<1>2. Using(r, req[r].upload) /\ Using(s, req[r].upload) /\ req[r].upload \in Upload
  BY <1>1
<1>3. req[r].op = "uploadPart" /\ req[s].op = "uploadPart" /\ req[r].part # req[s].part
  BY <1>2 DEF Alone
<1> QED
  BY <1>1, <1>3

\* Steps that change neither files nor what was answered for a part.
Calm(r) ==
    \/ BeginCreate(r) \/ BeginComplete(r) \/ BeginAbort(r) \/ Finish(r)
    \/ CreateCheck(r) \/ MakeDir(r) \/ InsertUpload(r) \/ DropDir(r)
    \/ PartRow(r) \/ CreateTemp(r) \/ Receive(r)
    \/ CompleteRow(r) \/ ListParts(r) \/ OpenPart(r) \/ Store(r) \/ Commit(r) \/ Rollback(r)
    \/ AbortRow(r) \/ RemoveDir(r) \/ DeleteUpload(r)

LEMMA CalmDoes ==
    ASSUME TypeInv, NEW r \in Request, Calm(r)
    PROVE  /\ TypeInv' /\ Others(r) /\ UNCHANGED <<files, acked>>
           /\ req'[r].pc \in PartStep =>
                  /\ req'[r].pc # "upsert" /\ req[r].pc \in PartStep
                  /\ SameWork(req[r], req'[r])
<1> DEFINE calm == /\ TypeInv' /\ Others(r) /\ UNCHANGED <<files, acked>>
                   /\ req'[r].pc \notin PartStep
<1>0. ASSUME NEW step \in Step \ PartStep, Went(r, step)
      PROVE  req'[r].pc \notin PartStep
  BY <1>0 DEF Went
<1>1. ASSUME NEW answers, Replied(r, answers)
      PROVE  req'[r].pc \notin PartStep
  BY <1>1, StepsApart DEF Replied, Step
<1>2. {"idle", "createCheck", "makeDir", "insertUpload", "dropDir", "completeRow", "listParts",
       "openPart", "store", "commit", "rollback", "abortRow", "removeFiles", "deleteUpload"}
        \cap PartStep = {}
  BY DEF PartStep
<1>3. CASE BeginCreate(r) \/ BeginComplete(r) \/ BeginAbort(r) \/ Finish(r)
  <2>1. calm
    BY <1>2, <1>3, BeginCreateDoes, BeginCompleteDoes, BeginAbortDoes, FinishDoes
    DEF staging
  <2> QED
    BY <2>1
<1>4. CASE CreateCheck(r) \/ MakeDir(r) \/ InsertUpload(r) \/ DropDir(r)
  <2>1. calm
    BY <1>1, <1>2, <1>4, CreateCheckDoes, MakeDirDoes, InsertUploadDoes, DropDirDoes
    DEF staging, Went
  <2> QED
    BY <2>1
<1>5. CASE PartRow(r) \/ CreateTemp(r) \/ Receive(r)
  <2>1. req[r].pc \in PartStep
    BY <1>5 DEF PartRow, CreateTemp, Receive, At, PartStep
  <2>2. /\ TypeInv' /\ Others(r) /\ UNCHANGED <<files, acked>>
        /\ \/ \E step \in {"createTemp", "receive", "rename"} : Went(r, step)
           \/ Replied(r, Failure)
    BY <1>5, PartRowDoes, CreateTempDoes, ReceiveDoes DEF staging
  <2> QED
    BY <1>1, <2>1, <2>2 DEF Went
<1>6. CASE CompleteRow(r) \/ ListParts(r) \/ OpenPart(r) \/ Store(r)
  <2>1. calm
    BY <1>1, <1>2, <1>6, CompleteRowDoes, ListPartsDoes, OpenPartDoes, StoreDoes
    DEF staging, Went
  <2> QED
    BY <2>1
<1>7. CASE Commit(r) \/ Rollback(r) \/ AbortRow(r)
  <2>1. calm
    BY <1>1, <1>2, <1>7, CommitDoes, RollbackDoes, AbortRowDoes DEF staging, Went
  <2> QED
    BY <2>1
<1>8. CASE RemoveDir(r) \/ DeleteUpload(r)
  <2>1. calm
    BY <1>1, <1>2, <1>8, RemoveDirDoes, DeleteUploadDoes DEF staging, Went
  <2> QED
    BY <2>1
<1> QED
  BY <1>3, <1>4, <1>5, <1>6, <1>7, <1>8 DEF Calm

LEMMA CarefulKinds ==
    ASSUME Careful, [Next]_vars
    PROVE  \/ UNCHANGED vars \/ Crash
           \/ \E r \in Request : \/ Calm(r) \/ BeginUploadPart(r) \/ Rename(r) \/ Upsert(r)
                                 \/ RemoveFiles(r)
<1>1. \A r \in Request : ~Cancel(r)
  BY DEF Cancel, Careful
<1> QED
  BY <1>1 DEF Next, RequestStep, Calm

\* Who renames and who answers is at a part of its own.
LEMMA PartOf ==
    ASSUME TypeInv, NEW r \in Request, Rename(r) \/ Upsert(r)
    PROVE  /\ req[r].pc \in PartStep /\ req[r].pc \in Step \ CreateStep
           /\ req[r].upload \in Upload /\ req[r].part \in Part
<1>1. req[r].pc \in PartStep
  BY DEF Rename, Upsert, At, PartStep
<1> QED
  BY <1>1, PartHeld, StepsApart DEF TypeInv, Step

LEMMA AckedFiledStep ==
    ASSUME Careful
    PROVE  TypeInv /\ Alone /\ ListedInv /\ [Next]_vars => AckedAreFiled'
<1> SUFFICES ASSUME TypeInv, Alone, ListedInv, [Next]_vars PROVE AckedAreFiled'
  OBVIOUS
<1>1. AckedAreFiled /\ PartsPending
  BY DEF ListedInv
<1>2. ASSUME UNCHANGED <<files, acked>> PROVE AckedAreFiled'
  BY <1>1, <1>2 DEF AckedAreFiled
<1>3. CASE UNCHANGED vars \/ Crash
  BY <1>2, <1>3, CrashDoes DEF vars, staging
<1>4. ASSUME NEW r \in Request, Calm(r)
      PROVE  AckedAreFiled'
  BY <1>2, <1>4, CalmDoes
<1>5. ASSUME NEW r \in Request, BeginUploadPart(r)
      PROVE  AckedAreFiled'
  <2>1. /\ files' = files
        /\ \A v \in Upload : DOMAIN acked'[v] \subseteq DOMAIN acked[v]
        /\ \A v \in Upload : \A q \in DOMAIN acked'[v] : acked'[v][q] = acked[v][q]
    BY <1>5, BeginUploadPartDoes DEF staging
  <2> QED
    BY <1>1, <2>1 DEF AckedAreFiled
<1>6. ASSUME NEW r \in Request, Rename(r)
      PROVE  AckedAreFiled'
  <2> DEFINE u == req[r].upload
             p == req[r].part
  <2>1. acked' = acked /\ (PartSet(r, files, files') \/ files' = files)
    BY <1>6, RenameDoes
  <2>2. p \notin DOMAIN acked[u]
    BY <1>1, <1>6, PartOf DEF PartsPending
  <2>3. CASE PartSet(r, files, files')
    <3>1. ASSUME NEW v \in Upload, NEW q \in DOMAIN acked[v] \cap DOMAIN files'[v]
          PROVE  q \in DOMAIN files[v] /\ files'[v][q] = files[v][q]
      BY <2>2, <2>3, <3>1 DEF PartSet
    <3> QED
      BY <1>1, <2>1, <3>1 DEF AckedAreFiled
  <2>4. CASE files' = files
    BY <1>2, <2>1, <2>4
  <2> QED
    BY <2>1, <2>3, <2>4
<1>7. ASSUME NEW r \in Request, Upsert(r)
      PROVE  AckedAreFiled'
  <2> DEFINE u == req[r].upload
             p == req[r].part
  <2>1. files' = files /\ (PartSet(r, acked, acked') \/ acked' = acked)
    BY <1>7, UpsertDoes
  <2>2. p \in DOMAIN files[u] => files[u][p] = req[r].body
    BY <1>1, <1>7, PartOf DEF PartsPending, Upsert, At
  <2>3. CASE PartSet(r, acked, acked')
    <3>1. ASSUME NEW v \in Upload, NEW q \in DOMAIN acked'[v] \cap DOMAIN files[v]
          PROVE  files[v][q] = acked'[v][q]
      <4>1. CASE v = u /\ q = p
        BY <2>2, <2>3, <3>1, <4>1 DEF PartSet
      <4>2. CASE ~(v = u /\ q = p)
        <5>1. q \in DOMAIN acked[v] /\ acked'[v][q] = acked[v][q]
          BY <2>3, <3>1, <4>2 DEF PartSet
        <5> QED
          BY <1>1, <3>1, <5>1 DEF AckedAreFiled
      <4> QED
        BY <4>1, <4>2
    <3> QED
      BY <2>1, <3>1 DEF AckedAreFiled
  <2>4. CASE acked' = acked
    BY <1>2, <2>1, <2>4
  <2> QED
    BY <2>1, <2>3, <2>4
<1>8. ASSUME NEW r \in Request, RemoveFiles(r)
      PROVE  AckedAreFiled'
  <2>1. /\ acked' = acked
        /\ \A v \in Upload : files'[v] = files[v] \/ files'[v] = Nothing
    BY <1>8, RemoveFilesDoes
  <2>2. DOMAIN Nothing = {}
    BY NoParts
  <2> QED
    BY <1>1, <2>1, <2>2 DEF AckedAreFiled
<1> QED
  BY <1>3, <1>4, <1>5, <1>6, <1>7, <1>8, CarefulKinds

\* A request whose part is its own, at a step of another one.
LEMMA PendingKept ==
    ASSUME PartsPending, NEW s \in Request, req'[s].pc \in PartStep,
           req[s].pc \in PartStep, SameWork(req[s], req'[s]),
           req'[s].pc = "upsert" => req[s].pc = "upsert",
           req[s].part \in DOMAIN acked'[req[s].upload] =>
               req[s].part \in DOMAIN acked[req[s].upload],
           req[s].part \in DOMAIN files'[req[s].upload] =>
               /\ req[s].part \in DOMAIN files[req[s].upload]
               /\ files'[req[s].upload][req[s].part] = files[req[s].upload][req[s].part]
    PROVE  /\ req'[s].part \notin DOMAIN acked'[req'[s].upload]
           /\ req'[s].pc = "upsert" /\ req'[s].part \in DOMAIN files'[req'[s].upload] =>
                  files'[req'[s].upload][req'[s].part] = req'[s].body
<1>1. /\ req'[s].part = req[s].part /\ req'[s].upload = req[s].upload
      /\ req'[s].body = req[s].body
  BY DEF SameWork, SameRequest
<1>2. /\ req[s].part \notin DOMAIN acked[req[s].upload]
      /\ req[s].pc = "upsert" /\ req[s].part \in DOMAIN files[req[s].upload] =>
             files[req[s].upload][req[s].part] = req[s].body
  BY DEF PartsPending
<1> QED
  BY <1>1, <1>2

LEMMA PendingStep ==
    ASSUME Careful
    PROVE  TypeInv /\ Alone /\ ListedInv /\ [Next]_vars => PartsPending'
<1> SUFFICES ASSUME TypeInv, Alone, ListedInv, [Next]_vars PROVE PartsPending'
  OBVIOUS
<1> DEFINE Fine(s) == /\ req'[s].part \notin DOMAIN acked'[req'[s].upload]
                      /\ req'[s].pc = "upsert" /\ req'[s].part \in DOMAIN files'[req'[s].upload] =>
                             files'[req'[s].upload][req'[s].part] = req'[s].body
<1>0. PartsPending
  BY DEF ListedInv
<1>1. ASSUME \A s \in Request : req'[s].pc \in PartStep => Fine(s)
      PROVE  PartsPending'
  BY <1>1 DEF PartsPending
<1>2. \A s \in Request : SameWork(req[s], req[s])
  BY DEF SameWork, SameRequest
<1>3. CASE UNCHANGED vars
  BY <1>0, <1>3 DEF PartsPending, vars, staging
<1>4. CASE Crash
  <2>1. \A s \in Request : req'[s].pc \notin PartStep
    BY <1>4, CrashDoes, StepsApart DEF Idle, Step
  <2> QED
    BY <1>1, <2>1
<1>5. ASSUME NEW r \in Request, Calm(r)
      PROVE  PartsPending'
  <2>1. Others(r) /\ files' = files /\ acked' = acked
    BY <1>5, CalmDoes
  <2>2. ASSUME NEW s \in Request, req'[s].pc \in PartStep
        PROVE  Fine(s)
    <3>1. /\ req[s].pc \in PartStep /\ SameWork(req[s], req'[s])
          /\ req'[s].pc = "upsert" => req[s].pc = "upsert"
      <4>1. CASE s = r
        BY <1>5, <2>2, <4>1, CalmDoes
      <4>2. CASE s # r
        BY <1>2, <2>1, <2>2, <4>2 DEF Others
      <4> QED
        BY <4>1, <4>2
    <3> QED
      BY <1>0, <2>1, <2>2, <3>1, PendingKept
  <2> QED
    BY <1>1, <2>2
<1>6. ASSUME NEW r \in Request, BeginUploadPart(r)
      PROVE  PartsPending'
  <2>1. /\ Others(r) /\ files' = files /\ req'[r].pc = "partRow"
        /\ \A v \in Upload : DOMAIN acked'[v] \subseteq DOMAIN acked[v]
        /\ req'[r].upload \in Upload /\ req'[r].part \notin DOMAIN acked'[req'[r].upload]
    BY <1>6, BeginUploadPartDoes DEF staging
  <2>2. ASSUME NEW s \in Request, req'[s].pc \in PartStep
        PROVE  Fine(s)
    <3>1. CASE s = r
      BY <2>1, <3>1
    <3>2. CASE s # r
      <4>1. req'[s] = req[s] /\ req[s].upload \in Upload
        BY <2>1, <2>2, <3>2, PartHeld DEF Others, TypeInv
      <4> QED
        BY <1>0, <1>2, <2>1, <2>2, <4>1, PendingKept
    <3> QED
      BY <3>1, <3>2
  <2> QED
    BY <1>1, <2>2
<1>7. ASSUME NEW r \in Request, Rename(r)
      PROVE  PartsPending'
  <2>1. Others(r) /\ acked' = acked
    BY <1>7, RenameDoes
  <2>2. \/ Went(r, "upsert") /\ PartSet(r, files, files')
        \/ req'[r].pc = "replied" /\ files' = files
    BY <1>7, RenameDoes DEF Replied
  <2>3. ASSUME NEW s \in Request, req'[s].pc \in PartStep
        PROVE  Fine(s)
    <3>1. CASE s = r
      <4>1. Went(r, "upsert") /\ PartSet(r, files, files')
        BY <2>2, <2>3, <3>1, StepsApart DEF Step
      <4>2. /\ req'[r].upload = req[r].upload /\ req'[r].part = req[r].part
            /\ req'[r].body = req[r].body
        BY <4>1 DEF Went, SameWork, SameRequest
      <4>3. req[r].part \notin DOMAIN acked[req[r].upload]
        BY <1>0, <1>7, PartOf DEF PartsPending
      <4> QED
        BY <2>1, <3>1, <4>1, <4>2, <4>3 DEF PartSet
    <3>2. CASE s # r
      <4>1. req'[s] = req[s] /\ req[s].upload \in Upload
        BY <2>1, <2>3, <3>2, PartHeld DEF Others, TypeInv
      <4>2. req[s].pc \in PartStep /\ req[s].pc \in Step \ CreateStep
        BY <2>3, <4>1, StepsApart DEF Step
      <4>3. req[s].upload = req[r].upload => req[s].part # req[r].part
        BY <1>7, <3>2, <4>2, PartOf, OneUser
      <4>4. req[s].part \in DOMAIN files'[req[s].upload] =>
                /\ req[s].part \in DOMAIN files[req[s].upload]
                /\ files'[req[s].upload][req[s].part] = files[req[s].upload][req[s].part]
        BY <2>2, <4>1, <4>3 DEF PartSet
      <4> QED
        BY <1>0, <1>2, <2>1, <2>3, <4>1, <4>2, <4>4, PendingKept
    <3> QED
      BY <3>1, <3>2
  <2> QED
    BY <1>1, <2>3
<1>8. ASSUME NEW r \in Request, Upsert(r)
      PROVE  PartsPending'
  <2>1. Others(r) /\ files' = files /\ req'[r].pc = "replied"
    BY <1>8, UpsertDoes DEF Replied
  <2>2. PartSet(r, acked, acked') \/ acked' = acked
    BY <1>8, UpsertDoes
  <2>3. ASSUME NEW s \in Request, req'[s].pc \in PartStep
        PROVE  Fine(s)
    <3>1. s # r
      BY <2>1, <2>3, StepsApart DEF Step
    <3>2. req'[s] = req[s] /\ req[s].upload \in Upload
      BY <2>1, <2>3, <3>1, PartHeld DEF Others, TypeInv
    <3>3. req[s].pc \in PartStep /\ req[s].pc \in Step \ CreateStep
      BY <2>3, <3>2, StepsApart DEF Step
    <3>4. req[s].upload = req[r].upload => req[s].part # req[r].part
      BY <1>8, <3>1, <3>3, PartOf, OneUser
    <3>5. req[s].part \in DOMAIN acked'[req[s].upload] =>
              req[s].part \in DOMAIN acked[req[s].upload]
      BY <2>2, <3>2, <3>4 DEF PartSet
    <3> QED
      BY <1>0, <1>2, <2>1, <2>3, <3>2, <3>3, <3>5, PendingKept
  <2> QED
    BY <1>1, <2>3
<1>9. ASSUME NEW r \in Request, RemoveFiles(r)
      PROVE  PartsPending'
  <2>1. /\ Others(r) /\ acked' = acked /\ req'[r].pc = "removeDir"
        /\ \A v \in Upload : files'[v] = files[v] \/ files'[v] = Nothing
    BY <1>9, RemoveFilesDoes DEF Went
  <2>2. ASSUME NEW s \in Request, req'[s].pc \in PartStep
        PROVE  Fine(s)
    <3>1. s # r
      BY <2>1, <2>2 DEF PartStep
    <3>2. req'[s] = req[s] /\ req[s].upload \in Upload
      BY <2>1, <2>2, <3>1, PartHeld DEF Others, TypeInv
    <3>3. req[s].part \in DOMAIN files'[req[s].upload] =>
              /\ req[s].part \in DOMAIN files[req[s].upload]
              /\ files'[req[s].upload][req[s].part] = files[req[s].upload][req[s].part]
      BY <2>1, <3>2, NoParts
    <3> QED
      BY <1>0, <1>2, <2>1, <2>2, <3>2, <3>3, PendingKept
  <2> QED
    BY <1>1, <2>2
<1> QED
  BY <1>3, <1>4, <1>5, <1>6, <1>7, <1>8, <1>9, CarefulKinds

ListStep == {"completeRow", "listParts", "openPart", "store"}

LEMMA ListedKept ==
    ASSUME PartsListed, NEW r \in Request, Others(r),
           \A s \in Request : s # r /\ req[s].pc \in ListStep =>
               acked'[req[s].upload] = acked[req[s].upload],
           Listing(req[r])'
    PROVE  PartsListed'
<1>1. ASSUME NEW s \in Request, s # r
      PROVE  Listing(req[s])'
  <2>1. req'[s] = req[s] /\ Listing(req[s])
    BY <1>1 DEF Others, PartsListed
  <2> QED
    BY <1>1, <2>1 DEF Listing, ListStep
<1> QED
  BY <1>1 DEF PartsListed

LEMMA NotListing ==
    ASSUME NEW r \in Request, req'[r].pc \notin ListStep
    PROVE  Listing(req[r])'
  BY DEF Listing, ListStep

\* Steps that take a request to none of these.
Elsewhere(r) ==
    \/ BeginCreate(r) \/ BeginUploadPart(r) \/ BeginAbort(r) \/ Finish(r)
    \/ CreateCheck(r) \/ MakeDir(r) \/ InsertUpload(r) \/ DropDir(r)
    \/ PartRow(r) \/ CreateTemp(r) \/ Receive(r) \/ Rename(r) \/ Upsert(r)
    \/ Store(r) \/ Commit(r) \/ Rollback(r)
    \/ AbortRow(r) \/ RemoveFiles(r) \/ RemoveDir(r) \/ DeleteUpload(r)

LEMMA ElsewhereDoes ==
    ASSUME TypeInv, NEW r \in Request, Elsewhere(r)
    PROVE  Others(r) /\ req'[r].pc \notin ListStep
<1>1. CASE BeginCreate(r) \/ BeginUploadPart(r) \/ BeginAbort(r) \/ Finish(r)
  BY <1>1, BeginCreateDoes, BeginUploadPartDoes, BeginAbortDoes, FinishDoes DEF ListStep
<1>2. CASE CreateCheck(r) \/ MakeDir(r) \/ InsertUpload(r) \/ DropDir(r)
  BY <1>2, CreateCheckDoes, MakeDirDoes, InsertUploadDoes, DropDirDoes
  DEF ListStep, Went, Replied
<1>3. CASE PartRow(r) \/ CreateTemp(r) \/ Receive(r) \/ Rename(r) \/ Upsert(r)
  BY <1>3, PartRowDoes, CreateTempDoes, ReceiveDoes, RenameDoes, UpsertDoes
  DEF ListStep, Went, Replied
<1>4. CASE Store(r) \/ Commit(r) \/ Rollback(r) \/ AbortRow(r)
  BY <1>4, StoreDoes, CommitDoes, RollbackDoes, AbortRowDoes DEF ListStep, Went, Replied
<1>5. CASE RemoveFiles(r) \/ RemoveDir(r) \/ DeleteUpload(r)
  BY <1>5, RemoveFilesDoes, RemoveDirDoes, DeleteUploadDoes DEF ListStep, Went, Replied
<1> QED
  BY <1>1, <1>2, <1>3, <1>4, <1>5 DEF Elsewhere

\* What was answered for the parts of an upload stays while they are put together.
LEMMA AckedStays ==
    ASSUME Careful, TypeInv, Alone, NEW r \in Request, NEW s \in Request, s # r,
           req[s].pc \in ListStep,
           Calm(r) \/ BeginUploadPart(r) \/ Rename(r) \/ Upsert(r) \/ RemoveFiles(r)
    PROVE  acked'[req[s].upload] = acked[req[s].upload]
<1>1. /\ req[s].pc \in CompleteStep /\ req[s].pc \in Step \ CreateStep /\ req[s].pc \notin PartStep
      /\ req[s].upload \in Upload /\ req[s].op = "complete"
  <2>1. req[s].pc \in CompleteStep
    BY DEF ListStep, CompleteStep
  <2> QED
    BY <2>1, CompleteHeld, StepsApart DEF Step, TypeInv
<1>2. CASE Calm(r)
  BY <1>2, CalmDoes
<1>3. CASE Rename(r) \/ RemoveFiles(r)
  BY <1>3, RenameDoes, RemoveFilesDoes
<1>4. CASE Upsert(r)
  <2>1. req[s].upload # req[r].upload
    BY <1>1, <1>4, PartOf, OneUser
  <2> QED
    BY <1>1, <1>4, <2>1, UpsertDoes DEF PartSet
<1>5. CASE BeginUploadPart(r)
  <2>1. PICK u \in Upload, p \in Part :
           MayUpload(u, p) /\ \A v \in Upload : v # u => acked'[v] = acked[v]
    BY <1>5, BeginUploadPartDoes
  <2>2. ASSUME req[s].upload = u PROVE FALSE
    <3>1. Awaited(s, u)
      BY <1>1, <2>2 DEF Awaited, InFlight, Alone
    <3> QED
      BY <1>1, <2>1, <3>1 DEF MayUpload, Careful
  <2> QED
    BY <1>1, <2>1, <2>2
<1> QED
  BY <1>2, <1>3, <1>4, <1>5

\* The bodies listed, of the parts that have been opened.
LEMMA Opened ==
    ASSUME NEW want \in SomeParts, NEW todo
    PROVE  LET v == Restrict(want, DOMAIN want \ todo)
           IN  /\ v \in SomeParts /\ DOMAIN v = DOMAIN want \ todo
               /\ \A p \in DOMAIN v : v[p] = want[p]
               /\ todo = {} => v = want
<1>1. want = [p \in DOMAIN want |-> want[p]]
  BY PartsAre
<1>2. todo = {} => Restrict(want, DOMAIN want \ todo) = want
  BY <1>1 DEF Restrict
<1> QED
  BY <1>2, PartForgotten

LEMMA ListedListParts ==
    ASSUME TypeInv, ListedInv, NEW r \in Request, ListParts(r)
    PROVE  Listing(req[r])'
<1>1. acked' = acked
  BY ListPartsDoes
<1>2. CASE Replied(r, Failure)
  BY <1>2, NotListing DEF Replied, ListStep
<1>3. CASE /\ SameRequest(req[r], req'[r])
           /\ req'[r].pc \in {"openPart", "store"}
           /\ req'[r].pc = "store" => req'[r].todo = {}
           /\ req'[r].todo = DOMAIN req[r].want
           /\ req'[r].stream = <<>> /\ req'[r].total = 0
  <2> DEFINE want == req[r].want
             v == Restrict(want, DOMAIN want \ DOMAIN want)
  <2>1. req[r].pc \in CompleteStep /\ req[r].pc = "listParts"
    BY StepsApart DEF ListParts, At
  <2>2. want \in SomeParts
    BY <2>1, CompleteHeld DEF TypeInv
  <2>3. v \in SomeParts /\ DOMAIN v = {}
    <3> HIDE DEF want
    <3>1. v \in SomeParts /\ DOMAIN v = DOMAIN want \ DOMAIN want
      BY <2>2, Opened
    <3> HIDE DEF v
    <3> QED
      BY <3>1
  <2> HIDE DEF v
  <2>4. req'[r].want = want /\ req'[r].upload = req[r].upload
    BY <1>3 DEF SameRequest
  <2>5. Gathered(req'[r], v)
    BY <1>3, <2>3, <2>4, GatherNothing
  <2>6. /\ DOMAIN want \subseteq DOMAIN acked[req[r].upload]
        /\ \A p \in DOMAIN want : want[p] = acked[req[r].upload][p]
    BY <2>1 DEF ListedInv, PartsListed, Listing
  <2> QED
    BY <1>1, <1>3, <2>4, <2>5, <2>6 DEF Listing, v
<1> QED
  BY <1>2, <1>3, ListPartsDoes

\* The file of a part that was acknowledged holds what the part is listed with.
LEMMA ListedOpenPart ==
    ASSUME TypeInv, ListedInv, NEW r \in Request, OpenPart(r)
    PROVE  Listing(req[r])'
<1>1. acked' = acked
  BY OpenPartDoes
<1>2. CASE Replied(r, Failure)
  BY <1>2, NotListing DEF Replied, ListStep
<1>3. ASSUME SameRequest(req[r], req'[r]), req'[r].pc \in {"openPart", "store"},
             req'[r].pc = "store" => req'[r].todo = {},
             NEW p \in req[r].todo \cap DOMAIN files[req[r].upload],
             \A o \in req[r].todo : p <= o,
             req'[r].todo = req[r].todo \ {p},
             req'[r].stream = req[r].stream \o files[req[r].upload][p],
             req'[r].total = req[r].total + Len(req[r].want[p])
      PROVE  Listing(req[r])'
  <2> DEFINE q == req[r]
             b == files[q.upload][p]
             w == Restrict(q.want, DOMAIN q.want \ q.todo)
             v == Restrict(q.want, DOMAIN q.want \ (q.todo \ {p}))
  <2>1. /\ q.upload \in Upload /\ q.want \in SomeParts /\ q.todo \subseteq DOMAIN q.want
        /\ q.pc = "openPart"
    BY StepsApart, CompleteHeld DEF TypeInv, OpenPart, At
  <2>2. /\ DOMAIN q.want \subseteq DOMAIN acked[q.upload]
        /\ \A o \in DOMAIN q.want : q.want[o] = acked[q.upload][o]
        /\ Gathered(q, w)
    BY <2>1 DEF ListedInv, PartsListed, Listing
  <2>3. b = q.want[p]
    BY <1>3, <2>1, <2>2 DEF ListedInv, AckedAreFiled
  <2>4. q.want[p] \in Bodies[p]
    BY <1>3, <2>1, PartsAre
  <2>5. /\ DOMAIN w = DOMAIN q.want \ q.todo /\ \A o \in DOMAIN w : w[o] = q.want[o]
    BY <2>1, Opened
  <2>6. /\ v \in SomeParts /\ DOMAIN v = DOMAIN q.want \ (q.todo \ {p})
        /\ \A o \in DOMAIN v : v[o] = q.want[o]
    BY <2>1, Opened
  <2> HIDE DEF v, w, b
  <2>7. /\ DOMAIN v = DOMAIN w \cup {p} /\ v[p] = b
        /\ \A o \in DOMAIN w : v[o] = w[o]
    BY <1>3, <2>1, <2>3, <2>5, <2>6
  <2>8. /\ req'[r].want = q.want /\ req'[r].upload = q.upload
        /\ req'[r].todo = q.todo \ {p}
        /\ req'[r].stream = q.stream \o b /\ req'[r].total = q.total + Len(q.want[p])
    BY <1>3 DEF SameRequest, b
  <2>9. p \in q.todo /\ (\A o \in q.todo : p <= o) /\ b \in Bodies[p] /\ Len(b) = Len(q.want[p])
    BY <1>3, <2>3, <2>4
  <2>10. Gathered(req'[r], v)
    <3> HIDE DEF q
    <3> QED
      BY <2>1, <2>2, <2>6, <2>7, <2>8, <2>9, GatherNext
  <2> QED
    BY <1>1, <1>3, <2>2, <2>8, <2>10 DEF Listing, v
<1> QED
  BY <1>2, <1>3, OpenPartDoes

LEMMA ListedStep ==
    ASSUME Careful
    PROVE  TypeInv /\ Alone /\ ListedInv /\ [Next]_vars => PartsListed'
<1> SUFFICES ASSUME TypeInv, Alone, ListedInv, [Next]_vars PROVE PartsListed'
  OBVIOUS
<1>0. PartsListed
  BY DEF ListedInv
<1>1. CASE UNCHANGED vars
  BY <1>0, <1>1 DEF PartsListed, Listing, vars
<1>2. CASE Crash
  <2>1. \A s \in Request : req'[s].pc \notin ListStep
    BY <1>2, CrashDoes DEF Idle, ListStep
  <2> QED
    BY <2>1, NotListing DEF PartsListed
<1>3. ASSUME NEW r \in Request,
             Calm(r) \/ BeginUploadPart(r) \/ Rename(r) \/ Upsert(r) \/ RemoveFiles(r),
             Others(r), Listing(req[r])'
      PROVE  PartsListed'
  <2>1. \A s \in Request : s # r /\ req[s].pc \in ListStep =>
            acked'[req[s].upload] = acked[req[s].upload]
    BY <1>3, AckedStays
  <2> QED
    BY <1>0, <1>3, <2>1, ListedKept
<1>4. ASSUME NEW r \in Request, Elsewhere(r)
      PROVE  PartsListed'
  <2>1. Calm(r) \/ BeginUploadPart(r) \/ Rename(r) \/ Upsert(r) \/ RemoveFiles(r)
    BY <1>4 DEF Elsewhere, Calm
  <2> QED
    BY <1>3, <1>4, <2>1, ElsewhereDoes, NotListing
<1>5. ASSUME NEW r \in Request, BeginComplete(r)
      PROVE  PartsListed'
  <2>1. PICK u \in Upload, want \in SomeParts :
           MayComplete(u, want) /\ req'[r].upload = u /\ req'[r].want = want
    BY <1>5, BeginCompleteDoes
  <2>2. Others(r) /\ acked' = acked /\ req'[r].pc = "completeRow"
    BY <1>5, BeginCompleteDoes
  <2>3. Listing(req[r])'
    BY <2>1, <2>2 DEF Listing, MayComplete, Careful
  <2>4. Calm(r)
    BY <1>5 DEF Calm
  <2> QED
    BY <1>3, <2>2, <2>3, <2>4
<1>6. ASSUME NEW r \in Request, CompleteRow(r)
      PROVE  PartsListed'
  <2>1. Others(r) /\ acked' = acked
    BY <1>6, CompleteRowDoes
  <2>2. Listing(req[r])'
    <3>1. CASE Went(r, "listParts")
      <4>1. /\ req'[r].want = req[r].want /\ req'[r].upload = req[r].upload
            /\ req'[r].pc = "listParts"
        BY <3>1 DEF Went, SameWork, SameRequest
      <4>2. req[r].pc = "completeRow"
        BY <1>6 DEF CompleteRow, At
      <4> QED
        BY <1>0, <2>1, <4>1, <4>2 DEF PartsListed, Listing
    <3>2. CASE Replied(r, Failure)
      BY <3>2, NotListing DEF Replied, ListStep
    <3> QED
      BY <1>6, <3>1, <3>2, CompleteRowDoes
  <2>3. Calm(r)
    BY <1>6 DEF Calm
  <2> QED
    BY <1>3, <2>1, <2>2, <2>3
<1>7. ASSUME NEW r \in Request, ListParts(r) \/ OpenPart(r)
      PROVE  PartsListed'
  <2>1. Others(r) /\ Listing(req[r])'
    BY <1>7, ListPartsDoes, OpenPartDoes, ListedListParts, ListedOpenPart
  <2>2. Calm(r)
    BY <1>7 DEF Calm
  <2> QED
    BY <1>3, <2>1, <2>2
<1>8. \A r \in Request : Calm(r) \/ BeginUploadPart(r) \/ Rename(r) \/ Upsert(r) \/ RemoveFiles(r)
         => Elsewhere(r) \/ BeginComplete(r) \/ CompleteRow(r) \/ ListParts(r) \/ OpenPart(r)
  BY DEF Calm, Elsewhere
<1> QED
  BY <1>1, <1>2, <1>4, <1>5, <1>6, <1>7, <1>8, CarefulKinds

LEMMA SentKept ==
    ASSUME SentAsListed, NEW r \in Request, Others(r), UNCHANGED <<content, nextMessage>>,
           Sent(req'[r]) => Sent(req[r]) /\ SameRequest(req[r], req'[r])
    PROVE  SentAsListed'
<1>1. ASSUME NEW s \in Request, Sent(req'[s])
      PROVE  Sent(req[s]) /\ req'[s].msg = req[s].msg /\ req'[s].want = req[s].want
  <2>1. CASE s = r
    BY <1>1, <2>1 DEF SameRequest
  <2>2. CASE s # r
    <3>1. req'[s] = req[s]
      BY <2>2 DEF Others
    <3> QED
      BY <1>1, <3>1
  <2> QED
    BY <2>1, <2>2
<1>2. ASSUME NEW s \in Request, Sent(req'[s])
      PROVE  /\ req'[s].msg \in Message /\ req'[s].msg < nextMessage'
             /\ content'[req'[s].msg] = Join(req'[s].want)
  BY <1>1, <1>2 DEF SentAsListed
<1> QED
  BY <1>2 DEF SentAsListed

\* Steps that leave a request without a message, or with the one it has.
Unsent(r) ==
    \/ BeginCreate(r) \/ BeginUploadPart(r) \/ BeginComplete(r) \/ BeginAbort(r) \/ Finish(r)
    \/ CreateCheck(r) \/ MakeDir(r) \/ InsertUpload(r) \/ DropDir(r)
    \/ PartRow(r) \/ CreateTemp(r) \/ Receive(r) \/ Rename(r) \/ Upsert(r)
    \/ CompleteRow(r) \/ ListParts(r) \/ OpenPart(r) \/ Commit(r) \/ Rollback(r)
    \/ AbortRow(r) \/ RemoveFiles(r) \/ RemoveDir(r) \/ DeleteUpload(r)

LEMMA UnsentDoes ==
    ASSUME TypeInv, NEW r \in Request, Unsent(r)
    PROVE  /\ Others(r) /\ UNCHANGED <<content, nextMessage>>
           /\ Sent(req'[r]) => Sent(req[r]) /\ SameRequest(req[r], req'[r])
<1>0. WellFormed(req[r])
  BY DEF TypeInv, RequestsTyped
<1>1. ASSUME req'[r].pc \notin {"commit", "rollback", "replied"} \cup CloseStep
      PROVE  ~Sent(req'[r])
  BY <1>1 DEF Sent
<1>2. ASSUME Replied(r, Failure)
      PROVE  ~Sent(req'[r])
  BY <1>2, StepsApart DEF Sent, Replied, Failure, Step
<1>3. ASSUME NEW step \in Step, Went(r, step), Sent(req'[r]),
             req[r].pc \in {"commit", "rollback"} \cup CloseStep
      PROVE  Sent(req[r]) /\ SameRequest(req[r], req'[r])
  BY <1>3 DEF Went, SameWork, SameRequest, Sent
<1>4. CASE BeginCreate(r) \/ BeginUploadPart(r) \/ BeginComplete(r) \/ BeginAbort(r) \/ Finish(r)
  BY <1>1, <1>4, BeginCreateDoes, BeginUploadPartDoes, BeginCompleteDoes, BeginAbortDoes,
     FinishDoes
  DEF stored, CloseStep
<1>5. CASE CreateCheck(r) \/ MakeDir(r) \/ DropDir(r)
  BY <1>1, <1>2, <1>5, CreateCheckDoes, MakeDirDoes, DropDirDoes DEF stored, CloseStep, Went
<1>6. CASE InsertUpload(r)
  <2>1. req[r].op = "create"
    BY <1>0, <1>6 DEF WellFormed, CreateStep, InsertUpload, At
  <2>2. ~Sent(req'[r])
    BY <1>1, <1>6, <2>1, InsertUploadDoes DEF Sent, Replied, SameRequest, CloseStep, Went
  <2> QED
    BY <1>6, <2>2, InsertUploadDoes DEF stored
<1>7. CASE PartRow(r) \/ CreateTemp(r) \/ Receive(r) \/ Rename(r)
  BY <1>1, <1>2, <1>7, PartRowDoes, CreateTempDoes, ReceiveDoes, RenameDoes
  DEF stored, CloseStep, Went
<1>8. CASE Upsert(r)
  <2>1. req[r].op = "uploadPart"
    BY <1>0, <1>8 DEF WellFormed, PartStep, Upsert, At
  <2>2. req'[r].op = "uploadPart" /\ Others(r) /\ UNCHANGED stored
    BY <1>8, <2>1, UpsertDoes DEF Replied, SameRequest
  <2> QED
    BY <2>2 DEF Sent, stored
<1>9. CASE CompleteRow(r) \/ ListParts(r) \/ OpenPart(r)
  BY <1>1, <1>2, <1>9, CompleteRowDoes, ListPartsDoes, OpenPartDoes
  DEF stored, CloseStep, Went
<1>10. CASE Commit(r)
  <2>1. req[r].pc = "commit" /\ req[r].op = "complete"
    BY <1>0, <1>10 DEF WellFormed, CompleteStep, Commit, At
  <2>2. SameRequest(req[r], req'[r])
    BY <1>10, CommitDoes DEF Went, SameWork
  <2> QED
    BY <1>10, <2>1, <2>2, CommitDoes DEF Sent
<1>11. CASE Rollback(r)
  BY <1>2, <1>11, RollbackDoes
<1>12. CASE AbortRow(r)
  <2>1. req[r].op = "abort"
    BY <1>0, <1>12 DEF WellFormed, AbortStep, AbortRow, At
  <2>2. req'[r].op = "abort" /\ Others(r) /\ UNCHANGED stored
    BY <1>12, <2>1, AbortRowDoes DEF Went, SameWork, SameRequest, Replied
  <2> QED
    BY <2>2 DEF Sent, stored
<1>13. CASE RemoveFiles(r) \/ RemoveDir(r)
  <2>1. req[r].pc \in CloseStep
    BY <1>13 DEF RemoveFiles, RemoveDir, At, CloseStep
  <2> QED
    BY <1>3, <1>13, <2>1, RemoveFilesDoes, RemoveDirDoes DEF stored, Step, CloseStep
<1>14. CASE DeleteUpload(r)
  <2>1. req[r].pc \in CloseStep
    BY <1>14 DEF DeleteUpload, At, CloseStep
  <2>2. SameRequest(req[r], req'[r])
    BY <1>14, DeleteUploadDoes DEF Replied
  <2> QED
    BY <1>14, <2>1, <2>2, DeleteUploadDoes DEF Sent, stored, SameRequest
<1> QED
  BY <1>4, <1>5, <1>6, <1>7, <1>8, <1>9, <1>10, <1>11, <1>12, <1>13, <1>14 DEF Unsent

LEMMA SentStore ==
    ASSUME TypeInv, ListedInv, NEW r \in Request, Store(r)
    PROVE  SentAsListed'
<1>0. SentAsListed
  BY DEF ListedInv
<1>1. Others(r) /\ req[r].pc = "store" /\ nextMessage \in Nat /\ Message \subseteq Nat
  <2>1. nextMessage \in Nat /\ Message \subseteq Nat
    BY BoundAssumption DEF TypeInv, StoredTyped, Message
  <2> QED
    BY <2>1, StoreDoes DEF Store, At
<1>2. Replied(r, Failure) => ~Sent(req'[r])
  BY StepsApart DEF Sent, Replied, Failure, Step
<1>3. CASE Replied(r, Failure) /\ UNCHANGED <<content, nextMessage>>
  BY <1>0, <1>1, <1>2, <1>3, SentKept
<1>4. CASE /\ nextMessage \in Message /\ nextMessage' = nextMessage + 1
           /\ content' = [content EXCEPT ![nextMessage] =
                              SubSeq(req[r].stream, 1, req[r].total)]
           /\ \/ /\ req'[r].pc = "commit" /\ req'[r].msg = nextMessage
                 /\ req'[r].want = req[r].want
              \/ Replied(r, Failure)
  <2> DEFINE want == req[r].want
  <2>1. SubSeq(req[r].stream, 1, req[r].total) = Join(want)
    <3>1. Gathered(req[r], Restrict(want, DOMAIN want \ req[r].todo)) /\ req[r].todo = {}
      BY <1>1 DEF ListedInv, PartsListed, Listing
    <3>2. want \in SomeParts
      BY <1>1, StepsApart, CompleteHeld DEF TypeInv
    <3>3. Restrict(want, DOMAIN want \ req[r].todo) = want
      BY <3>1, <3>2, Opened
    <3> QED
      BY <3>1, <3>3, AllSent
  <2>2. /\ content'[nextMessage] = Join(want)
        /\ \A m \in Message : m # nextMessage => content'[m] = content[m]
    BY <1>4, <2>1 DEF TypeInv, StoredTyped
  <2>3. ASSUME NEW s \in Request, Sent(req'[s])
        PROVE  /\ req'[s].msg \in Message /\ req'[s].msg < nextMessage'
               /\ content'[req'[s].msg] = Join(req'[s].want)
    <3>1. CASE s = r
      BY <1>1, <1>2, <1>4, <2>2, <2>3, <3>1
    <3>2. CASE s # r
      <4>1. req'[s] = req[s]
        BY <1>1, <3>2 DEF Others
      <4>2. /\ req[s].msg \in Message /\ req[s].msg < nextMessage
            /\ content[req[s].msg] = Join(req[s].want)
        BY <1>0, <2>3, <4>1 DEF SentAsListed
      <4>3. req[s].msg \in Nat
        BY <1>1, <4>2
      <4>4. req[s].msg # nextMessage /\ req[s].msg < nextMessage'
        BY <1>1, <1>4, <4>2, <4>3
      <4> QED
        BY <2>2, <4>1, <4>2, <4>4
    <3> QED
      BY <3>1, <3>2
  <2> QED
    BY <2>3 DEF SentAsListed
<1> QED
  BY <1>3, <1>4, StoreDoes

LEMMA SentStep ==
    ASSUME Careful
    PROVE  TypeInv /\ ListedInv /\ [Next]_vars => SentAsListed'
<1> SUFFICES ASSUME TypeInv, ListedInv, [Next]_vars PROVE SentAsListed'
  OBVIOUS
<1>0. SentAsListed
  BY DEF ListedInv
<1>1. CASE UNCHANGED vars
  BY <1>0, <1>1 DEF SentAsListed, Sent, vars, stored
<1>2. CASE Crash
  <2>1. \A s \in Request : ~Sent(req'[s])
    BY <1>2, CrashDoes DEF Idle, Sent, None
  <2> QED
    BY <2>1 DEF SentAsListed
<1>3. ASSUME NEW r \in Request, Unsent(r)
      PROVE  SentAsListed'
  BY <1>0, <1>3, UnsentDoes, SentKept
<1>4. ASSUME NEW r \in Request, Store(r)
      PROVE  SentAsListed'
  BY <1>4, SentStore
<1>5. \A r \in Request : ~Cancel(r)
  BY DEF Cancel, Careful
<1> QED
  BY <1>1, <1>2, <1>3, <1>4, <1>5 DEF Next, RequestStep, Unsent

LEMMA ListedInit == Init => ListedInv
<1> SUFFICES ASSUME Init PROVE ListedInv
  OBVIOUS
<1>1. \A r \in Request : req[r].pc = "idle" /\ req[r].op = None
  BY DEF Init, Idle
<1>2. AckedAreFiled
  BY NoParts DEF Init, AckedAreFiled
<1>3. PartsPending
  BY <1>1, StepsApart DEF PartsPending, Step
<1>4. PartsListed
  BY <1>1 DEF PartsListed, Listing
<1>5. SentAsListed
  BY <1>1 DEF SentAsListed, Sent, None
<1> QED
  BY <1>2, <1>3, <1>4, <1>5 DEF ListedInv

\* A CompleteMultipartUpload that is answered ok has stored exactly the parts it listed,
\* those whose ETags the client was given, when clients overlap no request with one that
\* it could disturb: neither a failed upload of a part nor a crash between the file of
\* a part and its row (multipart.go, UploadPart) shows in the object.
THEOREM CompletedRight ==
    ASSUME Careful
    PROVE  Spec => []CompletedAsListed
<1>1. TypeInv /\ Alone /\ ListedInv /\ [Next]_vars => ListedInv'
  BY AckedFiledStep, PendingStep, ListedStep, SentStep DEF ListedInv
<1>2. Spec => []ListedInv
  BY <1>1, ListedInit, TypeSafe, AloneSafe, PTL DEF Spec
<1>3. ListedInv => CompletedAsListed
  BY DEF ListedInv, SentAsListed, Sent, CompletedAsListed, Answered
<1> QED
  BY <1>2, <1>3, PTL

-----------------------------------------------------------------------------
(* What an abort leaves *)

\* Steps of requests at which no upload is made, introduced or closed.
Ordinary(r) ==
    \/ CreateCheck(r) \/ DropDir(r)
    \/ PartRow(r) \/ CreateTemp(r) \/ Receive(r) \/ Rename(r) \/ Upsert(r)
    \/ CompleteRow(r) \/ ListParts(r) \/ OpenPart(r) \/ Store(r) \/ Commit(r) \/ Rollback(r)
    \/ AbortRow(r) \/ RemoveFiles(r) \/ RemoveDir(r)

LEMMA OrdinaryDoes ==
    ASSUME TypeInv, NEW r \in Request, Ordinary(r)
    PROVE  Others(r) /\ status' = status /\ nextUpload' = nextUpload /\ ~Creating(r)'
<1>1. CASE CreateCheck(r) \/ DropDir(r)
  BY <1>1, CreateCheckDoes, DropDirDoes DEF staging, Creating, Went, Replied
<1>2. CASE PartRow(r) \/ CreateTemp(r) \/ Receive(r) \/ Rename(r) \/ Upsert(r)
  BY <1>2, PartRowDoes, CreateTempDoes, ReceiveDoes, RenameDoes, UpsertDoes
  DEF staging, Creating, Went, Replied
<1>3. CASE CompleteRow(r) \/ ListParts(r) \/ OpenPart(r) \/ Store(r)
  BY <1>3, CompleteRowDoes, ListPartsDoes, OpenPartDoes, StoreDoes
  DEF staging, Creating, Went, Replied
<1>4. CASE Commit(r) \/ Rollback(r) \/ AbortRow(r)
  BY <1>4, CommitDoes, RollbackDoes, AbortRowDoes DEF staging, Creating, Went, Replied
<1>5. CASE RemoveFiles(r) \/ RemoveDir(r)
  BY <1>5, RemoveFilesDoes, RemoveDirDoes DEF Creating, Went
<1> QED
  BY <1>1, <1>2, <1>3, <1>4, <1>5 DEF Ordinary

\* A step of a request is about its own upload; a directory is made for a new one.
LEMMA StepsLocal ==
    ASSUME TypeInv, NEW r \in Request, RequestStep(r), NEW v \in Upload,
           v # req[r].upload \/ req[r].pc \in {"createCheck", "makeDir"}
    PROVE  /\ uploads'[v] = uploads[v] /\ parts'[v] = parts[v]
           /\ files'[v] = files[v] /\ temps'[v] = temps[v] /\ status'[v] = status[v]
           /\ v \in dirs' => v \in dirs \/ v = nextUpload
<1>0. status \in [Upload -> {"unknown", "open", "completed", "aborted"}]
  BY DEF TypeInv, HistoryTyped
<1>1. CASE CreateCheck(r) \/ MakeDir(r)
  BY <1>1, CreateCheckDoes, MakeDirDoes DEF staging
<1>2. v # req[r].upload \/ CreateCheck(r) \/ MakeDir(r)
  <2>1. CASE req[r].pc = "createCheck"
    BY <2>1 DEF RequestStep, CreateCheck, MakeDir, InsertUpload, DropDir, PartRow, CreateTemp,
               Receive, Rename, Upsert, CompleteRow, ListParts, OpenPart, Store, Commit,
               Rollback, AbortRow, RemoveFiles, RemoveDir, DeleteUpload, At
  <2>2. CASE req[r].pc = "makeDir"
    BY <2>2 DEF RequestStep, CreateCheck, MakeDir, InsertUpload, DropDir, PartRow, CreateTemp,
               Receive, Rename, Upsert, CompleteRow, ListParts, OpenPart, Store, Commit,
               Rollback, AbortRow, RemoveFiles, RemoveDir, DeleteUpload, At
  <2> QED
    BY <2>1, <2>2
<1>3. CASE v # req[r].upload /\ (InsertUpload(r) \/ DropDir(r))
  BY <1>0, <1>3, InsertUploadDoes, DropDirDoes
<1>4. CASE v # req[r].upload /\ (PartRow(r) \/ CreateTemp(r) \/ Receive(r))
  BY <1>4, PartRowDoes, CreateTempDoes, ReceiveDoes DEF staging
<1>5. CASE v # req[r].upload /\ (Rename(r) \/ Upsert(r))
  BY <1>5, RenameDoes, UpsertDoes DEF PartSet
<1>6. CASE CompleteRow(r) \/ ListParts(r) \/ OpenPart(r) \/ Store(r)
  BY <1>6, CompleteRowDoes, ListPartsDoes, OpenPartDoes, StoreDoes DEF staging
<1>7. CASE Commit(r) \/ Rollback(r) \/ AbortRow(r)
  BY <1>7, CommitDoes, RollbackDoes, AbortRowDoes DEF staging
<1>8. CASE v # req[r].upload /\ (RemoveFiles(r) \/ RemoveDir(r))
  BY <1>8, RemoveFilesDoes, RemoveDirDoes
<1>9. CASE v # req[r].upload /\ DeleteUpload(r)
  BY <1>0, <1>9, DeleteUploadDoes
<1> QED
  BY <1>1, <1>2, <1>3, <1>4, <1>5, <1>6, <1>7, <1>8, <1>9 DEF RequestStep

LEMMA IntroducedKept ==
    ASSUME Introduced, NEW r \in Request, Others(r),
           status' = status, nextUpload' = nextUpload, ~Creating(r)',
           InFlight(r)' /\ req'[r].op # "create" => status[req'[r].upload] # "unknown"
    PROVE  Introduced'
<1>1. \A u \in Upload : status'[u] # "unknown" => u < nextUpload'
  BY DEF Introduced
<1>2. ASSUME NEW s \in Request, Creating(s)'
      PROVE  s # r /\ Creating(s) /\ req'[s] = req[s]
  BY <1>2 DEF Others, Creating
<1>3. ASSUME NEW s \in Request
      PROVE  /\ Creating(s)' => req'[s].upload < nextUpload' /\ status'[req'[s].upload] = "unknown"
             /\ \A t \in Request : Creating(s)' /\ Creating(t)' /\ s # t =>
                    req'[s].upload # req'[t].upload
  BY <1>2 DEF Introduced
<1>4. ASSUME NEW s \in Request, InFlight(s)', req'[s].op # "create"
      PROVE  status'[req'[s].upload] # "unknown"
  <2>1. CASE s = r
    BY <1>4, <2>1
  <2>2. CASE s # r
    <3>1. req'[s] = req[s] /\ InFlight(s)
      BY <1>4, <2>2 DEF Others, InFlight
    <3> QED
      BY <1>4, <3>1 DEF Introduced
  <2> QED
    BY <2>1, <2>2
<1> QED
  BY <1>1, <1>3, <1>4 DEF Introduced

LEMMA UsersUpload ==
    ASSUME TypeInv, NEW r \in Request, Creating(r) \/ (InFlight(r) /\ req[r].op # "create")
    PROVE  req[r].upload \in Upload
<1>1. WellFormed(req[r])
  BY DEF TypeInv, RequestsTyped
<1> QED
  BY <1>1 DEF WellFormed, Creating, InFlight, Step, CreateStep

LEMMA IntroducedStep ==
    ASSUME Careful
    PROVE  TypeInv /\ Alone /\ Introduced /\ [Next]_vars => Introduced'
<1> SUFFICES ASSUME TypeInv, Alone, Introduced, [Next]_vars PROVE Introduced'
  OBVIOUS
<1>0. /\ status \in [Upload -> {"unknown", "open", "completed", "aborted"}]
      /\ nextUpload \in Nat /\ Upload \subseteq Nat
  BY BoundAssumption DEF TypeInv, HistoryTyped, StagingTyped, Upload
<1>1. CASE UNCHANGED vars
  BY <1>1 DEF Introduced, Creating, InFlight, vars, staging
<1>2. CASE Crash
  <2>1. /\ status' = status /\ nextUpload' = nextUpload
        /\ \A r \in Request : req'[r].pc = "idle"
    BY <1>2, CrashDoes DEF Idle
  <2> QED
    BY <2>1, StepsApart DEF Introduced, Creating, InFlight
<1>3. ASSUME NEW r \in Request, BeginCreate(r) \/ Finish(r)
      PROVE  Introduced'
  <2>1. /\ Others(r) /\ status' = status /\ nextUpload' = nextUpload
        /\ \/ req'[r].pc = "createCheck" /\ req'[r].op = "create"
           \/ req'[r].pc = "idle"
    BY <1>3, BeginCreateDoes, FinishDoes DEF staging
  <2> QED
    BY <2>1, StepsApart, IntroducedKept DEF Creating, InFlight
<1>4. ASSUME NEW r \in Request, BeginUploadPart(r) \/ BeginComplete(r) \/ BeginAbort(r)
      PROVE  Introduced'
  <2>1. /\ Others(r) /\ status' = status /\ nextUpload' = nextUpload
        /\ status[req'[r].upload] # "unknown"
        /\ req'[r].pc \in {"partRow", "completeRow", "abortRow"}
    BY <1>4, BeginUploadPartDoes, BeginCompleteDoes, BeginAbortDoes DEF staging
  <2> QED
    BY <2>1, IntroducedKept DEF Creating
<1>5. ASSUME NEW r \in Request, Ordinary(r)
      PROVE  Introduced'
  <2>1. Follows(r) \/ Over(r)
    BY <1>5, RequestFollows DEF Careful, Ordinary, RequestStep
  <2>2. InFlight(r)' /\ req'[r].op # "create" => status[req'[r].upload] # "unknown"
    BY <2>1 DEF Follows, Over, InFlight, Introduced
  <2> QED
    BY <1>5, <2>2, OrdinaryDoes, IntroducedKept
<1>6. ASSUME NEW r \in Request, MakeDir(r)
      PROVE  Introduced'
  <2>1. Others(r) /\ status' = status
    BY <1>6, MakeDirDoes
  <2>2. CASE Replied(r, Failure) /\ nextUpload' = nextUpload
    BY <2>1, <2>2, StepsApart, IntroducedKept DEF Replied, Creating, InFlight
  <2>3. CASE /\ nextUpload \in Upload /\ nextUpload' = nextUpload + 1
             /\ req'[r].pc = "insertUpload" /\ req'[r].op = "create"
             /\ req'[r].upload = nextUpload
    <3>1. ASSUME NEW u \in Upload, status'[u] # "unknown" PROVE u < nextUpload'
      <4>1. u < nextUpload /\ u \in Nat
        BY <1>0, <2>1, <3>1 DEF Introduced
      <4> QED
        BY <1>0, <2>3, <4>1
    <3>2. status'[nextUpload] = "unknown" /\ nextUpload < nextUpload'
      BY <1>0, <2>1, <2>3 DEF Introduced
    <3>3. ASSUME NEW s \in Request, s # r, Creating(s)'
          PROVE  /\ Creating(s) /\ req'[s] = req[s] /\ req'[s].upload < nextUpload'
                 /\ status'[req'[s].upload] = "unknown" /\ req'[s].upload # nextUpload
      <4>1. req'[s] = req[s] /\ Creating(s)
        BY <2>1, <3>3 DEF Others, Creating
      <4>2. req[s].upload \in Nat
        <5>1. req[s] \in RequestState
          BY DEF TypeInv, RequestsTyped
        <5>2. req[s].upload \in Upload \cup {0}
          BY <5>1 DEF RequestState
        <5>3. 0 \in Nat
          OBVIOUS
        <5> QED
          BY <1>0, <5>2, <5>3
      <4>3. req[s].upload < nextUpload /\ status[req[s].upload] = "unknown"
        BY <4>1 DEF Introduced
      <4> QED
        BY <1>0, <2>1, <2>3, <4>1, <4>2, <4>3
    <3>4. ASSUME NEW s \in Request
          PROVE  /\ Creating(s)' => /\ req'[s].upload < nextUpload'
                                    /\ status'[req'[s].upload] = "unknown"
                 /\ \A t \in Request : Creating(s)' /\ Creating(t)' /\ s # t =>
                        req'[s].upload # req'[t].upload
      <4>1. CASE s = r
        BY <2>3, <3>2, <3>3, <4>1
      <4>2. CASE s # r
        BY <2>3, <3>3, <4>2 DEF Introduced
      <4> QED
        BY <4>1, <4>2
    <3>5. ASSUME NEW s \in Request, InFlight(s)', req'[s].op # "create"
          PROVE  status'[req'[s].upload] # "unknown"
      BY <2>1, <2>3, <3>5 DEF Others, InFlight, Introduced
    <3> QED
      BY <3>1, <3>4, <3>5 DEF Introduced
  <2> QED
    BY <1>6, <2>2, <2>3, MakeDirDoes
<1>7. ASSUME NEW r \in Request, InsertUpload(r)
      PROVE  Introduced'
  <2> DEFINE u == req[r].upload
  <2>1. Others(r) /\ nextUpload' = nextUpload /\ Creating(r) /\ req[r].op = "create"
    <3>1. WellFormed(req[r]) /\ req[r].pc = "insertUpload"
      BY <1>7 DEF InsertUpload, At, TypeInv, RequestsTyped
    <3> QED
      BY <1>7, <3>1, InsertUploadDoes DEF Creating, WellFormed, CreateStep
  <2>2. u < nextUpload /\ status[u] = "unknown"
    BY <2>1 DEF Introduced
  <2>3. \A v \in Upload : v # u => status'[v] = status[v]
    BY <1>0, <1>7, InsertUploadDoes
  <2>4. \A v \in Upload : status'[v] # "unknown" => v < nextUpload'
    BY <2>1, <2>2, <2>3 DEF Introduced
  <2>5. req'[r].op = "create" /\ req'[r].upload = u
    BY <1>7, <2>1, InsertUploadDoes DEF Replied, Went, SameWork, SameRequest
  <2>6. Creating(r)' => status' = status
    BY <1>7, InsertUploadDoes DEF Replied, Creating
  <2>7. \A v \in Upload : status[v] # "unknown" => status'[v] # "unknown"
    BY <1>0, <1>7, InsertUploadDoes
  <2>8. \A s \in Request : s # r => req'[s] = req[s]
    BY <2>1 DEF Others
  <2>9. ASSUME NEW s \in Request, s # r, Creating(s)'
        PROVE  Creating(s) /\ req[s].upload # u /\ status'[req[s].upload] = "unknown"
               /\ req[s].upload < nextUpload
    <3>1. Creating(s)
      BY <2>8, <2>9 DEF Creating
    <3>2. req[s].upload # u /\ status[req[s].upload] = "unknown" /\ req[s].upload < nextUpload
      BY <2>1, <2>9, <3>1 DEF Introduced
    <3>3. req[s].upload \in Upload
      <4>1. WellFormed(req[s]) /\ req[s].pc \in Step \ {"createCheck", "makeDir"}
        BY <3>1 DEF TypeInv, RequestsTyped, Creating, Step, CreateStep
      <4> QED
        BY <4>1 DEF WellFormed
    <3> QED
      BY <2>3, <3>1, <3>2, <3>3
  <2>10. ASSUME NEW s \in Request
         PROVE  /\ Creating(s)' => /\ req'[s].upload < nextUpload'
                                   /\ status'[req'[s].upload] = "unknown"
                /\ \A t \in Request : Creating(s)' /\ Creating(t)' /\ s # t =>
                       req'[s].upload # req'[t].upload
    <3>1. CASE s = r
      BY <2>1, <2>2, <2>5, <2>6, <2>8, <2>9, <3>1
    <3>2. CASE s # r
      BY <2>1, <2>5, <2>8, <2>9, <3>2 DEF Introduced
    <3> QED
      BY <3>1, <3>2
  <2>11. ASSUME NEW s \in Request, InFlight(s)', req'[s].op # "create"
         PROVE  status'[req'[s].upload] # "unknown"
    <3>1. s # r /\ req'[s] = req[s] /\ InFlight(s)
      BY <2>5, <2>8, <2>11 DEF InFlight
    <3>2. req[s].upload \in Upload /\ status[req[s].upload] # "unknown"
      BY <2>11, <3>1, UsersUpload DEF Introduced
    <3> QED
      BY <2>7, <3>1, <3>2
  <2> QED
    BY <2>4, <2>10, <2>11 DEF Introduced
<1>8. ASSUME NEW r \in Request, DeleteUpload(r)
      PROVE  Introduced'
  <2> DEFINE u == req[r].upload
  <2>1. /\ Others(r) /\ nextUpload' = nextUpload /\ req'[r].pc = "replied"
        /\ \/ status' = status
           \/ \E x \in {"completed", "aborted"} : status' = [status EXCEPT ![u] = x]
    BY <1>8, DeleteUploadDoes DEF Replied
  <2>2. status[u] # "unknown" /\ u \in Upload
    <3>1. req[r].pc \in CloseStep /\ InFlight(r)
      BY <1>8 DEF DeleteUpload, At, CloseStep, InFlight, Step
    <3>2. req[r].op # "create" /\ u \in Upload
      BY <3>1, CloseHeld DEF TypeInv
    <3> QED
      BY <3>1, <3>2 DEF Introduced
  <2>3. \A v \in Upload : status'[v] # "unknown" <=> status[v] # "unknown"
    BY <1>0, <2>1, <2>2
  <2>4. \A s \in Request : s # r => req'[s] = req[s]
    BY <2>1 DEF Others
  <2>5. \A s \in Request : /\ Creating(s)' => s # r /\ Creating(s)
                           /\ InFlight(s)' => s # r /\ InFlight(s)
    BY <2>1, <2>4, StepsApart DEF Creating, InFlight
  <2>6. \A s \in Request : Creating(s) \/ (InFlight(s) /\ req[s].op # "create") =>
                                req[s].upload \in Upload
    BY UsersUpload
  <2>7. \A v \in Upload : status'[v] # "unknown" => v < nextUpload'
    BY <2>1, <2>3 DEF Introduced
  <2>8. ASSUME NEW s \in Request
        PROVE  /\ Creating(s)' => /\ req'[s].upload < nextUpload'
                                  /\ status'[req'[s].upload] = "unknown"
               /\ \A v \in Request : Creating(s)' /\ Creating(v)' /\ s # v =>
                      req'[s].upload # req'[v].upload
    BY <2>1, <2>3, <2>4, <2>5, <2>6 DEF Introduced
  <2>9. ASSUME NEW s \in Request, InFlight(s)', req'[s].op # "create"
        PROVE  status'[req'[s].upload] # "unknown"
    BY <2>3, <2>4, <2>5, <2>6, <2>9 DEF Introduced
  <2> QED
    BY <2>7, <2>8, <2>9 DEF Introduced
<1>9. ASSUME NEW r \in Request, RequestStep(r)
      PROVE  Ordinary(r) \/ MakeDir(r) \/ InsertUpload(r) \/ DeleteUpload(r)
  BY <1>9 DEF RequestStep, Ordinary
<1>10. \A r \in Request : ~Cancel(r)
  BY DEF Cancel, Careful
<1> QED
  BY <1>1, <1>2, <1>3, <1>4, <1>5, <1>6, <1>7, <1>8, <1>9, <1>10 DEF Next

LEMMA StepIn ==
    ASSUME NEW r \in Request, RequestStep(r)
    PROVE  req[r].pc \in Step
<1>1. req[r].pc \in {"createCheck", "makeDir", "insertUpload", "dropDir", "partRow", "createTemp",
                     "receive", "rename", "upsert", "completeRow", "listParts", "openPart",
                     "store", "commit", "rollback", "abortRow", "removeFiles", "removeDir",
                     "deleteUpload"}
  BY DEF RequestStep, CreateCheck, MakeDir, InsertUpload, DropDir, PartRow, CreateTemp, Receive,
         Rename, Upsert, CompleteRow, ListParts, OpenPart, Store, Commit, Rollback, AbortRow,
         RemoveFiles, RemoveDir, DeleteUpload, At
<1> QED
  BY <1>1 DEF Step, CreateStep, PartStep, CompleteStep, AbortStep, CloseStep

\* An upload that is known to the clients is out of the way of those being created.
LEMMA Unharmed ==
    ASSUME TypeInv, Introduced, NEW r \in Request, RequestStep(r),
           NEW v \in Upload, status[v] # "unknown",
           v # req[r].upload \/ req[r].pc \in CreateStep
    PROVE  /\ uploads'[v] = uploads[v] /\ parts'[v] = parts[v]
           /\ files'[v] = files[v] /\ temps'[v] = temps[v] /\ status'[v] = status[v]
           /\ v \in dirs' => v \in dirs
<1>1. v < nextUpload /\ v \in Nat /\ nextUpload \in Nat
  BY BoundAssumption DEF TypeInv, StagingTyped, Upload, Introduced
<1>2. v # nextUpload
  BY <1>1
<1>3. v # req[r].upload \/ req[r].pc \in {"createCheck", "makeDir"}
  BY DEF Introduced, Creating, CreateStep
<1> QED
  BY <1>2, <1>3, StepsLocal

LEMMA Closing ==
    ASSUME TypeInv, NEW r \in Request, RequestStep(r),
           req'[r].pc \in {"removeDir", "deleteUpload"}
    PROVE  RemoveFiles(r) \/ RemoveDir(r)
<1>1. CASE CreateCheck(r) \/ MakeDir(r) \/ InsertUpload(r) \/ DropDir(r)
  BY <1>1, CreateCheckDoes, MakeDirDoes, InsertUploadDoes, DropDirDoes DEF Went, Replied
<1>2. CASE PartRow(r) \/ CreateTemp(r) \/ Receive(r) \/ Rename(r) \/ Upsert(r)
  BY <1>2, PartRowDoes, CreateTempDoes, ReceiveDoes, RenameDoes, UpsertDoes DEF Went, Replied
<1>3. CASE CompleteRow(r) \/ ListParts(r) \/ OpenPart(r) \/ Store(r)
  BY <1>3, CompleteRowDoes, ListPartsDoes, OpenPartDoes, StoreDoes DEF Went, Replied
<1>4. CASE Commit(r) \/ Rollback(r) \/ AbortRow(r) \/ DeleteUpload(r)
  BY <1>4, CommitDoes, RollbackDoes, AbortRowDoes, DeleteUploadDoes DEF Went, Replied
<1> QED
  BY <1>1, <1>2, <1>3, <1>4 DEF RequestStep

\* Between requests, a client starts one or reads an answer.
LEMMA ClientDoes ==
    ASSUME TypeInv, NEW r \in Request,
           \/ BeginCreate(r) \/ BeginUploadPart(r) \/ BeginComplete(r) \/ BeginAbort(r)
           \/ Finish(r)
    PROVE  /\ Others(r) /\ UNCHANGED staging /\ status' = status
           /\ \/ req'[r].pc = "idle"
              \/ req'[r].pc = "createCheck" /\ req'[r].op = "create"
              \/ req'[r].pc \in {"partRow", "completeRow", "abortRow"}
<1>1. CASE BeginCreate(r) \/ Finish(r)
  BY <1>1, BeginCreateDoes, FinishDoes
<1>2. CASE BeginUploadPart(r) \/ BeginComplete(r) \/ BeginAbort(r)
  BY <1>2, BeginUploadPartDoes, BeginCompleteDoes, BeginAbortDoes
<1> QED
  BY <1>1, <1>2

LEMMA CarefulNext ==
    ASSUME Careful, [Next]_vars
    PROVE  \/ UNCHANGED vars \/ Crash
           \/ \E r \in Request :
                 \/ BeginCreate(r) \/ BeginUploadPart(r) \/ BeginComplete(r) \/ BeginAbort(r)
                 \/ Finish(r)
           \/ \E r \in Request : RequestStep(r)
  BY DEF Next, Cancel, Careful

LEMMA EmptyingStep ==
    ASSUME Careful, "removal" \notin Faults
    PROVE  TypeInv /\ Alone /\ Introduced /\ Emptying /\ [Next]_vars => Emptying'
<1> SUFFICES ASSUME TypeInv, Alone, Introduced, Emptying, [Next]_vars,
                    NEW s \in Request, req'[s].pc \in {"removeDir", "deleteUpload"}
             PROVE  /\ files'[req'[s].upload] = Nothing /\ temps'[req'[s].upload] = {}
                    /\ req'[s].pc = "deleteUpload" => req'[s].upload \notin dirs'
  BY DEF Emptying
<1> DEFINE v == req[s].upload
<1>1. CASE UNCHANGED vars
  BY <1>1 DEF Emptying, vars, staging
<1>2. CASE Crash
  BY <1>2, CrashDoes DEF Idle
<1>3. ASSUME NEW r \in Request,
             \/ BeginCreate(r) \/ BeginUploadPart(r) \/ BeginComplete(r) \/ BeginAbort(r)
             \/ Finish(r)
      PROVE  /\ files'[req'[s].upload] = Nothing /\ temps'[req'[s].upload] = {}
             /\ req'[s].pc = "deleteUpload" => req'[s].upload \notin dirs'
  <2>1. s # r /\ req'[s] = req[s]
    BY <1>3, ClientDoes DEF Others
  <2> QED
    BY <1>3, <2>1, ClientDoes DEF Emptying, staging
<1>4. ASSUME NEW r \in Request, RequestStep(r), s # r
      PROVE  /\ files'[req'[s].upload] = Nothing /\ temps'[req'[s].upload] = {}
             /\ req'[s].pc = "deleteUpload" => req'[s].upload \notin dirs'
  <2>1. req'[s] = req[s]
    BY <1>4, RequestFollows DEF Careful, Others
  <2>2. req[s].pc \in CloseStep /\ req[s].pc \in Step \ CreateStep /\ InFlight(s)
    BY <2>1, StepsApart DEF CloseStep, Step, InFlight
  <2>3. v \in Upload /\ status[v] # "unknown"
    BY <2>2, CloseHeld DEF TypeInv, Introduced
  <2>4. v # req[r].upload \/ req[r].pc \in CreateStep
    BY <1>4, <2>2, StepIn, StepsApart, OneUser
  <2>5. files'[v] = files[v] /\ temps'[v] = temps[v] /\ (v \in dirs' => v \in dirs)
    BY <1>4, <2>3, <2>4, Unharmed
  <2> QED
    BY <2>1, <2>5 DEF Emptying
<1>5. CASE RequestStep(s)
  <2>1. CASE RemoveFiles(s)
    BY <2>1, RemoveFilesDoes DEF Went, SameWork, SameRequest
  <2>2. CASE RemoveDir(s)
    <3>1. files[v] = Nothing /\ temps[v] = {}
      BY <2>2 DEF Emptying, RemoveDir, At
    <3> QED
      BY <2>2, <3>1, RemoveDirDoes DEF Went, SameWork, SameRequest
  <2> QED
    BY <1>5, <2>1, <2>2, Closing
<1> QED
  BY <1>1, <1>2, <1>3, <1>4, <1>5, CarefulNext

\* A step that makes an upload aborted is the end of an abort.
LEMMA Aborting ==
    ASSUME TypeInv, NEW r \in Request, RequestStep(r),
           NEW u \in Upload, status[u] # "aborted", status'[u] = "aborted"
    PROVE  /\ DeleteUpload(r) /\ u = req[r].upload /\ Others(r) /\ req'[r].pc = "replied"
           /\ uploads'[u] = None /\ parts'[u] = Nothing
<1>0. status \in [Upload -> {"unknown", "open", "completed", "aborted"}]
  BY DEF TypeInv, HistoryTyped
<1>1. CASE Ordinary(r)
  BY <1>1, OrdinaryDoes
<1>2. CASE MakeDir(r)
  BY <1>2, MakeDirDoes
<1>3. CASE InsertUpload(r)
  BY <1>0, <1>3, InsertUploadDoes
<1>4. CASE DeleteUpload(r)
  BY <1>0, <1>4, DeleteUploadDoes DEF Replied
<1> QED
  BY <1>1, <1>2, <1>3, <1>4 DEF RequestStep, Ordinary

\* The row of an aborted upload is looked for in vain.
LEMMA RowMissing ==
    ASSUME TypeInv, NEW r \in Request, RequestStep(r), uploads[req[r].upload] = None,
           req[r].pc \in {"partRow", "completeRow", "abortRow"}
    PROVE  /\ UNCHANGED <<staging, status>> /\ Others(r) /\ req'[r].pc = "replied"
<1>1. CASE req[r].pc = "partRow"
  <2>1. PartRow(r)
    BY <1>1 DEF RequestStep, CreateCheck, MakeDir, InsertUpload, DropDir, PartRow, CreateTemp,
           Receive, Rename, Upsert, CompleteRow, ListParts, OpenPart, Store, Commit, Rollback,
           AbortRow, RemoveFiles, RemoveDir, DeleteUpload, At
  <2> QED
    BY <2>1, PartRowDoes DEF Replied
<1>2. CASE req[r].pc = "completeRow"
  <2>1. CompleteRow(r)
    BY <1>2 DEF RequestStep, CreateCheck, MakeDir, InsertUpload, DropDir, PartRow, CreateTemp,
           Receive, Rename, Upsert, CompleteRow, ListParts, OpenPart, Store, Commit, Rollback,
           AbortRow, RemoveFiles, RemoveDir, DeleteUpload, At
  <2>2. req[r].key # None
    <3>1. WellFormed(req[r])
      BY DEF TypeInv, RequestsTyped
    <3>2. req[r].key \in Key
      BY <1>2, <3>1, StepsApart DEF WellFormed
    <3> QED
      BY <3>2, KeyAssumption
  <2> QED
    BY <2>1, <2>2, CompleteRowDoes DEF Replied
<1>3. CASE req[r].pc = "abortRow"
  <2>1. AbortRow(r)
    BY <1>3 DEF RequestStep, CreateCheck, MakeDir, InsertUpload, DropDir, PartRow, CreateTemp,
           Receive, Rename, Upsert, CompleteRow, ListParts, OpenPart, Store, Commit, Rollback,
           AbortRow, RemoveFiles, RemoveDir, DeleteUpload, At
  <2> QED
    BY <2>1, AbortRowDoes DEF Replied
<1> QED
  BY <1>1, <1>2, <1>3

\* A request that is in progress after its own step is the one it was.
LEMMA StillUsing ==
    ASSUME TypeInv, Alone, Careful, NEW r \in Request, RequestStep(r), NEW s \in Request,
           NEW u \in Upload, Using(s, u)'
    PROVE  /\ Using(s, u)
           /\ s # r => req'[s] = req[s]
           /\ s = r => req[r].pc \in Step \ CreateStep
<1>1. Others(r) /\ (Follows(r) \/ Over(r))
  BY RequestFollows DEF Careful
<1>2. CASE s = r
  <2>1. InFlight(r) /\ req[r].op # "create" /\ req[r].upload = u
    BY <1>1, <1>2 DEF Follows, Over, Using, InFlight
  <2>2. WellFormed(req[r])
    BY DEF TypeInv, RequestsTyped
  <2> QED
    BY <1>2, <2>1, <2>2 DEF Using, InFlight, WellFormed
<1>3. CASE s # r
  BY <1>1, <1>3 DEF Others, Using, InFlight
<1> QED
  BY <1>2, <1>3

LEMMA AbortedStep ==
    ASSUME Careful
    PROVE  TypeInv /\ Alone /\ Introduced /\ Emptying /\ AbortedInv /\ [Next]_vars => AbortedInv'
<1> DEFINE Early(s) == req'[s].pc \in {"partRow", "completeRow", "abortRow"}
<1> SUFFICES ASSUME TypeInv, Alone, Introduced, Emptying, AbortedInv, [Next]_vars,
                    NEW u \in Upload, status'[u] = "aborted"
             PROVE  Gone(u)' /\ \A s \in Request : Using(s, u)' => Early(s)
  BY DEF AbortedInv
<1>1. CASE UNCHANGED vars
  BY <1>1 DEF AbortedInv, Gone, Using, InFlight, vars, staging
<1>2. CASE Crash
  <2>1. \A s \in Request : ~InFlight(s)'
    BY <1>2, CrashDoes, StepsApart DEF Idle, InFlight
  <2> QED
    BY <1>2, <2>1, CrashDoes DEF AbortedInv, Gone, Using
<1>3. ASSUME NEW r \in Request,
             \/ BeginCreate(r) \/ BeginUploadPart(r) \/ BeginComplete(r) \/ BeginAbort(r)
             \/ Finish(r)
      PROVE  Gone(u)' /\ \A s \in Request : Using(s, u)' => Early(s)
  <2>1. /\ UNCHANGED staging /\ status' = status
        /\ \A s \in Request : s # r => req'[s] = req[s]
        /\ Using(r, u)' => Early(r)
    BY <1>3, ClientDoes, StepsApart DEF Others, Using, InFlight
  <2>2. Gone(u)'
    BY <2>1 DEF AbortedInv, Gone, staging
  <2>3. ASSUME NEW s \in Request, Using(s, u)', s # r PROVE Early(s)
    BY <2>1, <2>3 DEF AbortedInv, Using, InFlight
  <2> QED
    BY <2>1, <2>2, <2>3
<1>4. ASSUME NEW r \in Request, RequestStep(r), status[u] = "aborted"
      PROVE  Gone(u)' /\ \A s \in Request : Using(s, u)' => Early(s)
  <2>1. Gone(u)
    BY <1>4 DEF AbortedInv
  <2>2. ASSUME NEW s \in Request, s # r, Using(s, u)' PROVE Early(s)
    BY <1>4, <2>2, StillUsing DEF AbortedInv
  <2>3. CASE u # req[r].upload \/ req[r].pc \in CreateStep
    <3>1. ~Using(r, u)'
      BY <1>4, <2>3, StillUsing DEF Using
    <3>2. Gone(u)'
      BY <1>4, <2>1, <2>3, Unharmed DEF Gone
    <3> QED
      BY <2>2, <3>1, <3>2
  <2>4. CASE u = req[r].upload /\ req[r].pc \notin CreateStep
    <3>1. Using(r, u)
      <4>1. WellFormed(req[r]) /\ req[r].pc \in Step
        BY <1>4, StepIn DEF TypeInv, RequestsTyped
      <4> QED
        BY <2>4, <4>1 DEF Using, InFlight, WellFormed, Step
    <3>2. req[r].pc \in {"partRow", "completeRow", "abortRow"} /\ uploads[req[r].upload] = None
      BY <1>4, <2>1, <2>4, <3>1 DEF AbortedInv, Gone
    <3>3. UNCHANGED staging /\ req'[r].pc = "replied"
      BY <1>4, <3>2, RowMissing
    <3>4. Gone(u)' /\ ~Using(r, u)'
      BY <2>1, <3>3, StepsApart DEF Gone, staging, Using, InFlight
    <3> QED
      BY <2>2, <3>4
  <2> QED
    BY <2>3, <2>4
<1>5. ASSUME NEW r \in Request, RequestStep(r), status[u] # "aborted"
      PROVE  Gone(u)' /\ \A s \in Request : Using(s, u)' => Early(s)
  <2>1. /\ DeleteUpload(r) /\ u = req[r].upload /\ Others(r) /\ req'[r].pc = "replied"
        /\ uploads'[u] = None /\ parts'[u] = Nothing
    BY <1>5, Aborting
  <2>2. files'[u] = Nothing /\ u \notin dirs'
    BY <2>1, DeleteUploadDoes DEF Emptying, DeleteUpload, At
  <2>3. req[r].pc \in Step \ CreateStep /\ req[r].pc \notin PartStep
    BY <2>1, StepsApart DEF DeleteUpload, At, Step, CloseStep
  <2>4. ASSUME NEW s \in Request, Using(s, u)' PROVE FALSE
    <3>1. s # r
      BY <2>1, <2>4, StepsApart DEF Using, InFlight
    <3>2. Using(s, u)
      BY <1>5, <2>4, StillUsing
    <3>3. req[s].pc \in Step \ CreateStep
      <4>1. WellFormed(req[s])
        BY DEF TypeInv, RequestsTyped
      <4> QED
        BY <3>2, <4>1 DEF Using, InFlight, WellFormed
    <3> QED
      BY <2>1, <2>3, <3>1, <3>2, <3>3, OneUser DEF Using
  <2> QED
    BY <2>1, <2>2, <2>4 DEF Gone
<1> QED
  BY <1>1, <1>2, <1>3, <1>4, <1>5, CarefulNext

LEMMA AbortInit == Init => AbortInv
<1> SUFFICES ASSUME Init PROVE AbortInv
  OBVIOUS
<1>1. \A r \in Request : req[r] = Idle
  BY DEF Init
<1>2. \A u \in Upload : status[u] = "unknown"
  BY DEF Init
<1> QED
  BY <1>1, <1>2, StepsApart
  DEF AbortInv, Introduced, Emptying, AbortedInv, Idle, Creating, InFlight

\* Nothing of an aborted upload remains (the test TestMultipartAbortRemovesStaging,
\* integration_test.go:737): once an abort is answered ok, the rows, the files and the
\* directory are gone, and a request on the upload that is still on its way finds no row
\* (multipart.go). It holds for clients that overlap no two requests on an upload but
\* uploads of different parts, and a file system that removes what it is told to.
THEOREM AbortsClean ==
    ASSUME Careful, "removal" \notin Faults
    PROVE  Spec => []AbortLeavesNothing
<1>1. TypeInv /\ Alone /\ AbortInv /\ [Next]_vars => AbortInv'
  BY IntroducedStep, EmptyingStep, AbortedStep DEF AbortInv
<1>2. Spec => []AbortInv
  BY <1>1, AbortInit, TypeSafe, AloneSafe, PTL DEF Spec
<1>3. AbortInv => AbortLeavesNothing
  BY DEF AbortInv, AbortedInv, Gone, AbortLeavesNothing
<1> QED
  BY <1>2, <1>3, PTL
=============================================================================

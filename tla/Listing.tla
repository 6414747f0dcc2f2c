------------------------------ MODULE Listing ------------------------------
(***************************************************************************)
(* ListObjectsV2: listObjectsV2 of internal/s3api/list.go over ListObjects *)
(* of internal/metadata, and a client that follows the continuation tokens *)
(* to the end while other requests add and remove objects of the bucket.   *)
(*                                                                         *)
(* An atomic step is a metadata call with what the handler does until its  *)
(* next one. Keys are numbered in the order of SQLite's index, which is    *)
(* that of their bytes; a name is a sequence of characters, each of one or *)
(* more bytes.                                                             *)
(***************************************************************************)
EXTENDS Naturals, Sequences, FiniteSets

CONSTANTS
    Char,        \* characters
    Width,       \* Width[c]: the bytes of character c in UTF-8
    Name,        \* Name[k]: the name of the k-th key, a sequence
    Prefix,      \* request parameter prefix
    Delimiter,   \* request parameter delimiter (one character), or NoDelimiter
    PageSize,    \* request parameter max-keys, at most hardMaxKeys; 0 lists nothing
    MaxFailures  \* bound: metadata calls that fail

NoDelimiter == "none"
Key == DOMAIN Name

ASSUME NamesAssumption == Name \in Seq(Seq(Char)) /\ Prefix \in Seq(Char)
ASSUME WidthAssumption == Width \in [Char -> 1..4]
ASSUME PageAssumption == PageSize \in Nat \ {0} /\ MaxFailures \in Nat

VARIABLES
    keys,      \* keys of the bucket's rows in table objects
    pc,        \* "idle", or the next step of the listing
    token,     \* where the page starts: start-after, or the continuation token
    cursor,    \* listObjectsV2: the last key read
    contents,  \* keys in the page's Contents
    prefixes,  \* the page's CommonPrefixes (seenPrefixes)
    listed,    \* keys in Contents of earlier pages
    reported,  \* CommonPrefixes of earlier pages
    failures,  \* metadata calls that have failed
    stable     \* history: keys past the start that have been there all along

page == <<cursor, contents, prefixes>>
vars == <<keys, pc, token, page, listed, reported, failures, stable>>
-----------------------------------------------------------------------------
(* Names *)

Least(m, n) == IF m <= n THEN m ELSE n

\* Go's len of a string: bytes.
ByteLen(s) ==
    LET upto[n \in 0..Len(s)] == IF n = 0 THEN 0 ELSE upto[n - 1] + Width[s[n]]
    IN upto[Len(s)]

StartsWith(k, s) == SubSeq(Name[k], 1, Least(Len(s), Len(Name[k]))) = s

\* WHERE substr(key, 1, ?) = ? with len(prefix) and prefix: SQLite's substr counts
\* characters of a TEXT, len counts bytes.
Matches(k) == SubSeq(Name[k], 1, Least(ByteLen(Prefix), Len(Name[k]))) = Prefix

\* strings.Index(suffix, delimiter): the positions behind the prefix.
Delimiters(k) == {i \in Len(Prefix) + 1..Len(Name[k]) : Name[k][i] = Delimiter}

\* The common prefix of a key, <<>> for a key that is listed by itself.
CommonPrefix(k) ==
    IF Delimiters(k) = {} THEN <<>>
    ELSE SubSeq(Name[k], 1, CHOOSE i \in Delimiters(k) : \A j \in Delimiters(k) : i <= j)

Alone(S) == {k \in S : CommonPrefix(k) = <<>>}
Grouped(S) == {CommonPrefix(k) : k \in S} \ {<<>>}
-----------------------------------------------------------------------------
(* Metadata *)

\* Mutant: the key the page starts after is read again.
AfterInclusive(k) == {j \in keys : j >= k /\ Matches(j)}

\* The rows of ListObjects past k.
After(k) == {j \in keys : j > k /\ Matches(j)}

\* ORDER BY key LIMIT n.
First(S, n) == {k \in S : Cardinality({j \in S : j <= k}) <= n}

Last(S) == CHOOSE k \in S : \A j \in S : j <= k
-----------------------------------------------------------------------------
(* The handler *)

ListFails == failures < MaxFailures /\ failures' = failures + 1

Emitted == Cardinality(contents) + Cardinality(prefixes)

StartPage(after) ==
    /\ pc' = "batch"
    /\ token' = after
    /\ cursor' = after
    /\ contents' = {}
    /\ prefixes' = {}

\* The client starts a listing, with or without start-after.
StartListing ==
    /\ pc = "idle"
    /\ \E after \in {0} \cup Key :
          /\ StartPage(after)
          /\ stable' = {k \in keys : k > after}
    /\ listed' = {}
    /\ reported' = {}
    /\ UNCHANGED <<keys, failures>>

\* Mutant: each batch may fill a page of its own.
BatchOfPage ==
    LET batch == First(After(cursor), PageSize) IN
    /\ pc = "batch"
    /\ contents' = contents \cup Alone(batch)
    /\ prefixes' = prefixes \cup Grouped(batch)
    /\ cursor' = IF batch = {} THEN cursor ELSE Last(batch)
    /\ pc' = IF Emitted' >= PageSize THEN "more" ELSE IF batch = {} THEN "last" ELSE "batch"
    /\ UNCHANGED <<keys, token, listed, reported, failures, stable>>

\* Mutant: a page is one batch, whatever its rows have come to.
BatchOnce ==
    LET batch == First(After(cursor), PageSize - Emitted) IN
    /\ pc = "batch"
    /\ contents' = contents \cup Alone(batch)
    /\ prefixes' = prefixes \cup Grouped(batch)
    /\ cursor' = IF batch = {} THEN cursor ELSE Last(batch)
    /\ pc' = IF Emitted' >= PageSize THEN "more" ELSE "last"
    /\ UNCHANGED <<keys, token, listed, reported, failures, stable>>

\* One turn of the loop. A batch has at most as many rows as the page still
\* takes, so only its last row can fill the page, after every row before it has been
\* emitted: the row the loop stops at is lastEmittedKey and the cursor.
Batch ==
    LET rows == After(cursor)
        batch == First(rows, PageSize - Emitted)
    IN
    /\ pc = "batch"
    /\ contents' = contents \cup Alone(batch)
    /\ prefixes' = prefixes \cup Grouped(batch)
    /\ cursor' = IF batch = {} THEN cursor ELSE Last(batch)
    /\ LET full == batch # {} /\ Emitted' >= PageSize
           more == batch # rows
       IN pc' = CASE full /\ more   -> "more"
                  [] full /\ ~more  -> "keyHasMoreAfter"
                  [] ~full /\ more  -> "batch"
                  [] ~full /\ ~more -> "last"
    /\ UNCHANGED <<keys, token, listed, reported, failures, stable>>

\* The page is full with the last row there was: has another come since? An
\* error counts as no.
KeyHasMoreAfter ==
    /\ pc = "keyHasMoreAfter"
    /\ \/ pc' = (IF After(cursor) # {} THEN "more" ELSE "last") /\ UNCHANGED failures
       \/ ListFails /\ pc' = "last"
    /\ UNCHANGED <<keys, token, page, listed, reported, stable>>

\* A failed call: the client asks for the page again.
Fail ==
    /\ pc = "batch"
    /\ ListFails
    /\ StartPage(token)
    /\ UNCHANGED <<keys, listed, reported, stable>>

\* Mutant: the token is where the page began.
NextPageSameToken ==
    /\ pc = "more"
    /\ StartPage(token)
    /\ listed' = listed \cup contents
    /\ reported' = reported \cup prefixes
    /\ UNCHANGED <<keys, failures, stable>>

\* A truncated page: the client goes on with its token.
NextPage ==
    /\ pc = "more"
    /\ StartPage(cursor)
    /\ listed' = listed \cup contents
    /\ reported' = reported \cup prefixes
    /\ UNCHANGED <<keys, failures, stable>>

\* The last page.
EndListing ==
    /\ pc = "last"
    /\ pc' = "idle"
    /\ token' = 0
    /\ cursor' = 0
    /\ contents' = {}
    /\ prefixes' = {}
    /\ listed' = {}
    /\ reported' = {}
    /\ stable' = {}
    /\ UNCHANGED <<keys, failures>>
-----------------------------------------------------------------------------
\* Other requests commit and delete objects.
PutKey ==
    /\ \E k \in Key : keys' = keys \cup {k}
    /\ UNCHANGED <<pc, token, page, listed, reported, failures, stable>>

DeleteKey ==
    /\ \E k \in keys : keys' = keys \ {k} /\ stable' = stable \ {k}
    /\ UNCHANGED <<pc, token, page, listed, reported, failures>>

Init ==
    /\ keys \in SUBSET Key
    /\ pc = "idle"
    /\ token = 0
    /\ cursor = 0
    /\ contents = {} /\ prefixes = {}
    /\ listed = {} /\ reported = {}
    /\ failures = 0
    /\ stable = {}

ListStep == Batch \/ KeyHasMoreAfter

Next ==
    \/ StartListing \/ ListStep \/ Fail \/ NextPage \/ EndListing
    \/ PutKey \/ DeleteKey

\* The handler goes on (a page has no wait), and so does the client.
ListFairness == WF_vars(ListStep) /\ WF_vars(NextPage \/ EndListing)

Spec == Init /\ [][Next]_vars /\ ListFairness
-----------------------------------------------------------------------------
(* Properties *)

Step == {"batch", "keyHasMoreAfter", "more", "last"}

\* Every variable keeps its type; no page has more entries than were asked for,
\* and one that is not the last has exactly as many (list.go:125, list.go:141).
TypeOK ==
    /\ keys \subseteq Key
    /\ pc \in Step \cup {"idle"}
    /\ token \in {0} \cup Key /\ cursor \in {0} \cup Key /\ token <= cursor
    /\ contents \subseteq Key /\ listed \subseteq Key
    /\ prefixes \subseteq Grouped(Key) /\ reported \subseteq Grouped(Key)
    /\ failures \in 0..MaxFailures
    /\ stable \subseteq keys
    /\ Emitted <= PageSize
    /\ pc = "more" => Emitted = PageSize

\* "ListObjects returns up to `limit` objects within bucket whose key starts
\* with prefix" (metadata.go:242): when the last page has been answered, every
\* object under the prefix that was there all along has been listed, by itself or
\* by its common prefix, whatever came and went between two calls.
StableKeysListed ==
    pc = "last" =>
        \A k \in stable :
            StartsWith(k, Prefix) =>
                \/ k \in listed \cup contents
                \/ CommonPrefix(k) \in reported \cup prefixes

\* No key is listed twice, and none of those that its common prefix stands for:
\* the pages of a listing are disjoint, and every key in them is under the prefix.
KeysOnce ==
    /\ contents \cap listed = {}
    /\ \A k \in contents \cup listed : Matches(k) /\ CommonPrefix(k) = <<>>

\* A listing comes to its end, although objects are added while it runs.
ListingEnds == pc # "idle" ~> pc = "idle"
=============================================================================

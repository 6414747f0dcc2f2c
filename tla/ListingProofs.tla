--------------------------- MODULE ListingProofs ---------------------------
(***************************************************************************)
(* Theorems about Listing: pages keep to their size, no key is listed      *)
(* twice, and one that was there all along is listed.                      *)
(***************************************************************************)
EXTENDS Listing, FiniteSetTheorems, TLAPS

-----------------------------------------------------------------------------
(* Least and greatest numbers *)

\* A set of numbers has a least one: the intervals below its elements are
\* ordered by inclusion, which is well-founded on finite sets.
LEMMA LeastNumber ==
    ASSUME NEW S, S \subseteq Nat, S # {}
    PROVE  \E n \in S : \A m \in S : n <= m
<1> DEFINE R == StrictSubsetOrdering(Nat)
           U == FiniteSubsetsOf(Nat)
           T == {0..n : n \in S}
<1>1. IsWellFoundedOn(R, U)
  BY FS_StrictSubsetOrderingWellFounded
<1>2. \A n \in Nat : 0..n \in U /\ 0..n \in SUBSET Nat
  BY FS_Interval DEF FiniteSubsetsOf
<1>3. T \subseteq U /\ T # {}
  BY <1>2
<1>4. PICK x \in T : \A y \in T : ~(<<y, x>> \in R)
  <2> HIDE DEF R, U, T
  <2> QED
    BY <1>1, <1>3, WFMin
<1>5. PICK n \in S : x = 0..n
  BY <1>4
<1>6. ASSUME NEW m \in S, m < n PROVE FALSE
  <2>1. 0..m \in T
    OBVIOUS
  <2>2. 0..m \subseteq 0..n /\ n \in 0..n /\ n \notin 0..m
    BY <1>6
  <2>3. <<0..m, 0..n>> \in R
    BY <1>2, <2>2 DEF StrictSubsetOrdering
  <2> QED
    BY <1>4, <1>5, <2>1, <2>3
<1> QED
  BY <1>5, <1>6

LEMMA KeysAreNumbers == Len(Name) \in Nat /\ Key = 1..Len(Name) /\ IsFiniteSet(Key)
<1>1. Len(Name) \in Nat /\ Key = 1..Len(Name)
  BY NamesAssumption DEF Key
<1> QED
  BY <1>1, FS_Interval

LEMMA FiniteKeys == ASSUME NEW S, S \subseteq Key PROVE IsFiniteSet(S)
  BY KeysAreNumbers, FS_Subset

\* The last key of a batch.
LEMMA LastKey ==
    ASSUME NEW S, S \subseteq Key, S # {}
    PROVE  Last(S) \in S /\ \A j \in S : j <= Last(S)
<1> DEFINE T == {Len(Name) - k : k \in S}
<1>1. T \subseteq Nat /\ T # {}
  BY KeysAreNumbers
<1>2. PICK n \in T : \A m \in T : n <= m
  BY <1>1, LeastNumber
<1>3. PICK k \in S : n = Len(Name) - k
  BY <1>2
<1>4. ASSUME NEW j \in S PROVE j <= k
  <2>1. n <= Len(Name) - j
    BY <1>2
  <2>2. j \in Int /\ k \in Int /\ Len(Name) \in Int
    BY KeysAreNumbers
  <2> HIDE DEF T
  <2> QED
    BY <1>3, <2>1, <2>2
<1> QED
  BY <1>3, <1>4 DEF Last

\* ORDER BY key LIMIT n: at most n rows, and no row before one of them is left out.
LEMMA FirstRows ==
    ASSUME NEW S, S \subseteq Key, NEW n \in Nat
    PROVE  /\ First(S, n) \subseteq S
           /\ Cardinality(First(S, n)) \in 0..n
           /\ \A k \in First(S, n), j \in S : j <= k => j \in First(S, n)
<1> DEFINE F == First(S, n)
           upTo(k) == {j \in S : j <= k}
<1>1. F \subseteq S /\ \A k \in F : Cardinality(upTo(k)) <= n
  BY DEF First
<1>2. Cardinality(F) \in 0..n
  <2>1. CASE F = {}
    BY <2>1, FS_EmptySet
  <2>2. CASE F # {}
    <3>1. Last(F) \in F /\ F \subseteq upTo(Last(F))
      BY <1>1, <2>2, LastKey
    <3>2. IsFiniteSet(upTo(Last(F))) /\ IsFiniteSet(F)
      BY <1>1, FiniteKeys
    <3>3. Cardinality(F) <= Cardinality(upTo(Last(F)))
      BY <3>1, <3>2, FS_Subset
    <3>4. Cardinality(F) \in Nat /\ Cardinality(upTo(Last(F))) \in Nat
      BY <3>2, FS_CardinalityType
    <3> QED
      BY <1>1, <3>1, <3>3, <3>4
  <2> QED
    BY <2>1, <2>2
<1>3. ASSUME NEW k \in F, NEW j \in S, j <= k
      PROVE  j \in F
  <2>1. upTo(j) \subseteq upTo(k)
    <3>1. \A i \in S : i \in Int
      BY KeysAreNumbers
    <3>2. k \in Int /\ j \in Int
      BY <1>1, <1>3, <3>1
    <3>3. ASSUME NEW i \in S, i <= j PROVE i <= k
      BY <1>3, <3>1, <3>2, <3>3
    <3> QED
      BY <3>3
  <2>2. IsFiniteSet(upTo(k)) /\ IsFiniteSet(upTo(j))
    BY FiniteKeys
  <2>3. Cardinality(upTo(j)) <= Cardinality(upTo(k))
    BY <2>1, <2>2, FS_Subset
  <2>4. Cardinality(upTo(j)) \in Nat /\ Cardinality(upTo(k)) \in Nat
    BY <2>2, FS_CardinalityType
  <2>5. Cardinality(upTo(j)) <= n
    BY <1>1, <1>3, <2>3, <2>4
  <2> QED
    BY <2>5 DEF First
<1> QED
  BY <1>1, <1>2, <1>3

\* A batch emits at most one entry per row.
LEMMA EntriesOf ==
    ASSUME NEW B, B \subseteq Key
    PROVE  /\ IsFiniteSet(Alone(B)) /\ IsFiniteSet(Grouped(B))
           /\ Alone(B) \subseteq Key /\ Grouped(B) \subseteq Grouped(Key)
           /\ Cardinality(Alone(B)) + Cardinality(Grouped(B)) <= Cardinality(B)
<1> DEFINE A == Alone(B)
           D == B \ A
           f == [k \in D |-> CommonPrefix(k)]
<1>1. IsFiniteSet(B) /\ IsFiniteSet(A) /\ IsFiniteSet(D) /\ A \subseteq B
  BY FiniteKeys DEF Alone
<1>2. f \in Surjection(D, Grouped(B))
  <2>1. Grouped(B) = {f[k] : k \in D}
    BY DEF Grouped, Alone
  <2> QED
    BY <2>1 DEF Surjection
<1>3. IsFiniteSet(Grouped(B)) /\ Cardinality(Grouped(B)) <= Cardinality(D)
  BY <1>1, <1>2, FS_Surjection
<1>4. B \cap A = A
  BY <1>1
<1>5. Cardinality(D) = Cardinality(B) - Cardinality(A)
  BY <1>1, <1>4, FS_Difference
<1>6. /\ Cardinality(A) \in Nat /\ Cardinality(B) \in Nat /\ Cardinality(D) \in Nat
      /\ Cardinality(Grouped(B)) \in Nat
  BY <1>1, <1>3, FS_CardinalityType
<1>7. Grouped(B) \subseteq Grouped(Key)
  BY DEF Grouped
<1> QED
  BY <1>1, <1>3, <1>5, <1>6, <1>7

LEMMA GroupedKeysFinite == IsFiniteSet(Grouped(Key))
  BY EntriesOf

\* Adding entries to a page.
LEMMA UnionSize ==
    ASSUME NEW S, NEW T, IsFiniteSet(S), IsFiniteSet(T)
    PROVE  /\ IsFiniteSet(S \cup T)
           /\ Cardinality(S \cup T) \in Nat /\ Cardinality(S) \in Nat /\ Cardinality(T) \in Nat
           /\ Cardinality(S \cup T) <= Cardinality(S) + Cardinality(T)
<1>1. /\ IsFiniteSet(S \cup T) /\ IsFiniteSet(S \cap T)
      /\ Cardinality(S \cup T) = Cardinality(S) + Cardinality(T) - Cardinality(S \cap T)
  BY FS_Union, FS_Intersection
<1>2. /\ Cardinality(S \cup T) \in Nat /\ Cardinality(S) \in Nat /\ Cardinality(T) \in Nat
      /\ Cardinality(S \cap T) \in Nat
  BY <1>1, FS_CardinalityType
<1> QED
  BY <1>1, <1>2

-----------------------------------------------------------------------------
(* The invariant *)

\* A page that is full has as many entries as were asked for.
Filled == pc \in {"keyHasMoreAfter", "more"} => Emitted = PageSize

\* What has been listed lies before the place that the handler has reached.
Behind ==
    /\ \A k \in listed : k <= token
    /\ \A k \in contents : token < k /\ k <= cursor

Listable == \A k \in contents \cup listed : Matches(k) /\ CommonPrefix(k) = <<>>

\* What was there all along, up to the page and up to the cursor, has been listed.
Covered ==
    \A k \in stable :
        Matches(k) =>
            /\ k <= token => k \in listed \/ CommonPrefix(k) \in reported
            /\ k <= cursor => \/ k \in listed \cup contents
                              \/ CommonPrefix(k) \in reported \cup prefixes

\* ... and when the rows have come to their end the cursor is past all of them.
Exhausted ==
    pc \in {"keyHasMoreAfter", "last"} => \A k \in stable : Matches(k) => k <= cursor

ListInv == TypeOK /\ Filled /\ Behind /\ Listable /\ Covered /\ Exhausted

LEMMA ListInit == Init => ListInv
<1> SUFFICES ASSUME Init PROVE ListInv
  OBVIOUS
<1>1. Emitted = 0
  BY FS_EmptySet DEF Init, Emitted
<1>2. TypeOK
  BY <1>1, PageAssumption DEF Init, TypeOK
<1>3. Filled /\ Behind /\ Listable /\ Covered /\ Exhausted
  BY DEF Init, Filled, Behind, Listable, Covered, Exhausted
<1> QED
  BY <1>2, <1>3 DEF ListInv

\* A page that begins is empty and starts at the token.
LEMMA NewPage ==
    ASSUME NEW after, StartPage(after)
    PROVE  /\ pc' = "batch" /\ token' = after /\ cursor' = after
           /\ contents' = {} /\ prefixes' = {} /\ Emitted' = 0
  BY FS_EmptySet DEF StartPage, Emitted

LEMMA ListStart ==
    ASSUME ListInv, StartListing
    PROVE  ListInv'
<1>1. PICK after \in {0} \cup Key : StartPage(after) /\ stable' = {k \in keys : k > after}
  BY DEF StartListing
<1>2. listed' = {} /\ reported' = {} /\ keys' = keys /\ failures' = failures
  BY DEF StartListing
<1>3. TypeOK'
  BY <1>1, <1>2, NewPage, PageAssumption, KeysAreNumbers DEF ListInv, TypeOK, Step
<1>4. \A k \in stable' : ~(k <= after)
  BY <1>1, KeysAreNumbers DEF ListInv, TypeOK
<1>5. Filled' /\ Behind' /\ Listable' /\ Covered' /\ Exhausted'
  BY <1>1, <1>2, <1>4, NewPage DEF Filled, Behind, Listable, Covered, Exhausted
<1> QED
  BY <1>3, <1>5 DEF ListInv

\* One batch: its rows are the next ones that match, without a gap.
LEMMA ListBatch ==
    ASSUME ListInv, Batch
    PROVE  ListInv'
<1> DEFINE rows == After(cursor)
           n == PageSize - Emitted
           batch == First(rows, n)
           full == batch # {} /\ Emitted' >= PageSize
           more == batch # rows
<1>1. /\ TypeOK /\ pc = "batch" /\ UNCHANGED <<keys, token, listed, reported, failures, stable>>
      /\ contents' = contents \cup Alone(batch) /\ prefixes' = prefixes \cup Grouped(batch)
      /\ cursor' = IF batch = {} THEN cursor ELSE Last(batch)
  BY DEF ListInv, Batch
<1>2. /\ rows \subseteq keys /\ rows \subseteq Key
      /\ \A k \in rows : cursor < k /\ Matches(k)
      /\ \A k \in keys : Matches(k) /\ cursor < k => k \in rows
  BY <1>1, KeysAreNumbers DEF After, TypeOK
<1>3. IsFiniteSet(contents) /\ IsFiniteSet(prefixes)
  BY <1>1, FiniteKeys, GroupedKeysFinite, FS_Subset DEF TypeOK
<1>4. n \in Nat /\ Emitted \in Nat
  BY <1>1, <1>3, FS_CardinalityType, PageAssumption DEF TypeOK, Emitted
<1>5. /\ batch \subseteq rows /\ Cardinality(batch) \in 0..n
      /\ \A k \in batch, j \in rows : j <= k => j \in batch
  BY <1>2, <1>4, FirstRows
<1>6. /\ IsFiniteSet(Alone(batch)) /\ IsFiniteSet(Grouped(batch))
      /\ Alone(batch) \subseteq Key /\ Grouped(batch) \subseteq Grouped(Key)
      /\ Cardinality(Alone(batch)) + Cardinality(Grouped(batch)) <= Cardinality(batch)
  BY <1>2, <1>5, EntriesOf
<1>7. Emitted' \in Nat /\ Emitted' <= PageSize
  <2>1. /\ Cardinality(contents') <= Cardinality(contents) + Cardinality(Alone(batch))
        /\ Cardinality(contents') \in Nat /\ Cardinality(contents) \in Nat
        /\ Cardinality(Alone(batch)) \in Nat
    BY <1>1, <1>3, <1>6, UnionSize
  <2>2. /\ Cardinality(prefixes') <= Cardinality(prefixes) + Cardinality(Grouped(batch))
        /\ Cardinality(prefixes') \in Nat /\ Cardinality(prefixes) \in Nat
        /\ Cardinality(Grouped(batch)) \in Nat
    BY <1>1, <1>3, <1>6, UnionSize
  <2>3. Emitted' = Cardinality(contents') + Cardinality(prefixes')
    BY DEF Emitted
  <2>4. Emitted = Cardinality(contents) + Cardinality(prefixes)
    BY DEF Emitted
  <2> HIDE DEF batch
  <2> QED
    BY <1>4, <1>5, <1>6, <2>1, <2>2, <2>3, <2>4, PageAssumption
<1>8. /\ cursor' \in {0} \cup Key /\ cursor <= cursor'
      /\ \A k \in batch : cursor < k /\ k <= cursor'
      /\ \A k \in rows : k <= cursor' => k \in batch
  <2>1. CASE batch = {}
    BY <1>1, <1>2, <2>1, KeysAreNumbers DEF TypeOK
  <2>2. CASE batch # {}
    <3>1. Last(batch) \in batch /\ \A j \in batch : j <= Last(batch)
      BY <1>2, <1>5, <2>2, LastKey
    <3>2. cursor' = Last(batch)
      BY <1>1, <2>2
    <3>3. batch \subseteq Key /\ \A k \in rows : k \in Nat
      BY <1>2, <1>5, KeysAreNumbers
    <3>4. cursor \in Nat /\ cursor' \in Key /\ cursor' \in Nat
      BY <1>1, <3>1, <3>2, <3>3, KeysAreNumbers DEF TypeOK
    <3>5. cursor < cursor' /\ \A k \in batch : cursor < k /\ k <= cursor'
      BY <1>2, <1>5, <3>1, <3>2
    <3>6. \A k \in rows : k <= cursor' => k \in batch
      BY <1>5, <3>1, <3>2
    <3> QED
      BY <3>4, <3>5, <3>6
  <2> QED
    BY <2>1, <2>2
<1>9. /\ pc' \in {"more", "keyHasMoreAfter", "batch", "last"}
      /\ pc' \in {"more", "keyHasMoreAfter"} => full
      /\ pc' \in {"keyHasMoreAfter", "last"} => ~more
  <2>1. pc' = CASE full /\ more   -> "more"
                [] full /\ ~more  -> "keyHasMoreAfter"
                [] ~full /\ more  -> "batch"
                [] ~full /\ ~more -> "last"
    BY DEF Batch
  <2> HIDE DEF full, more
  <2> QED
    BY <2>1
<1> HIDE DEF batch
<1>10. Emitted' = PageSize \/ ~full
  BY <1>7, PageAssumption
<1> HIDE DEF n
<1>11. TypeOK'
  <2>1. token \in {0} \cup Key /\ token <= cursor'
    <3>1. token \in Nat /\ cursor \in Nat /\ cursor' \in Nat /\ token <= cursor
      BY <1>1, <1>8, KeysAreNumbers DEF TypeOK
    <3> QED
      BY <1>1, <1>8, <3>1 DEF TypeOK
  <2>2. contents' \subseteq Key /\ prefixes' \subseteq Grouped(Key)
    BY <1>1, <1>6 DEF TypeOK
  <2>3. pc' \in Step \cup {"idle"} /\ (pc' = "more" => Emitted' = PageSize)
    BY <1>9, <1>10 DEF Step
  <2> QED
    BY <1>1, <1>7, <1>8, <2>1, <2>2, <2>3 DEF TypeOK
<1>12. Filled'
  BY <1>9, <1>10 DEF Filled
<1>13. Behind'
  <2>1. \A k \in Alone(batch) : k \in batch
    BY DEF Alone
  <2>2. token \in Nat /\ cursor \in Nat /\ cursor' \in Nat /\ token <= cursor
    BY <1>1, <1>8, KeysAreNumbers DEF TypeOK
  <2>3. \A k \in contents \cup batch : k \in Nat
    <3>1. contents \cup batch \subseteq Key
      BY <1>1, <1>2, <1>5 DEF TypeOK
    <3> QED
      BY <3>1, KeysAreNumbers
  <2> QED
    BY <1>1, <1>8, <2>1, <2>2, <2>3 DEF ListInv, Behind
<1>14. Listable'
  BY <1>1, <1>2, <1>5 DEF ListInv, Listable, Alone
<1>15. ASSUME NEW k \in stable, Matches(k), k <= cursor'
       PROVE  k \in listed \cup contents' \/ CommonPrefix(k) \in reported \cup prefixes'
  <2>1. k \in keys /\ k \in Nat /\ cursor \in Nat
    BY <1>1, KeysAreNumbers DEF TypeOK
  <2>2. CASE k <= cursor
    BY <1>1, <1>15, <2>2 DEF ListInv, Covered
  <2>3. CASE cursor < k
    <3>1. k \in batch
      BY <1>2, <1>8, <1>15, <2>1, <2>3
    <3>2. k \in Alone(batch) \/ CommonPrefix(k) \in Grouped(batch)
      BY <3>1 DEF Alone, Grouped
    <3> QED
      BY <1>1, <3>2
  <2> QED
    BY <2>1, <2>2, <2>3
<1>16. Covered'
  BY <1>1, <1>15 DEF ListInv, Covered
<1>17. Exhausted'
  <2>1. ASSUME NEW k \in stable, Matches(k), ~more PROVE k <= cursor'
    <3>1. k \in keys /\ k \in Nat /\ cursor \in Nat /\ cursor' \in Nat
      BY <1>1, <1>8, KeysAreNumbers DEF TypeOK
    <3>2. CASE cursor < k
      BY <1>2, <1>8, <2>1, <3>1, <3>2
    <3> QED
      BY <1>8, <3>1, <3>2
  <2> HIDE DEF more
  <2> QED
    BY <1>1, <1>9, <2>1 DEF Exhausted, Matches
<1> QED
  BY <1>11, <1>12, <1>13, <1>14, <1>16, <1>17 DEF ListInv

LEMMA ListMore ==
    ASSUME ListInv, KeyHasMoreAfter
    PROVE  ListInv'
<1>1. /\ TypeOK /\ pc = "keyHasMoreAfter" /\ pc' \in {"more", "last"}
      /\ UNCHANGED <<keys, token, cursor, contents, prefixes, listed, reported, stable>>
  BY DEF ListInv, KeyHasMoreAfter, page
<1>2. failures' \in 0..MaxFailures
  BY PageAssumption DEF ListInv, TypeOK, KeyHasMoreAfter, ListFails
<1>3. Emitted' = PageSize
  BY <1>1 DEF ListInv, Filled, Emitted
<1>4. TypeOK'
  BY <1>1, <1>2, <1>3, PageAssumption DEF TypeOK, Step
<1>5. Filled' /\ Behind' /\ Listable' /\ Covered' /\ Exhausted'
  BY <1>1, <1>3 DEF ListInv, Filled, Behind, Listable, Covered, Exhausted, Matches,
                    CommonPrefix, Delimiters
<1> QED
  BY <1>4, <1>5 DEF ListInv

\* The page is asked for again, from the same token.
LEMMA ListFail ==
    ASSUME ListInv, Fail
    PROVE  ListInv'
<1>1. /\ TypeOK /\ StartPage(token) /\ UNCHANGED <<keys, listed, reported, stable>>
  BY DEF ListInv, Fail
<1>2. failures' \in 0..MaxFailures
  BY PageAssumption DEF ListInv, TypeOK, Fail, ListFails
<1>3. TypeOK'
  BY <1>1, <1>2, NewPage, PageAssumption, KeysAreNumbers DEF TypeOK, Step
<1>4. Filled' /\ Behind' /\ Listable' /\ Covered' /\ Exhausted'
  BY <1>1, NewPage DEF ListInv, Filled, Behind, Listable, Covered, Exhausted
<1> QED
  BY <1>3, <1>4 DEF ListInv

LEMMA ListNextPage ==
    ASSUME ListInv, NextPage
    PROVE  ListInv'
<1>1. /\ TypeOK /\ StartPage(cursor) /\ UNCHANGED <<keys, failures, stable>>
      /\ listed' = listed \cup contents /\ reported' = reported \cup prefixes
  BY DEF ListInv, NextPage
<1>2. TypeOK'
  BY <1>1, NewPage, PageAssumption, KeysAreNumbers DEF TypeOK, Step
<1>3. Behind'
  <2>1. token \in Nat /\ cursor \in Nat /\ token <= cursor /\ \A k \in listed : k \in Nat
    BY <1>1, KeysAreNumbers DEF TypeOK
  <2> QED
    BY <1>1, <2>1, NewPage DEF ListInv, Behind
<1>4. Filled' /\ Listable' /\ Covered' /\ Exhausted'
  BY <1>1, NewPage DEF ListInv, Filled, Listable, Covered, Exhausted
<1> QED
  BY <1>2, <1>3, <1>4 DEF ListInv

LEMMA ListEnd ==
    ASSUME ListInv, EndListing
    PROVE  ListInv'
<1>1. Emitted' = 0
  BY FS_EmptySet DEF EndListing, Emitted
<1>2. TypeOK'
  BY <1>1, PageAssumption DEF ListInv, TypeOK, EndListing
<1>3. Filled' /\ Behind' /\ Listable' /\ Covered' /\ Exhausted'
  BY DEF EndListing, Filled, Behind, Listable, Covered, Exhausted
<1> QED
  BY <1>2, <1>3 DEF ListInv

\* Objects that come and go change no page, and what goes was not there all along.
LEMMA ListOthers ==
    ASSUME ListInv, PutKey \/ DeleteKey \/ UNCHANGED vars
    PROVE  ListInv'
<1>1. /\ UNCHANGED <<pc, token, cursor, contents, prefixes, listed, reported, failures>>
      /\ stable' \subseteq stable /\ stable' \subseteq keys' /\ keys' \subseteq Key
  BY DEF ListInv, TypeOK, PutKey, DeleteKey, vars, page
<1>2. Emitted' = Emitted
  BY <1>1 DEF Emitted
<1>3. TypeOK'
  BY <1>1, <1>2 DEF ListInv, TypeOK, Step
<1>4. Filled' /\ Behind' /\ Listable' /\ Covered' /\ Exhausted'
  BY <1>1, <1>2 DEF ListInv, Filled, Behind, Listable, Covered, Exhausted, Matches,
                    CommonPrefix, Delimiters
<1> QED
  BY <1>3, <1>4 DEF ListInv

LEMMA ListNext == ListInv /\ [Next]_vars => ListInv'
  BY ListStart, ListBatch, ListMore, ListFail, ListNextPage, ListEnd, ListOthers
     DEF Next, ListStep

-----------------------------------------------------------------------------
(* Theorems *)

LEMMA ListSafe == Spec => []ListInv
<1>1. Init => ListInv
  BY ListInit
<1>2. ListInv /\ [Next]_vars => ListInv'
  BY ListNext
<1> QED
  BY <1>1, <1>2, PTL DEF Spec

\* Every variable keeps its type; no page has more entries than max-keys, and one
\* that is not the last has exactly as many, however many rows share a common
\* prefix and whatever comes and goes between two batches (listObjectsV2).
THEOREM TypeCorrect == Spec => []TypeOK
<1>1. ListInv => TypeOK
  BY DEF ListInv
<1> QED
  BY <1>1, ListSafe, PTL

\* The pages of a listing share no key, and no key is listed that is not under the
\* prefix or that its common prefix stands for (listObjectsV2).
THEOREM ListedOnce == Spec => []KeysOnce
<1>1. ListInv => KeysOnce
  <2> SUFFICES ASSUME ListInv PROVE KeysOnce
    OBVIOUS
  <2>1. ASSUME NEW k \in contents \cap listed PROVE FALSE
    <3>1. k \in Nat /\ token \in Nat
      <4>1. k \in Key /\ token \in {0} \cup Key
        BY <2>1 DEF ListInv, TypeOK
      <4> QED
        BY <4>1, KeysAreNumbers
    <3>2. k <= token /\ token < k
      BY <2>1 DEF ListInv, Behind
    <3> QED
      BY <3>1, <3>2
  <2> QED
    BY <2>1 DEF KeysOnce, ListInv, Listable
<1> QED
  BY <1>1, ListSafe, PTL

\* Go's len of an ASCII string counts its characters.
LEMMA AsciiLength ==
    ASSUME NEW s \in Seq(Char), \A i \in 1..Len(s) : Width[s[i]] = 1
    PROVE  ByteLen(s) = Len(s)
<1> DEFINE sum(g) == [n \in 0..Len(s) |-> IF n = 0 THEN 0 ELSE g[n - 1] + Width[s[n]]]
           f == CHOOSE g : g = sum(g)
           id == [n \in 0..Len(s) |-> n]
<1>1. Len(s) \in Nat
  OBVIOUS
<1>2. id = sum(id)
  BY <1>1
<1>3. f = sum(f)
  BY <1>2
<1>4. ByteLen(s) = f[Len(s)]
  BY DEF ByteLen
<1> HIDE DEF f, id
<1>5. f[0] = 0 /\ \A n \in 1..Len(s) : f[n] = f[n - 1] + 1
  BY <1>1, <1>3
<1> DEFINE wrong == {n \in 0..Len(s) : f[n] # n}
<1>6. wrong = {}
  <2> SUFFICES ASSUME wrong # {} PROVE FALSE
    OBVIOUS
  <2>1. PICK n \in wrong : \A m \in wrong : n <= m
    <3>1. wrong \subseteq Nat
      BY <1>1
    <3> HIDE DEF wrong
    <3> QED
      BY <3>1, LeastNumber
  <2>2. n \in 1..Len(s)
    BY <1>5, <2>1
  <2>3. f[n - 1] = n - 1
    BY <1>1, <2>1, <2>2
  <2> QED
    BY <1>5, <2>1, <2>2, <2>3
<1> QED
  BY <1>1, <1>4, <1>6

\* "ListObjects returns up to `limit` objects within bucket whose key starts with
\* prefix" (metadata.go:242): for a prefix in ASCII, whose characters have one byte,
\* no key that was there all along is missed, by any sequence of pages, failed calls,
\* additions and deletions.
THEOREM StableListed ==
    ASSUME \A i \in 1..Len(Prefix) : Width[Prefix[i]] = 1
    PROVE  Spec => []StableKeysListed
<1>1. ByteLen(Prefix) = Len(Prefix)
  BY NamesAssumption, AsciiLength
<1>2. ListInv => StableKeysListed
  <2> SUFFICES ASSUME ListInv, pc = "last", NEW k \in stable, StartsWith(k, Prefix)
               PROVE  \/ k \in listed \cup contents
                      \/ CommonPrefix(k) \in reported \cup prefixes
    BY DEF StableKeysListed
  <2>1. Matches(k)
    BY <1>1 DEF Matches, StartsWith
  <2>2. k <= cursor
    BY <2>1 DEF ListInv, Exhausted
  <2> QED
    BY <2>1, <2>2 DEF ListInv, Covered
<1> QED
  BY <1>2, ListSafe, PTL
=============================================================================

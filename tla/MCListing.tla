----------------------------- MODULE MCListing -----------------------------
(***************************************************************************)
(* Instances of Listing for TLC: six keys in the order of their bytes, the *)
(* prefix with one character of one or of two bytes.                       *)
(***************************************************************************)
EXTENDS Listing

\* d/ and e/ with several keys each, keys without a delimiter and one that is
\* not under the prefix p.
Names == << <<"p", "a">>, <<"p", "d", "/", "a">>, <<"p", "d", "/", "b">>,
            <<"p", "d", "/", "c">>, <<"p", "z">>, <<"q">> >>

OneByte == [c \in Char |-> 1]
TwoBytes == [c \in Char |-> IF c = "p" THEN 2 ELSE 1]
OfP == <<"p">>
=============================================================================

---------------------------- MODULE MCMultipart ----------------------------
(***************************************************************************)
(* Instances of Multipart for TLC. A body has the block of its own that    *)
(* tells it apart; bodies of one part are of one size (as of an SDK that   *)
(* sends a file again) or of different sizes.                              *)
(***************************************************************************)
EXTENDS Multipart, TLC

SameSize == <<{<<"a", "a">>, <<"b", "b">>}>>
OtherSize == <<{<<"a">>, <<"b", "b">>}>>
TwoParts == <<{<<"a">>, <<"b", "b">>}, {<<"c">>}>>

Symmetry == Permutations(Request) \cup Permutations(Key)
=============================================================================

-------------------------- MODULE MCObjectService --------------------------
(***************************************************************************)
(* Instances of ObjectService for TLC. Goroutines, bucket names and object *)
(* keys are model values that no definition tells apart.                   *)
(***************************************************************************)
EXTENDS ObjectServiceRefinement, TLC

Symmetry == Permutations(Request) \cup Permutations(Bucket) \cup Permutations(Key)
=============================================================================

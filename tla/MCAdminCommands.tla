-------------------------- MODULE MCAdminCommands --------------------------
(***************************************************************************)
(* Instances of AdminCommands for TLC. Goroutines are model values that no *)
(* definition tells apart.                                                 *)
(***************************************************************************)
EXTENDS AdminCommands, TLC

Symmetry == Permutations(Request) \cup Permutations(Bucket) \cup Permutations(Key)
=============================================================================

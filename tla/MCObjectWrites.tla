-------------------------- MODULE MCObjectWrites --------------------------
(***************************************************************************)
(* Instances of ObjectWrites, and with it of ObjectReads, for TLC.         *)
(***************************************************************************)
EXTENDS ObjectWrites
=============================================================================

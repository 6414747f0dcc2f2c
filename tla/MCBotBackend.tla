---------------------------- MODULE MCBotBackend ----------------------------
(***************************************************************************)
(* Instances of BotBackend for TLC. No symmetry: the liveness property     *)
(* names the callers.                                                      *)
(***************************************************************************)
EXTENDS BotBackend
=============================================================================

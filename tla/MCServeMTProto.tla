-------------------------- MODULE MCServeMTProto --------------------------
(***************************************************************************)
(* An instance of ServeMTProto alone for TLC. MCDaemon has the other one.  *)
(***************************************************************************)
EXTENDS ServeMTProto
=============================================================================

-------------------------- MODULE MCBodiesCommands --------------------------
(***************************************************************************)
(* An instance of ObjectWrites, and with it of ObjectReads, and one of     *)
(* AdminCommands for TLC. The two share no state, and either is followed   *)
(* alone: the other stays where it started.                                *)
(***************************************************************************)
EXTENDS MCAdminCommands, MCObjectWrites

VARIABLE followed

BothInit ==
    /\ AdminInit /\ WritesInit
    /\ followed \in {"bodies", "commands"}

BothNext ==
    /\ \/ followed = "bodies" /\ WritesNext /\ UNCHANGED allVars
       \/ followed = "commands" /\ AdminNext /\ UNCHANGED <<readVars, writeVars>>
    /\ UNCHANGED followed

BothSpec == BothInit /\ [][BothNext]_<<followed, allVars, readVars, writeVars>>
=============================================================================

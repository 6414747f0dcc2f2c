------------------------------ MODULE MCDaemon ------------------------------
(***************************************************************************)
(* An instance of Listing and one of ServeMTProto for TLC. The two share   *)
(* no state, and either is followed alone: the other stays where it        *)
(* started. No symmetry: a liveness property names the handlers.           *)
(***************************************************************************)
EXTENDS MCListing, ServeMTProto

VARIABLE followed

DaemonInit ==
    /\ Init /\ ServeInit
    /\ \/ followed = "listing" /\ posted = {}
       \/ followed = "serve" /\ keys = {}

DaemonNext ==
    /\ \/ followed = "listing" /\ Next /\ UNCHANGED serveVars
       \/ followed = "serve" /\ ServeNext /\ UNCHANGED vars
    /\ UNCHANGED followed

\* No fairness asks for a step of the component that is not followed: at its start no
\* listing has begun, no signal has come and nothing has been given to a handler.
DaemonSpec ==
    /\ DaemonInit /\ [][DaemonNext]_<<followed, vars, serveVars>>
    /\ ListFairness /\ Fairness
=============================================================================

---------------------------- MODULE MC_Connection ----------------------------
(***************************************************************************)
(* Connections opened one after another by one process: two remote hosts   *)
(* and this machine, a port that is refused, up to two addresses a name.   *)
(***************************************************************************)
EXTENDS Connection

MC_CaseFold == [h \in Hosts |-> h]

=============================================================================

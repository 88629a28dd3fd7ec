------------------------------ MODULE MCDeletion ------------------------------
(* Instances of Deletion: the first surface, the last and, between them, the   *)
(* one that a grant may write into.                                            *)
EXTENDS Deletion

MCDeleteOrder == <<"provider_copies", "projections", "events">>
MCExternal == {"agent_runs"}
=============================================================================

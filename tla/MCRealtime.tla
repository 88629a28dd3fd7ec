------------------------------ MODULE MCRealtime ------------------------------
(***************************************************************************)
(* Instances of the realtime path for TLC.                                 *)
(***************************************************************************)
EXTENDS Realtime, TLC
===============================================================================

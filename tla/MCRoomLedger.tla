----------------------------- MODULE MCRoomLedger -----------------------------
(***************************************************************************)
(* Instances of the room ledger for TLC.                                   *)
(***************************************************************************)
EXTENDS RoomLedger, TLC

MCSymmetry ==
    Permutations(Students) \cup Permutations(LifecycleCommands) \cup Permutations(MessageCommands)
===============================================================================

------------------------------- MODULE MCServer -------------------------------
(***************************************************************************)
(* Parts of the server that share no state, for TLC: the leases of the       *)
(* queue, presence, the room export and the admission of Agent runs.  A      *)
(* behaviour is one of the part its scene names; the others stay as they     *)
(* are at the start.                                                         *)
(***************************************************************************)
EXTENDS JobQueue, Presence, Export, ProviderHealth, TLC

CONSTANTS r1, c1, c2, rp, a1, x1, k1, k2

VARIABLE scene

Scenes == {"queue", "presence", "export", "provider"}

\* Every job belongs to the room r1.
MCRoom == [j \in Jobs |-> r1]

\* rp replays the room through the first event: it sorts between c1 and c2.
MCOrder == [j \in Jobs |-> CASE j = c1 -> 1 [] j = rp -> 2 [] j = c2 -> 3 [] OTHER -> 0]

MCSymmetry == Permutations(Workers) \cup Permutations({k1, k2})

ServerInit ==
    /\ scene \in Scenes
    /\ Init /\ PresenceInit /\ ExportInit /\ ProviderInit

ServerNext ==
    \/ /\ scene = "queue" /\ Next
       /\ UNCHANGED <<scene, presenceVars, exportVars, providerVars>>
    \/ /\ scene = "presence" /\ PresenceNext
       /\ UNCHANGED <<scene, vars, exportVars, providerVars>>
    \/ /\ scene = "export" /\ ExportNext
       /\ UNCHANGED <<scene, vars, presenceVars, providerVars>>
    \/ /\ scene = "provider" /\ ProviderNext
       /\ UNCHANGED <<scene, vars, presenceVars, exportVars>>

ServerSpec ==
    ServerInit /\ [][ServerNext]_<<scene, vars, presenceVars, exportVars, providerVars>>
===============================================================================

------------------------------ MODULE MCPremises ------------------------------
(***************************************************************************)
(* Who gets into a room, and the command that proves the whole installation  *)
(* by starting it, for TLC: the pages of one browser with two tabs and one    *)
(* seat, and one run of the local pilot.  They share no state; a behaviour is *)
(* one of the part its scene names.                                           *)
(***************************************************************************)
EXTENDS Access, Pilot

VARIABLE scene

PremisesInit ==
    /\ scene \in {"access", "pilot"}
    /\ AccessInit /\ PilotInit
    /\ scene = "access" => host = CHOOSE h \in Hosts : TRUE

PremisesNext ==
    \/ scene = "access" /\ AccessNext /\ UNCHANGED <<scene, pilotVars>>
    \/ scene = "pilot" /\ PilotNext /\ UNCHANGED <<scene, accessVars>>

\* A step of the part of scene s.
In(s, A) == scene = s /\ A

\* Requests are served and answered, sockets are admitted, heartbeats beat and
\* closes arrive.  The user, other devices, losses and the end of a deletion owe nothing.
AccessFairness ==
    \A t \in Tabs :
       /\ WF_accessVars(In("access", \E r \in net : /\ r.tab = t
                                                    /\ Serve(r) \/ StoreCookie(r) \/ Receive(r)))
       /\ WF_accessVars(In("access", SocketStep(t)))

\* Every command, request and wait of the pilot has a timeout.
PilotFairness ==
    WF_pilotVars(In("pilot", Preflight \/ Stage \/ Cleanup \/ WriteLocalPilotReceipt))

PremisesSpec ==
    /\ PremisesInit
    /\ [][PremisesNext]_<<scene, accessVars, pilotVars>>
    /\ AccessFairness /\ PilotFairness

\* Whatever fails comes to an end.  A page that waits comes to rest: every answer,
\* refusal and loss leads on, and the deletion panel shows the receipt once the
\* deletion is done; a page with a socket leaves a room that is deleted, also when
\* the socket joined the hub after the eviction, or when nothing evicted it
\* (room-access-client, RoomConnection's heartbeat).  A run of the pilot ends
\* (verify-local-pilot's finally block, the timeout of every command).
Underway ==
    \/ scene = "access" /\ \E t \in Tabs : PageWaits(t) \/ PageLingers(t)
    \/ scene = "pilot" /\ phase # "ended"

PremisesSettle == Underway ~> ~Underway
===============================================================================

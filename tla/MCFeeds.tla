------------------------------- MODULE MCFeeds -------------------------------
(***************************************************************************)
(* What follows the room on other clocks, for TLC: the stream of analytics  *)
(* jobs, a student's analytics panel, the teacher's console and the status   *)
(* of Nova.  A behaviour is one of the part its scene names; the others stay *)
(* as they are at the start.                                                 *)
(***************************************************************************)
EXTENDS JobQueue, Visibility, Console, Nova, TLC

CONSTANTS r1, c1, c2, rp

VARIABLE scene

\* Every job belongs to the room r1.
MCRoom == [j \in Jobs |-> r1]

\* rp replays the room through the first event: it sorts between c1 and c2.
MCOrder == (c1 :> 1) @@ (rp :> 2) @@ (c2 :> 3)

FeedsInit ==
    /\ scene \in {"stream", "panel", "console", "nova"}
    /\ Init /\ VisibilityInit /\ ConsoleInit /\ NovaInit
    /\ scene # "console" => ~board.folded
    /\ scene # "nova" => health = "healthy"

FeedsNext ==
    \/ /\ scene = "stream" /\ Next
       /\ UNCHANGED <<scene, visibilityVars, consoleVars, novaVars>>
    \/ /\ scene = "panel" /\ VisibilityNext
       /\ UNCHANGED <<scene, vars, consoleVars, novaVars>>
    \/ /\ scene = "console" /\ ConsoleNext
       /\ UNCHANGED <<scene, vars, visibilityVars, novaVars>>
    \/ /\ scene = "nova" /\ NovaNext
       /\ UNCHANGED <<scene, vars, visibilityVars, consoleVars>>

\* A step of the part of scene s.
In(s, A) == scene = s /\ A

\* The clock advances past run_after and past lapsed leases, a handler ends, and
\* the supervisors keep claiming in run_after order (Progress).
StreamFairness ==
    /\ \A j \in Jobs : /\ WF_vars(In("stream", BecomeReady(j)))
                       /\ WF_vars(In("stream", LeaseExpires(j)))
                       /\ WF_vars(In("stream", \E w \in Workers : Claim(w, j)))
    /\ \A w \in Workers : WF_vars(In("stream", Progress(w)))

\* Every part of the system that is waiting only for itself goes on: the
\* publisher's and the sockets' timers, the promises of the listener, the
\* browser's fetches, and the database coming back.
PanelFairness ==
    /\ WF_visibilityVars(In("panel", OutageEnds))
    /\ WF_visibilityVars(In("panel", ListenerConnect)) /\ WF_visibilityVars(In("panel", Listen))
    /\ WF_visibilityVars(In("panel", Reconcile)) /\ WF_visibilityVars(In("panel", Apply))
    /\ WF_visibilityVars(In("panel", \E over \in announces : Announce(over)))
    /\ WF_visibilityVars(In("panel", \E ptr \in pointers : PublishPointer(ptr)))
    /\ WF_visibilityVars(In("panel", SocketConnects))
    /\ WF_visibilityVars(In("panel", ResumeEnds)) /\ WF_visibilityVars(In("panel", AcceptFrame))
    /\ WF_visibilityVars(In("panel", \E t \in tasks : ReadRoute(t) \/ Fallback(t) \/ EndTask(t)))

\* Requests are answered or fail, the worker publishes what is owed, and the page
\* follows the head.
ConsoleFairness ==
    /\ WF_consoleVars(In("console", ServeAction)) /\ WF_consoleVars(In("console", ReceiveAction))
    /\ WF_consoleVars(In("console", Publish)) /\ WF_consoleVars(In("console", EchoArrives))

\* The 1.5 s timer ends a request; the server answers and a reply arrives or not.
NovaFairness ==
    WF_novaVars(In("nova", \E a \in asks : FailCurrent(a) \/ ReceiveCurrent(a)))

FeedsSpec ==
    /\ FeedsInit
    /\ [][FeedsNext]_<<scene, vars, visibilityVars, consoleVars, novaVars>>
    /\ StreamFairness /\ PanelFairness /\ ConsoleFairness /\ NovaFairness

\* What follows the room catches up with it.  Every job that was enqueued is
\* settled, a lapsed lease being taken over (claim_worker_job.sql); a panel that
\* says ready shows the head, and what was revoked leaves it, although pointers
\* and notices are lost, refused, repeated and overtaken; the console's action
\* ends, and an authority whose fact was accepted is replaced; the status of Nova
\* is confirmed or given up.
Unsettled ==
    \/ scene = "stream" /\ \E j \in Jobs : Owed(j)
    \/ scene = "panel" /\ (PanelBehind \/ RevokedOnScreen)
    \/ scene = "console" /\ ConsoleBusy
    \/ scene = "nova" /\ Confirming

FeedsSettle == Unsettled ~> ~Unsettled
===============================================================================

----------------------------- MODULE MCClassroom -----------------------------
(***************************************************************************)
(* The composed classroom for TLC, in two scenes that differ in what the    *)
(* users do: in one a message is written and Nova is asked about it, in the *)
(* other the teacher pauses, resumes and closes while the room falls due.   *)
(* The workers, the clocks and the deletion do the same in both.            *)
(***************************************************************************)
EXTENDS Classroom

VARIABLE scene

MCClassInit == scene \in {"agent", "lifecycle"} /\ ClassInit

Opener == CHOOSE c \in LifecycleCommands : TRUE

\* What the users of a scene leave alone.  Where Nova is asked nobody signs out.
AgentScene ==
    /\ calls' = {}
    /\ sessions \subseteq sessions' \/ erasing'
    /\ \A i \in DOMAIN log' : log'[i].cause \notin LifecycleCommands \ {Opener}
LifecycleScene ==
    /\ sessions' \cap Students = {}
    /\ \A i \in DOMAIN log' : log'[i].msg \notin Messages

MCClassNext ==
    /\ ClassNext
    /\ scene = "agent" => AgentScene
    /\ scene = "lifecycle" => LifecycleScene
    /\ UNCHANGED scene

QueueAlone == UNCHANGED <<roomVars, agentVars>>

\* The clocks advance, supervisors keep claiming and their handlers end, and the
\* server's timer keeps reconciling runs.  No user is assumed to do anything.
MCClassFairness ==
    /\ WF_classVars(FallDue /\ UNCHANGED <<queueVars, agentVars>>)
    /\ \A j \in JobIds :
          /\ WF_classVars(QueueAlone /\ Q!BecomeReady(j))
          /\ WF_classVars(QueueAlone /\ Q!LeaseExpires(j))
          /\ WF_classVars(QueueAlone /\ \E w \in Workers : Q!Claim(w, j))
    /\ \A w \in Workers : WF_classVars(QueueAlone /\ Q!Progress(w))
    /\ \A g \in Runs : WF_classVars(SelectOrphan(g))
    /\ \A o \in Runs \X {"failed", "cancelled"} : WF_classVars(SettleOrphan(o))

MCClassSpec == MCClassInit /\ [][MCClassNext]_<<scene, classVars>> /\ MCClassFairness
===============================================================================

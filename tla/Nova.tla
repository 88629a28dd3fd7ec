--------------------------------- MODULE Nova ---------------------------------
(***************************************************************************)
(* What a page says of the Agent: the runs and the policy on the server, the *)
(* status a page asks for and the merge of the answers into the one frame   *)
(* the status panel reads.                                                 *)
(*                                                                         *)
(* The server stamps runs and answers inside transactions that hold the     *)
(* room's lock; the clock is taken to move between two stamps (Stamp).  The *)
(* provider's health is ProviderHealth's ServiceHealth, here any value at   *)
(* any time; the rest of a run's life is module Classroom's.                *)
(***************************************************************************)
EXTENDS Naturals, Sequences

CONSTANTS
    MaxTime,    \* bound: the clock
    MaxRuns,    \* bound: runs created
    MaxRefreshes \* bound: status requests of the page

ASSUME NovaAssumption == MaxTime \in Nat /\ MaxRuns \in Nat /\ MaxRefreshes \in Nat

VARIABLES
    now,        \* the server's clock
    health,     \* ServiceHealth of module ProviderHealth
    allowed,    \* classroom_room.agent_enabled
    runs,       \* agent_run, in the order of creation
    live,       \* the page has not been cleared (#room is set)
    refreshes,  \* #agentRefreshGeneration
    asks,       \* status requests under way
    frame,      \* agentStatus: {} or the merged frame
    runAt,      \* #agentRunUpdatedAt
    metaAt,     \* #agentMetaUpdatedAt
    statusPending,    \* agentStatusPending
    unsure,     \* agentServiceUnavailable
    answer      \* history: the latest answer the page has merged, or {}

novaRoom == <<allowed, runs>>
novaPage == <<live, refreshes, asks, frame, runAt, metaAt, statusPending, unsure, answer>>
novaVars == <<now, health, novaRoom, novaPage>>

TerminalRun == {"completed", "cancelled", "failed"}   \* TERMINAL_AGENT_STATES

Healths == {"healthy", "degraded", "unavailable"}

NovaInit ==
    /\ now = 0 /\ health \in Healths
    /\ allowed = TRUE /\ runs = <<>>
    /\ live = TRUE /\ refreshes = 0 /\ asks = {}
    /\ frame = {} /\ runAt = 0 /\ metaAt = 0
    /\ statusPending = FALSE /\ unsure = FALSE /\ answer = {}

\* clock.now() of a transaction that writes it: later than every stamp before it.
Stamp == now + 1
Stamped == now < MaxTime /\ now' = Stamp

HealthMoves ==
    /\ health' \in Healths \ {health}
    /\ UNCHANGED <<now, novaRoom, novaPage>>

-----------------------------------------------------------------------------
(* Runs and the policy *)

Active == {i \in DOMAIN runs : runs[i].state = "queued"}

\* AgentService.request as far as a new run goes: under the room's lock, with
\* the health row held, one active run at most.  A refusal changes nothing.
RequestRun ==
    /\ Len(runs) < MaxRuns /\ allowed /\ Active = {}
    /\ health = "healthy"
    /\ Stamped
    /\ runs' = Append(runs, [state |-> "queued", at |-> Stamp])
    /\ UNCHANGED <<health, allowed, novaPage>>

\* The worker's completion, the reconciler or a teacher ends the run.
SettleRun(i, st) ==
    /\ i \in Active
    /\ Stamped
    /\ runs' = [runs EXCEPT ![i] = [state |-> st, at |-> Stamp]]
    /\ UNCHANGED <<health, allowed, novaPage>>

\* setEnabled: disabling withdraws the active run in the same transaction.
SetEnabled(e) ==
    /\ e # allowed
    /\ Stamped
    /\ allowed' = e
    /\ runs' = [i \in DOMAIN runs |->
                  IF ~e /\ i \in Active THEN [state |-> "cancelled", at |-> Stamp] ELSE runs[i]]
    /\ UNCHANGED <<health, novaPage>>

-----------------------------------------------------------------------------
(* The status a page asks for *)

\* #refreshAgentCurrent: a new request supersedes the one before it.
Refreshing ==
    /\ live /\ refreshes < MaxRefreshes
    /\ refreshes' = refreshes + 1
    /\ asks' = asks \cup {[by |-> refreshes + 1, step |-> "asked", health |-> {}, told |-> {}]}
    /\ statusPending' = TRUE
    /\ UNCHANGED <<live, frame, runAt, metaAt, unsure, answer>>

\* resume_complete, after every (re)connect of the socket, and
\* updateAgentPolicy once the server has confirmed the teacher's change.
ResumeComplete ==
    /\ Refreshing
    /\ UNCHANGED <<now, health, novaRoom>>

\* getCurrent reads the health before it opens the room's transaction.
ReadHealth(a) ==
    /\ a \in asks /\ a.step = "asked"
    /\ asks' = (asks \ {a}) \cup {[a EXCEPT !.step = "health", !.health = {health}]}
    /\ UNCHANGED <<now, health, novaRoom, live, refreshes, frame, runAt, metaAt, statusPending,
                   unsure, answer>>

\* The run last updated: ORDER BY updated_at DESC LIMIT 1.
LatestRun == {i \in DOMAIN runs : \A j \in DOMAIN runs : runs[j].at <= runs[i].at}

ShownRun(i) == IF i = {} THEN [id |-> 0, state |-> "idle"]
            ELSE [id |-> CHOOSE j \in i : TRUE, state |-> runs[CHOOSE j \in i : TRUE].state]

ReadCurrent(a) ==
    /\ a \in asks /\ a.step = "health"
    /\ Stamped
    /\ LET i == LatestRun
           current == [run |-> ShownRun(i),
                       runAt |-> IF i = {} THEN Stamp ELSE runs[CHOOSE j \in i : TRUE].at,
                       health |-> CHOOSE h \in a.health : TRUE,
                       allowed |-> allowed, at |-> Stamp]
       IN asks' = (asks \ {a}) \cup {[a EXCEPT !.step = "answered", !.told = {current}]}
    /\ UNCHANGED <<health, novaRoom, live, refreshes, frame, runAt, metaAt, statusPending,
                   unsure, answer>>

\* A faulty AcceptRun: another run is taken only when the shown one has ended.
AcceptRunTerminalOnly(old, run, at) ==
    IF old.id = 0 THEN run.id # 0 /\ at > runAt
    ELSE /\ run.id # 0 /\ at >= runAt
         /\ old.id # run.id => at > runAt /\ old.state \in TerminalRun
         /\ old = run => at > runAt
         /\ old.id = run.id /\ old # run => old.state \notin TerminalRun /\ run.state \in TerminalRun

\* acceptAgentRunTransition, for an answer of the server
\* (authoritativeReplacement); no code sets a run to running or streaming.
AcceptRun(old, run, at) ==
    IF old.id = 0 THEN run.id # 0 /\ at > runAt
    ELSE /\ run.id # 0 /\ at >= runAt
         /\ old.id # run.id => at > runAt
         /\ old = run => at > runAt
         /\ old.id = run.id /\ old # run => old.state \notin TerminalRun /\ run.state \in TerminalRun

\* #mergeAgentFrame.
Merge(current) ==
    IF frame = {}
    THEN /\ frame' = {[run |-> current.run, health |-> current.health, allowed |-> current.allowed]}
         /\ runAt' = current.runAt /\ metaAt' = current.at
    ELSE LET old == CHOOSE f \in frame : TRUE
             run == AcceptRun(old.run, current.run, current.runAt)
             newer == current.at > metaAt
         IN  /\ frame' = {[run |-> IF run THEN current.run ELSE old.run,
                           health |-> IF newer THEN current.health ELSE old.health,
                           allowed |-> IF newer THEN current.allowed ELSE old.allowed]}
             /\ runAt' = IF run THEN current.runAt ELSE runAt
             /\ metaAt' = IF newer THEN current.at ELSE metaAt

\* generation === #agentRefreshGeneration && #room: otherwise the outcome is dropped.
Awaited(a) == live /\ a.by = refreshes

ReceiveCurrent(a) ==
    /\ a \in asks /\ a.step = "answered"
    /\ asks' = asks \ {a}
    /\ IF Awaited(a)
       THEN LET current == CHOOSE c \in a.told : TRUE
            IN  /\ Merge(current) /\ answer' = {current}
                /\ unsure' = FALSE /\ statusPending' = FALSE
       ELSE UNCHANGED <<frame, runAt, metaAt, answer, unsure, statusPending>>
    /\ UNCHANGED <<now, health, novaRoom, live, refreshes>>

\* AGENT_STATUS_TIMEOUT, or an answer that is an error.
FailCurrent(a) ==
    /\ a \in asks
    /\ asks' = asks \ {a}
    /\ IF Awaited(a) THEN unsure' = TRUE /\ statusPending' = FALSE ELSE UNCHANGED <<unsure, statusPending>>
    /\ UNCHANGED <<now, health, novaRoom, live, refreshes, frame, runAt, metaAt, answer>>

\* AUTH_REQUIRED, FORBIDDEN or ROOM_NOT_FOUND: #clearState.
ClearPage(a) ==
    /\ a \in asks /\ Awaited(a)
    /\ live' = FALSE /\ refreshes' = refreshes + 1
    /\ asks' = asks \ {a}
    /\ frame' = {} /\ runAt' = 0 /\ metaAt' = 0
    /\ statusPending' = FALSE /\ unsure' = FALSE /\ answer' = {}
    /\ UNCHANGED <<now, health, novaRoom>>

\* authorizeMember finds no session, or no room of it.
RoomLost == {"AUTH_REQUIRED", "FORBIDDEN", "ROOM_NOT_FOUND"}

\* What else agentRouteError answers to a status request, and the timer.
Unanswered == {"ROOM_DELETION_IN_PROGRESS", "AGENT_SERVICE_UNAVAILABLE", "INTERNAL",
               "AGENT_STATUS_TIMEOUT"}

RefuseCurrent(a, code) == \/ code \in RoomLost /\ ClearPage(a)
                          \/ code \in Unanswered /\ FailCurrent(a)

\* publicAgentStatus: what the panel says, in this order.
Says ==
    LET f == CHOOSE g \in frame : TRUE
    IN  IF statusPending THEN "confirming"
        ELSE IF unsure THEN "unknown"
        ELSE IF frame = {} THEN "nothing"
        ELSE IF f.health = "unavailable" THEN "no executor"
        ELSE IF ~f.allowed THEN "disabled"
        ELSE IF f.run.state = "failed" THEN "failed"
        ELSE IF f.health = "degraded" THEN "degraded"
        ELSE f.run.state

-----------------------------------------------------------------------------

NovaNext ==
    \/ HealthMoves
    \/ RequestRun
    \/ \E i \in DOMAIN runs, st \in TerminalRun : SettleRun(i, st)
    \/ ResumeComplete
    \/ \E a \in asks : ReadHealth(a) \/ ReadCurrent(a) \/ ReceiveCurrent(a)
    \/ \E a \in asks, code \in RoomLost \cup Unanswered : RefuseCurrent(a, code)
    \/ \E e \in BOOLEAN : SetEnabled(e)

NovaSpec == NovaInit /\ [][NovaNext]_novaVars

-----------------------------------------------------------------------------
(* Properties *)

\* However requests supersede each other and whatever happened between two
\* answers, the frame the panel reads is exactly the latest answer the page
\* took, and a page that lost its room reads nothing (#mergeAgentFrame).
FrameIsLatestAnswer ==
    /\ frame = {[run |-> c.run, health |-> c.health, allowed |-> c.allowed] : c \in answer}
    /\ ~live => Says = "nothing"

\* The page says it is confirming the Agent's status (AGENT_STATUS_TIMEOUT).
Confirming == statusPending

\* "It broadcasts text-free authorized status": a page that shows a run as
\* waiting learns that it ended.
\* The code does not keep this: see the observations in README.md.
StatusFollows ==
    \A i \in 1 .. MaxRuns :
        (i \in DOMAIN runs /\ runs[i].state \in TerminalRun /\ frame # {})
            ~> (\A f \in frame : f.run # [id |-> i, state |-> "queued"])

=============================================================================

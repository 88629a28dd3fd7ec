------------------------------ MODULE Classroom ------------------------------
(***************************************************************************)
(* A classroom room together with the jobs that work for it: its automatic  *)
(* close job and its Agent runs.  RoomLedger supplies the room, JobQueue    *)
(* the queue and its workers; this module supplies the transactions that    *)
(* touch both (they hold the room lock and the job's row lock) and the      *)
(* table agent_run.                                                        *)
(*                                                                         *)
(* The server's clock (due) and the database's clock (ready) are distinct:  *)
(* the close job becomes claimable when now() of PostgreSQL reaches         *)
(* run_after, while the route compares the server's clock with closesAt.    *)
(***************************************************************************)
EXTENDS RoomLedger

CONSTANTS Workers, MaxAttempts

ASSUME AttemptsAssumption == MaxAttempts \in Nat \ {0}

VARIABLES
    status, attempts, generation, ready, rescheduled, expired,
    receipt, effects, claim, phase, cancelled, inflight,    \* see JobQueue
    run,       \* agent_run.state, or "absent"
    trigger,   \* agent_run.trigger_event_id, as its room_seq; 0 before
    enabled,   \* classroom_room.agent_enabled
    sweep      \* orphans a reconciler sweep has selected, and what each shall become

queueVars == <<status, attempts, generation, ready, rescheduled, expired,
               receipt, effects, claim, phase, cancelled, inflight>>
agentVars == <<run, trigger, enabled, sweep>>
classVars == <<roomVars, queueVars, agentVars>>

JobIds == Runs \cup {AutoJob}

Q == INSTANCE JobQueue WITH
        Jobs <- JobIds, Rooms <- {"room"}, Room <- [j \in JobIds |-> "room"],
        Consume <- {}, Replay <- {}, Agent <- Runs, Closers <- {AutoJob},
        Order <- [j \in JobIds |-> 0],
        deleting <- IF erasing THEN {"room"} ELSE {}

Active == {"queued"}                          \* running and streaming are never written
Settled == {"completed", "failed", "cancelled"}

AgentTypeOK ==
    /\ run \in [Runs -> {"absent"} \cup Active \cup Settled]
    /\ trigger \in [Runs -> Nat]
    /\ enabled \in BOOLEAN
    /\ sweep \subseteq Runs \X {"failed", "cancelled"}

ClassInit ==
    /\ RoomInit
    /\ Q!Init
    /\ run = [g \in Runs |-> "absent"]
    /\ trigger = [g \in Runs |-> 0]
    /\ enabled = TRUE
    /\ sweep = {}

-----------------------------------------------------------------------------
(* The teacher's and the students' requests.                               *)

\* open inserts the close job; its run_after lies ahead.
OpenRoom(c) ==
    /\ Open(c)
    /\ Q!Enqueue(AutoJob)
    /\ ready' = ready
    /\ UNCHANGED agentVars

\* Requests that do not touch a job.
RoomOnly ==
    /\ \/ \E c \in MessageCommands : MessageCommand(c)
       \/ \E c \in LifecycleCommands, t \in {"paused", "resumed", "closed"} : StartCall(c, t)
       \/ \E k \in calls : EndCall(k)
       \/ \E a \in Actors : SignIn(a) \/ SessionEnds(a)
       \/ FallDue
    /\ UNCHANGED <<queueVars, agentVars>>

\* Closing cancels the room's jobs in the same transaction.
CancelIfClosed ==
    IF room # "closed" /\ room' = "closed"
      THEN Q!CancelRoomJobs("room")
      ELSE UNCHANGED queueVars

\* The close job is as open inserted it: queued or running, run_after untouched.
Intact == status[AutoJob] \in {"queued", "running"} /\ ~rescheduled[AutoJob]

\* closeIfDueForOwner, and the transition after it.
LifecycleStep(k) ==
    /\ CheckDue(k, Intact) \/ Transition(k)
    /\ CancelIfClosed
    /\ UNCHANGED agentVars

\* getRoom: closeIfDue on behalf of any reader.
CloseIfDue ==
    /\ Intact
    /\ AutoClose
    /\ CancelIfClosed
    /\ UNCHANGED agentVars

DeleteRoom ==
    /\ RequestDeletion
    /\ Q!DeleteRoom("room")
    /\ UNCHANGED agentVars

-----------------------------------------------------------------------------
(* Agent runs.                                                             *)

\* getOrCreateRunAndJob: a human message that is not retracted triggers at most
\* one run, and the room has at most one active run.
RequestRun(a, g, i) ==
    /\ a \in sessions
    /\ ~erasing
    /\ \A h \in Runs : run[h] # "absent" => trigger[h] # i
    /\ room = "open"
    /\ enabled
    /\ i \in 1 .. Len(log)
    /\ log[i].type \in {"added", "revised"} /\ log[i].actor # Nova
    /\ \A k \in 1 .. Len(log) : IsLatest(log[i].msg, k) => log[k].type # "retracted"
    /\ \A h \in Runs : run[h] \notin Active
    /\ run[g] = "absent"
    /\ run' = [run EXCEPT ![g] = "queued"]
    /\ trigger' = [trigger EXCEPT ![g] = i]
    /\ UNCHANGED <<roomVars, enabled, sweep>>
    /\ Q!Enqueue(g)

\* A faulty CancelLocked: it leaves the run's job alone.
CancelLockedRunOnly(g) ==
    /\ run[g] \in Active
    /\ run' = [run EXCEPT ![g] = "cancelled"]
    /\ UNCHANGED <<roomVars, queueVars, trigger, sweep>>

\* cancelLocked
CancelLocked(g) ==
    /\ run[g] \in Active
    /\ run' = [run EXCEPT ![g] = "cancelled"]
    /\ UNCHANGED <<roomVars, trigger, sweep>>
    /\ Q!CancelAll({g})

CancelRun(g) ==
    /\ Teacher \in sessions
    /\ ~erasing
    /\ CancelLocked(g)
    /\ UNCHANGED enabled

\* setEnabled; disabling withdraws the active run.
SetEnabled(e) ==
    /\ Teacher \in sessions
    /\ ~erasing
    /\ enabled' = e
    /\ IF ~e /\ \E g \in Runs : run[g] \in Active
         THEN \E g \in Runs : CancelLocked(g)
         ELSE UNCHANGED <<roomVars, queueVars, run, trigger, sweep>>

\* A faulty Orphan: it overlooks a job that has died.
OrphanIfCancelled(g) == room = "closed" \/ status[g] = "cancelled"

\* AgentRunReconciler: a sweep selects the active runs that can no longer finish ...
Orphan(g) == room = "closed" \/ status[g] \in {"dead", "cancelled"}

SelectOrphan(g) ==
    /\ run[g] \in Active
    /\ Orphan(g)
    /\ sweep' = sweep \cup
         {<<g, IF room # "closed" /\ status[g] = "dead" THEN "failed" ELSE "cancelled">>}
    /\ sweep' # sweep
    /\ UNCHANGED <<roomVars, queueVars, run, trigger, enabled>>

\* A faulty SettleOrphan: it does not read the run's state again.
SettleOrphanBlindly(o) ==
    /\ o \in sweep
    /\ sweep' = sweep \ {o}
    /\ run' = [run EXCEPT ![o[1]] = o[2]]
    /\ UNCHANGED <<roomVars, queueVars, trigger, enabled>>

\* ... and settles each later, in a transaction that reads its state again.
SettleOrphan(o) ==
    /\ o \in sweep
    /\ sweep' = sweep \ {o}
    /\ run' = [run EXCEPT ![o[1]] = IF @ \in Active THEN o[2] ELSE @]
    /\ UNCHANGED <<roomVars, queueVars, trigger, enabled>>

-----------------------------------------------------------------------------
(* The internal routes, executing a request of a worker.                   *)

\* A faulty CompleteRun: it does not update agent_run.
CompleteRunUnsaved(c) ==
    LET g == c[1] IN
    /\ g \in Runs
    /\ ~erasing
    /\ Q!Current(c)
    /\ IF Find(g) # {}
         THEN UNCHANGED <<roomVars, agentVars>>
         ELSE /\ run[g] \in Active
              /\ AgentAnswer(g)
              /\ UNCHANGED agentVars
    /\ Q!Commit(c)

\* /internal/agent/complete
CompleteRun(c) ==
    LET g == c[1] IN
    /\ g \in Runs
    /\ ~erasing
    /\ Q!Current(c)
    /\ IF Find(g) # {}
         THEN UNCHANGED <<roomVars, agentVars>>
         ELSE /\ run[g] \in Active
              /\ AgentAnswer(g)
              /\ run' = [run EXCEPT ![g] = "completed"]
              /\ UNCHANGED <<trigger, enabled, sweep>>
    /\ Q!Commit(c)

\* A faulty CloseOverdue: it takes a paused room for a closed one.
CloseOverdueIfOpen(c) ==
    /\ c[1] = AutoJob
    /\ ~erasing
    /\ ~rescheduled[AutoJob]
    /\ Q!Current(c)
    /\ due
    /\ IF room = "open"
         THEN AutoClose /\ Q!CommitClosing(c)
         ELSE UNCHANGED roomVars /\ Q!Commit(c)
    /\ UNCHANGED agentVars

\* /internal/rooms/auto-close
CloseOverdue(c) ==
    /\ c[1] = AutoJob
    /\ ~erasing
    /\ ~rescheduled[AutoJob]
    /\ Q!Current(c)
    /\ due
    /\ IF room \in {"open", "paused"}
         THEN AutoClose /\ Q!CommitClosing(c)
         ELSE UNCHANGED roomVars /\ Q!Commit(c)
    /\ UNCHANGED agentVars

\* JOB_FAMILY_IDENTITY_INVALID: run_after is no longer the closesAt of the
\* request.  The handler raises a terminal error.
RefuseIdentity(c) ==
    /\ c[1] = AutoJob
    /\ ~erasing
    /\ rescheduled[AutoJob]
    /\ UNCHANGED <<roomVars, agentVars>>
    /\ Q!Refuse(c, "refused")

\* ROOM_CLOSE_NOT_DUE, a domain refusal of the Agent's answer or a server error.
RefuseForNow(c) ==
    /\ UNCHANGED <<roomVars, agentVars>>
    /\ Q!Refuse(c, "failing")

RejectStale(c) ==
    /\ ~erasing
    /\ c[1] = AutoJob => ~rescheduled[AutoJob]
    /\ UNCHANGED <<roomVars, agentVars>>
    /\ Q!RejectStale(c)

Route(c) ==
    CompleteRun(c) \/ CloseOverdue(c) \/ RefuseIdentity(c) \/ RefuseForNow(c)
        \/ RejectStale(c)

-----------------------------------------------------------------------------
(* The queue and its workers.                                              *)

\* The executor reads agent_run first and reports success for a settled run.
SkipSettled(w) ==
    /\ phase[w] = "handling"
    /\ claim[w][1] \in Runs
    /\ run[claim[w][1]] \in Settled
    /\ phase' = [phase EXCEPT ![w] = "completed"]
    /\ UNCHANGED <<roomVars, agentVars, status, attempts, generation, ready, rescheduled,
                   expired, receipt, effects, claim, cancelled, inflight>>

\* A transport failure is retryable; only the Agent's handler raises a terminal
\* error of its own (a retracted context, an empty or a held answer), as the
\* close job's payload is the one open wrote.
HandlerError(w) ==
    \/ Q!HandlerError(w, "failing")
    \/ Q!HandlerError(w, "refused") /\ claim[w][1] \in Runs

QueueOnly ==
    /\ UNCHANGED <<roomVars, agentVars>>
    /\ \/ \E j \in JobIds : Q!BecomeReady(j) \/ Q!LeaseExpires(j)
       \/ \E w \in Workers, j \in JobIds : Q!Claim(w, j)
       \/ \E w \in Workers : Q!AttemptStep(w) \/ HandlerError(w)

ClassNext ==
    \/ \E c \in LifecycleCommands : OpenRoom(c)
    \/ \E k \in calls : LifecycleStep(k)
    \/ RoomOnly \/ CloseIfDue \/ DeleteRoom \/ QueueOnly
    \/ \E a \in Actors, g \in Runs, i \in 1 .. Len(log) : RequestRun(a, g, i)
    \/ \E g \in Runs : CancelRun(g) \/ SelectOrphan(g)
    \/ \E o \in sweep : SettleOrphan(o)
    \/ \E e \in BOOLEAN : SetEnabled(e)
    \/ \E c \in inflight : Route(c)
    \/ \E w \in Workers : SkipSettled(w)

ClassSpec == ClassInit /\ [][ClassNext]_classVars

-----------------------------------------------------------------------------
(* Properties.                                                             *)

\* The joint transactions respect the queue's own rules: an executor reports a
\* settled run as success only when it has lost its claim (JobQueue!Skip;
\* otherwise succeed would raise CompletionMissing and stop the worker), and
\* cancelLocked, which cancels a row whatever its status, never hits a job
\* whose work has committed.
QueueSpec == Q!Spec

\* Nova's answer, the run's state and the job's receipt agree: a run is
\* completed exactly when its answer is in the ledger, and a run that the
\* teacher withdrew or the reconciler settled stays silent for good, late
\* answers included.
AnswerIffCompleted ==
    \A g \in Runs :
        /\ run[g] = "completed" <=> Find(g) # {}
        /\ run[g] = "completed" <=> effects[g] = 1

\* A settled run stays as it was settled, whichever of the teacher, the worker
\* and a reconciler sweep that selected it earlier comes last.
SettledRunStays ==
    [][\A g \in Runs : run[g] \in Settled => run'[g] = run[g]]_classVars

\* A closed room leaves no work behind: no job of it can still act, except the
\* automatic close whose own transaction closed it.
ClosedRoomIsQuiet ==
    room = "closed" =>
        \A j \in JobIds : Q!Live(j) => j = AutoJob /\ effects[AutoJob] = 1

\* The close job succeeds only by closing the room itself.
CloseJobHonest ==
    status[AutoJob] = "succeeded" => room = "closed" /\ Find(AutoJob) # {}

\* Every requested run ends (a run left active blocks every later run of the
\* room, as the partial unique index admits one).
RunEnds == \A g \in Runs : run[g] \in Active ~> run[g] \in Settled

\* An overdue room is closed, paused or not and whatever crashes, unless an
\* attempt of its close job has failed or all of them are used up.
OverdueClosesOrFails ==
    due /\ room \in {"open", "paused"} ~>
        room = "closed" \/ rescheduled[AutoJob] \/ attempts[AutoJob] = MaxAttempts

\* "retry belongs to durable jobs": while the close job has attempts left, a
\* failed attempt (ROOM_CLOSE_NOT_DUE, a timeout) is retried, so an overdue
\* room is closed in the end.
OverdueCloses ==
    due /\ room \in {"open", "paused"} ~>
        room = "closed" \/ attempts[AutoJob] = MaxAttempts

\* Room, runs and queue tell one story (agent-repository.ts, internal-auto-close-route.ts).
ClassroomSafe == AgentTypeOK /\ AnswerIffCompleted /\ ClosedRoomIsQuiet /\ CloseJobHonest
===============================================================================

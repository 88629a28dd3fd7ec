------------------------------- MODULE JobQueue -------------------------------
(***************************************************************************)
(* The durable job queue: the PostgreSQL tables worker_job and             *)
(* worker_job_completion, the worker processes that claim jobs under a     *)
(* lease, and the business transactions that run on behalf of a claim      *)
(* (inside the worker, or in the server behind a signed internal route).   *)
(*                                                                         *)
(* Every claim draws a fresh random claim_token and increments             *)
(* claim_generation, so the tuple (job_id, claim_generation, claim_token,  *)
(* locked_by) of the code is the pair <<job, generation>> here.  Each      *)
(* action is one database transaction; row locks on worker_job make it     *)
(* atomic.                                                                 *)
(***************************************************************************)
EXTENDS Naturals

CONSTANTS
    Jobs,         \* rows worker_job may come to hold, one per dedupe_key
    Workers,      \* worker processes
    Rooms,
    Room,         \* Room[j]: worker_job.room_id (lifecycle jobs have none)
    Consume,      \* the analytics.consume.v1 jobs
    Replay,       \* the analytics.replay-room.v1 jobs
    Agent,        \* the agent.execute.v1 jobs
    Closers,      \* the room.auto-close.v1 jobs
    Order,        \* Order[j]: rank of (analytics_order_seq,
                  \* analytics_order_kind, job_id)
    MaxAttempts   \* worker_job.max_attempts

ASSUME MaxAttemptsAssumption == MaxAttempts \in Nat \ {0}
ASSUME FamilyAssumption ==
    /\ Consume \subseteq Jobs /\ Replay \subseteq Jobs
    /\ Agent \subseteq Jobs /\ Closers \subseteq Jobs
ASSUME OrderAssumption == Order \in [Jobs -> Nat]

Analytics == Consume \cup Replay

\* The analytics jobs of j's room that must have succeeded before j may run.
Prior(j) ==
    IF j \in Analytics
      THEN {p \in Analytics : Room[p] = Room[j] /\ Order[p] < Order[j]}
      ELSE {}

VARIABLES
    status,       \* worker_job.status, or "absent" before the INSERT
    attempts,     \* worker_job.attempts
    generation,   \* worker_job.claim_generation
    ready,        \* run_after <= now()
    rescheduled,  \* a retry has overwritten run_after
    expired,      \* locked_at is more than two minutes old
    deleting,     \* rooms with an active deletion_job
    receipt,      \* worker_job_completion: generations with a receipt
    effects,      \* business transactions committed for the job (history)
    claim,        \* the claim a worker is running, or NoClaim
    phase,        \* where the worker is in that attempt
    cancelled,    \* the attempt_cancelled event of that attempt
    inflight      \* business requests sent and not yet executed

jobVars == <<status, attempts, generation, ready, rescheduled, expired, receipt,
             deleting>>
workerVars == <<claim, phase, cancelled>>
vars == <<status, attempts, generation, ready, rescheduled, expired, receipt,
          deleting, effects, claim, phase, cancelled, inflight>>

Claims == Jobs \X Nat
NoClaim == <<>>

Status == {"absent", "queued", "running", "succeeded", "retryable", "dead",
           "cancelled"}
Terminal == {"succeeded", "dead", "cancelled"}
Phase == {"idle", "handling", "waiting", "completed", "failing", "refused"}

TypeOK ==
    /\ status \in [Jobs -> Status]
    /\ attempts \in [Jobs -> 0 .. MaxAttempts]
    /\ generation \in [Jobs -> Nat]
    /\ ready \in [Jobs -> BOOLEAN]
    /\ rescheduled \in [Jobs -> BOOLEAN]
    /\ expired \in [Jobs -> BOOLEAN]
    /\ receipt \in [Jobs -> SUBSET Nat]
    /\ deleting \subseteq Rooms
    /\ effects \in [Jobs -> Nat]
    /\ claim \in [Workers -> Claims \cup {NoClaim}]
    /\ phase \in [Workers -> Phase]
    /\ cancelled \in [Workers -> BOOLEAN]
    /\ inflight \subseteq Claims

Init ==
    /\ status = [j \in Jobs |-> "absent"]
    /\ attempts = [j \in Jobs |-> 0]
    /\ generation = [j \in Jobs |-> 0]
    /\ ready = [j \in Jobs |-> FALSE]
    /\ rescheduled = [j \in Jobs |-> FALSE]
    /\ expired = [j \in Jobs |-> FALSE]
    /\ receipt = [j \in Jobs |-> {}]
    /\ deleting = {}
    /\ effects = [j \in Jobs |-> 0]
    /\ claim = [w \in Workers |-> NoClaim]
    /\ phase = [w \in Workers |-> "idle"]
    /\ cancelled = [w \in Workers |-> FALSE]
    /\ inflight = {}

-----------------------------------------------------------------------------
(* Rows of worker_job.                                                     *)

\* A producer inserts the row in its own transaction.  The ledger appends room
\* events in sequence order, so the consume jobs before j are already there;
\* run_after is now() or a later instant.
Enqueue(j) ==
    /\ status[j] = "absent"
    /\ Room[j] \notin deleting
    /\ \A p \in Prior(j) \cap Consume : status[p] # "absent"
    /\ status' = [status EXCEPT ![j] = "queued"]
    /\ ready' \in {ready, [ready EXCEPT ![j] = TRUE]}
    /\ UNCHANGED <<deleting, attempts, generation, rescheduled, expired, receipt, effects,
                   workerVars, inflight>>

\* Time reaches run_after.
BecomeReady(j) ==
    /\ status[j] \in {"queued", "retryable"}
    /\ ~ready[j]
    /\ ready' = [ready EXCEPT ![j] = TRUE]
    /\ UNCHANGED <<deleting, status, attempts, generation, rescheduled, expired, receipt,
                   effects, workerVars, inflight>>

\* Two minutes pass without a heartbeat.
LeaseExpires(j) ==
    /\ status[j] = "running"
    /\ ~expired[j]
    /\ expired' = [expired EXCEPT ![j] = TRUE]
    /\ UNCHANGED <<deleting, status, attempts, generation, ready, rescheduled, receipt,
                   effects, workerVars, inflight>>

\* Rows js leave their status for cancelled, their lease fields cleared.
CancelRows(js) ==
    /\ status' = [j \in Jobs |-> IF j \in js THEN "cancelled" ELSE status[j]]
    /\ expired' = [j \in Jobs |-> IF j \in js THEN FALSE ELSE expired[j]]

CancelAll(js) ==
    /\ CancelRows(js)
    /\ UNCHANGED <<attempts, generation, ready, rescheduled, receipt, effects,
                   workerVars, inflight>>

Live(j) == status[j] \in {"queued", "retryable", "running"}

\* A faulty Withdrawn: it cancels rows that are already settled.
WithdrawnSettledToo(r) == {j \in Jobs \ Analytics : Room[j] = r}

\* The jobs a closing room withdraws: the analytics stream runs on.
Withdrawn(r) == {j \in Jobs \ Analytics : Room[j] = r /\ Live(j)}

\* cancelRoomJobs, when a user's request closes the room.
CancelRoomJobs(r) ==
    /\ CancelAll(Withdrawn(r))
    /\ UNCHANGED deleting

\* A teacher or the retention scheduler deletes the room.
DeleteRoom(r) ==
    /\ r \notin deleting
    /\ deleting' = deleting \cup {r}
    /\ CancelAll({j \in Jobs : Room[j] = r /\ Live(j)})

\* cancelLocked withdraws an active Agent run: its job, whatever its status.
CancelRun(j) ==
    /\ j \in Agent
    /\ status[j] # "absent"
    /\ effects[j] = 0
    /\ Room[j] \notin deleting
    /\ CancelAll({j})
    /\ UNCHANGED deleting

-----------------------------------------------------------------------------
(* Claiming: claim_worker_job.sql, then settle_worker_job_claims.sql, in    *)
(* one transaction.                                                        *)

\* A faulty Candidate: it ignores the order of a room's analytics stream.
CandidateUnordered(j) ==
    /\ ready[j]
    /\ \/ status[j] \in {"queued", "retryable"}
       \/ status[j] = "running" /\ expired[j]

Candidate(j) ==
    /\ ready[j]
    /\ \/ status[j] \in {"queued", "retryable"}
       \/ status[j] = "running" /\ expired[j]
    /\ \A p \in Prior(j) : status[p] \in {"absent", "succeeded"}

\* A lapsed lease whose business work committed is settled as succeeded.
Recover(j) ==
    /\ status[j] = "running"
    /\ generation[j] \in receipt[j]
    /\ status' = [status EXCEPT ![j] = "succeeded"]
    /\ expired' = [expired EXCEPT ![j] = FALSE]
    /\ receipt' = [receipt EXCEPT ![j] = {}]
    /\ UNCHANGED <<deleting, attempts, generation, ready, rescheduled, effects,
                   workerVars, inflight>>

\* A lapsed lease on the last attempt is dead-lettered.
Exhaust(j) ==
    /\ status[j] = "running"
    /\ generation[j] \notin receipt[j]
    /\ attempts[j] >= MaxAttempts
    /\ status' = [status EXCEPT ![j] = "dead"]
    /\ expired' = [expired EXCEPT ![j] = FALSE]
    /\ UNCHANGED <<deleting, attempts, generation, ready, rescheduled, receipt, effects,
                   workerVars, inflight>>

Pick(w, j) ==
    /\ ~(status[j] = "running" /\ generation[j] \in receipt[j])
    /\ attempts[j] < MaxAttempts
    /\ status' = [status EXCEPT ![j] = "running"]
    /\ attempts' = [attempts EXCEPT ![j] = @ + 1]
    /\ generation' = [generation EXCEPT ![j] = @ + 1]
    /\ expired' = [expired EXCEPT ![j] = FALSE]
    /\ claim' = [claim EXCEPT ![w] = <<j, generation[j] + 1>>]
    /\ phase' = [phase EXCEPT ![w] = "handling"]
    /\ cancelled' = [cancelled EXCEPT ![w] = FALSE]
    /\ UNCHANGED <<deleting, ready, rescheduled, receipt, effects, inflight>>

Claim(w, j) ==
    /\ phase[w] = "idle"
    /\ Candidate(j)
    /\ Recover(j) \/ Exhaust(j) \/ Pick(w, j)

-----------------------------------------------------------------------------
(* One attempt: run_with_lease, its handler and its heartbeat thread.      *)

\* A faulty Current: it does not compare the claim's generation and token.
CurrentAnyClaim(c) == status[c[1]] = "running"

\* The fence of requireCurrent: the persisted claim tuple is still this one.
Current(c) == status[c[1]] = "running" /\ generation[c[1]] = c[2]

EndAttempt(w) ==
    /\ claim' = [claim EXCEPT ![w] = NoClaim]
    /\ phase' = [phase EXCEPT ![w] = "idle"]
    /\ cancelled' = [cancelled EXCEPT ![w] = FALSE]

\* The handler starts its one business transaction or internal request.
Send(w) ==
    /\ phase[w] = "handling"
    /\ phase' = [phase EXCEPT ![w] = "waiting"]
    /\ inflight' = inflight \cup {claim[w]}
    /\ UNCHANGED <<jobVars, effects, claim, cancelled>>

\* The answer reaches the worker only if it is still waiting for it.
Answer(c, p) ==
    phase' = [w \in Workers |->
                IF claim[w] = c /\ phase[w] = "waiting" THEN p ELSE phase[w]]

\* The business transaction: requireCurrent under the row lock, the domain
\* mutation and completeBusiness's receipt commit together.
CompleteBusiness(c) ==
    /\ c \in inflight
    /\ Current(c)
    /\ effects' = [effects EXCEPT ![c[1]] = @ + 1]
    /\ receipt' = [receipt EXCEPT ![c[1]] = @ \cup {c[2]}]
    /\ inflight' = inflight \ {c}
    /\ Answer(c, "completed")
    /\ UNCHANGED <<deleting, attempts, generation, ready, rescheduled, claim, cancelled>>

Commit(c) ==
    /\ CompleteBusiness(c)
    /\ UNCHANGED <<status, expired>>

\* The automatic close withdraws the room's other jobs in its own transaction
\* (cancelRoomJobs with preserveJobId).
CommitClosing(c) ==
    /\ c[1] \in Closers
    /\ CompleteBusiness(c)
    /\ CancelRows(Withdrawn(Room[c[1]]) \ {c[1]})

\* The transaction finds the claim stale and rolls back; the worker returns
\* lost_lease.
RejectStale(c) ==
    /\ c \in inflight
    /\ ~Current(c)
    /\ inflight' = inflight \ {c}
    /\ claim' = [w \in Workers |->
                   IF claim[w] = c /\ phase[w] = "waiting" THEN NoClaim ELSE claim[w]]
    /\ Answer(c, "idle")
    /\ cancelled' = [w \in Workers |->
                       IF claim[w] = c /\ phase[w] = "waiting" THEN FALSE
                       ELSE cancelled[w]]
    /\ UNCHANGED <<jobVars, effects>>

\* A domain rule refuses the work: retryable ("failing") or terminal
\* ("refused"); nothing is written.
Refuse(c, p) ==
    /\ c \in inflight
    /\ inflight' = inflight \ {c}
    /\ Answer(c, p)
    /\ UNCHANGED <<jobVars, effects, claim, cancelled>>

\* The internal HTTP client gives up; the request may still be executed.
Timeout(w) ==
    /\ phase[w] = "waiting"
    /\ phase' = [phase EXCEPT ![w] = "failing"]
    /\ UNCHANGED <<jobVars, effects, claim, cancelled, inflight>>

\* The handler raises before the server received anything.
HandlerError(w, p) ==
    /\ phase[w] = "handling"
    /\ phase' = [phase EXCEPT ![w] = p]
    /\ UNCHANGED <<jobVars, effects, claim, cancelled, inflight>>

\* The Agent executor finds its run already settled and reports success without
\* a request: whoever settled the run took the claim away with it.
Skip(w) ==
    /\ phase[w] = "handling"
    /\ claim[w][1] \in Agent
    /\ ~Current(claim[w])
    /\ phase' = [phase EXCEPT ![w] = "completed"]
    /\ UNCHANGED <<jobVars, effects, claim, cancelled, inflight>>

\* The heartbeat thread renews the lease, or learns that the claim is stale.
Heartbeat(w) ==
    /\ phase[w] # "idle"
    /\ ~cancelled[w]
    /\ IF Current(claim[w])
         THEN /\ expired' = [expired EXCEPT ![claim[w][1]] = FALSE]
              /\ UNCHANGED cancelled
         ELSE /\ cancelled' = [cancelled EXCEPT ![w] = TRUE]
              /\ UNCHANGED expired
    /\ UNCHANGED <<deleting, status, attempts, generation, ready, rescheduled, receipt,
                   effects, claim, phase, inflight>>

\* The heartbeat's own database error cancels the attempt, fail-closed.
HeartbeatError(w) ==
    /\ phase[w] # "idle"
    /\ ~cancelled[w]
    /\ cancelled' = [cancelled EXCEPT ![w] = TRUE]
    /\ UNCHANGED <<jobVars, effects, claim, phase, inflight>>

\* The job's row leaves status running, its lease fields cleared.
Settle(j, s) ==
    /\ status' = [status EXCEPT ![j] = s]
    /\ expired' = [expired EXCEPT ![j] = FALSE]

\* JobStore.succeed: only with the receipt of this very claim.
Succeed(w) ==
    LET j == claim[w][1]
        g == claim[w][2]
    IN  /\ phase[w] = "completed"
        /\ ~cancelled[w]
        /\ Current(claim[w])
        /\ g \in receipt[j]
        /\ Settle(j, "succeeded")
        /\ receipt' = [receipt EXCEPT ![j] = @ \ {g}]
        /\ EndAttempt(w)
        /\ UNCHANGED <<deleting, attempts, generation, ready, rescheduled, effects, inflight>>

\* A faulty Fail: it grants one attempt too many.
FailOffByOne(w) ==
    LET j == claim[w][1]
        g == claim[w][2]
        committed == g \in receipt[j]
        dead == phase[w] = "refused" \/ attempts[j] > MaxAttempts
    IN  /\ phase[w] \in {"failing", "refused"}
        /\ ~cancelled[w]
        /\ Current(claim[w])
        /\ IF committed THEN Settle(j, "succeeded")
           ELSE IF dead THEN Settle(j, "dead") ELSE Settle(j, "retryable")
        /\ receipt' = [receipt EXCEPT ![j] = @ \ {g}]
        /\ IF committed \/ dead
             THEN UNCHANGED <<ready, rescheduled>>
             ELSE /\ ready' = [ready EXCEPT ![j] = FALSE]
                  /\ rescheduled' = [rescheduled EXCEPT ![j] = TRUE]
        /\ EndAttempt(w)
        /\ UNCHANGED <<deleting, attempts, generation, effects, inflight>>

\* JobStore.fail: committed work becomes succeeded; otherwise dead-letter a
\* terminal error or the last attempt, and retry five seconds later else.
Fail(w) ==
    LET j == claim[w][1]
        g == claim[w][2]
        committed == g \in receipt[j]
        dead == phase[w] = "refused" \/ attempts[j] >= MaxAttempts
    IN  /\ phase[w] \in {"failing", "refused"}
        /\ ~cancelled[w]
        /\ Current(claim[w])
        /\ IF committed THEN Settle(j, "succeeded")
           ELSE IF dead THEN Settle(j, "dead") ELSE Settle(j, "retryable")
        /\ receipt' = [receipt EXCEPT ![j] = @ \ {g}]
        /\ IF committed \/ dead
             THEN UNCHANGED <<ready, rescheduled>>
             ELSE /\ ready' = [ready EXCEPT ![j] = FALSE]
                  /\ rescheduled' = [rescheduled EXCEPT ![j] = TRUE]
        /\ EndAttempt(w)
        /\ UNCHANGED <<deleting, attempts, generation, effects, inflight>>

\* The attempt was cancelled, or its settling transaction finds the claim
\* stale: the worker walks away and the row is left to the next claim.
LoseLease(w) ==
    /\ phase[w] \in {"completed", "failing", "refused"}
    /\ cancelled[w] \/ ~Current(claim[w])
    /\ EndAttempt(w)
    /\ UNCHANGED <<jobVars, effects, inflight>>

\* The process dies and is restarted; requests it sent stay in flight.
Crash(w) ==
    /\ phase[w] # "idle"
    /\ EndAttempt(w)
    /\ UNCHANGED <<jobVars, effects, inflight>>

-----------------------------------------------------------------------------

QueueStep(j) == Enqueue(j) \/ BecomeReady(j) \/ LeaseExpires(j)

AttemptStep(w) ==
    \/ Send(w) \/ Timeout(w) \/ Heartbeat(w) \/ HeartbeatError(w)
    \/ Succeed(w) \/ Fail(w) \/ LoseLease(w) \/ Crash(w)

RequestStep(c) ==
    \/ Commit(c) \/ CommitClosing(c) \/ RejectStale(c)
    \/ \E p \in {"failing", "refused"} : Refuse(c, p)

Next ==
    \/ \E j \in Jobs : QueueStep(j)
    \/ \E r \in Rooms : CancelRoomJobs(r) \/ DeleteRoom(r)
    \/ \E j \in Jobs : CancelRun(j)
    \/ \E w \in Workers, j \in Jobs : Claim(w, j)
    \/ \E w \in Workers : AttemptStep(w) \/ Skip(w)
    \/ \E w \in Workers, p \in {"failing", "refused"} : HandlerError(w, p)
    \/ \E c \in inflight : RequestStep(c)

Spec == Init /\ [][Next]_vars

\* What the deployment guarantees: the clock advances past run_after and past
\* lapsed leases, a handler ends (its HTTP request has a timeout and its
\* transactions a database deadline), and the supervisors keep claiming in
\* run_after order.  Heartbeats, crashes and refusals are never assumed.
Progress(w) ==
    \/ Send(w) \/ Timeout(w) \/ HandlerError(w, "failing")
    \/ Succeed(w) \/ Fail(w) \/ LoseLease(w)

-----------------------------------------------------------------------------
(* Properties.                                                             *)

\* A job's business transaction commits at most once, whatever happens to its
\* leases: the fence requireCurrent and the receipt of completeBusiness make
\* retries, takeovers, late requests and crashes harmless.
AtMostOnce == \A j \in Jobs : effects[j] <= 1

\* The row tells the truth about the work: succeeded only with a committed
\* effect, and committed work is never queued again nor dead-lettered ("a
\* post-commit notification failure must never turn it into retryable/dead").
HonestStatus ==
    \A j \in Jobs :
        /\ status[j] = "succeeded" => effects[j] > 0
        /\ effects[j] > 0 => status[j] \in {"running", "succeeded", "cancelled"}

\* A handler that reports success while its claim is still current has its
\* receipt: succeed never raises CompletionMissing.
NoCompletionMissing ==
    \A w \in Workers :
        phase[w] = "completed" /\ Current(claim[w]) =>
            claim[w][2] \in receipt[claim[w][1]]

\* The analytics stream of a room is consumed in room order: when work of a job
\* has committed, every earlier room event is already consumed for good.
CommitInOrder ==
    \A j \in Analytics :
        effects[j] > 0 => \A p \in Prior(j) \cap Consume : status[p] = "succeeded"

\* claim_worker_job.sql looks at one row only (LIMIT 1, oldest run_after): a
\* candidate that settle_worker_job_claims.sql neither recovers, nor exhausts,
\* nor picks would be selected again for ever and block the whole queue.
NoStuckHead ==
    \A j \in Jobs :
        Candidate(j) => status[j] = "running" \/ attempts[j] < MaxAttempts

\* A settled row stays settled, late workers and late answers included; only
\* the withdrawal of an Agent run may still relabel a dead row.
SettledForGood ==
    [][\A j \in Jobs :
        /\ status[j] = "succeeded" => status'[j] = "succeeded"
        /\ status[j] = "cancelled" => status'[j] = "cancelled"
        /\ status[j] = "dead" =>
             status'[j] \in {"dead"} \cup (IF j \in Agent THEN {"cancelled"} ELSE {})]_vars

\* A dead or cancelled predecessor blocks the rest of the stream.
Blocked(j) == \E p \in Prior(j) : status[p] \in {"dead", "cancelled"}

\* A job that was enqueued and is not settled, unless an earlier job of its room's
\* analytics stream has died or was cancelled and blocks it.
Owed(j) == status[j] \notin {"absent"} \cup Terminal /\ ~Blocked(j)

\* The queue's bookkeeping holds together under every interleaving of claims,
\* lapsed leases, late settlements and crashes (claim_worker_job.sql, jobs.py).
QueueSound == TypeOK /\ HonestStatus /\ NoCompletionMissing /\ NoStuckHead
===============================================================================

------------------------------- MODULE Deletion -------------------------------
(***************************************************************************)
(* The erasure of one room: the teacher's request and the retention        *)
(* scheduler, which start a saga (deletion_job, a frozen manifest and one  *)
(* worker job per surface), and the workers, which erase surface after     *)
(* surface and issue the receipt.                                          *)
(*                                                                         *)
(* The room's content is a count of rows per table.  A table of External   *)
(* is evidence of a copy at a provider.  Each action is one transaction;   *)
(* the handler's commit and the settlement of its job are two.             *)
(***************************************************************************)
EXTENDS Naturals, Sequences

CONSTANTS
    Deletions,    \* deletion_job_id
    Workers,      \* worker processes
    Idle,         \* a worker without a claim
    DeleteOrder,  \* surfaces in the order they are erased
    External,     \* tables whose rows may have copies at a provider
    MaxAttempts,  \* worker_job.max_attempts
    MaxRows       \* bound on the rows of a table

ASSUME SurfacesAssumption ==
    /\ DeleteOrder \in Seq(STRING) /\ Len(DeleteOrder) \in Nat \ {0, 1}
    /\ \A i, j \in DOMAIN DeleteOrder : DeleteOrder[i] = DeleteOrder[j] => i = j
    /\ DeleteOrder[1] = "provider_copies"
    /\ DeleteOrder[Len(DeleteOrder)] = "events"
    /\ \A i \in DOMAIN DeleteOrder : DeleteOrder[i] # "promotions"
ASSUME ExternalAssumption ==
    External \subseteq STRING \ {"provider_copies", "caches", "promotions"}
ASSUME DeletionAttemptsAssumption == MaxAttempts \in Nat \ {0}
ASSUME RowsAssumption == MaxRows \in Nat \ {0}
ASSUME IdleAssumption == \A w \in Workers : Idle # w

Surfaces == {DeleteOrder[i] : i \in DOMAIN DeleteOrder}
Prior(s) == {DeleteOrder[i] : i \in {k \in DOMAIN DeleteOrder :
                \E j \in DOMAIN DeleteOrder : DeleteOrder[j] = s /\ k < j}}
\* student_analytics_promotion is a table of its own, counted with the projections.
Tables == ((Surfaces \cup External) \ {"provider_copies", "caches"}) \cup {"promotions"}

VARIABLES
    room,       \* open, closed, expired (closed and past its retention), gone
    rows,       \* rows of each table
    roomJob,    \* a room-scoped worker job: running, done, cancelled
    saga,       \* deletion_job.status and whether it still refers to the room
    manifest,   \* deletion_surface_manifest.status
    expected,   \* deletion_surface_manifest.expected_item_count
    receipt,    \* sagas with a deletion_receipt
    job,        \* the worker_job of each surface
    worker,     \* the claim each worker holds, and its handler's result
    candidate   \* the scheduler has selected the room

sagaVars == <<saga, manifest, expected, receipt>>
deletionVars == <<room, rows, roomJob, sagaVars, job, worker, candidate>>

Unfinished == {"queued", "running", "retryable", "dead"}
Final == {"completed", "dead"}

Sagas == [status : Unfinished \cup {"none", "completed"}, room : BOOLEAN]
SurfaceJobs == [status : {"none", "queued", "retryable", "running", "succeeded", "dead"},
                attempts : 0 .. MaxAttempts, marker : {"none", "written"}]
Claims == [deletion : Deletions, surface : Surfaces, attempt : 1 .. MaxAttempts,
           result : {"none", "success", "retry", "terminal"}]

DeletionTypeOK ==
    /\ room \in {"open", "closed", "expired", "gone"}
    /\ rows \in [Tables -> 0 .. MaxRows]
    /\ roomJob \in {"running", "done", "cancelled"}
    /\ saga \in [Deletions -> Sagas]
    /\ manifest \in [Deletions -> [Surfaces -> {"none", "frozen", "verified"}]]
    /\ expected \in [Deletions -> [Surfaces -> 0 .. 2 * MaxRows]]
    /\ receipt \subseteq Deletions
    /\ job \in [Deletions -> [Surfaces -> SurfaceJobs]]
    /\ worker \in [Workers -> {Idle} \cup Claims]
    /\ candidate \in BOOLEAN

NoJob == [status |-> "none", attempts |-> 0, marker |-> "none"]

DeletionInit ==
    /\ room = "open"
    /\ rows = [t \in Tables |-> IF t = "events" THEN 1 ELSE 0]
    /\ roomJob = "running"
    /\ saga = [d \in Deletions |-> [status |-> "none", room |-> FALSE]]
    /\ manifest = [d \in Deletions |-> [s \in Surfaces |-> "none"]]
    /\ expected = [d \in Deletions |-> [s \in Surfaces |-> 0]]
    /\ receipt = {}
    /\ job = [d \in Deletions |-> [s \in Surfaces |-> NoJob]]
    /\ worker = [w \in Workers |-> Idle]
    /\ candidate = FALSE

\* The saga that bars the room: every reader asks for it, and every writer but one
\* (Grant).
Deleting == \E d \in Deletions : saga[d].room /\ saga[d].status \in Unfinished

-----------------------------------------------------------------------------
(* The room's writers.                                                     *)

\* A command of a member or the teacher, under the room lock.  A closed room still
\* takes the teacher's reviews, until its retention has passed.
Write(t) ==
    /\ t # "promotions"
    /\ room = "open" \/ (room = "closed" /\ t \in {"events", "artifacts"})
    /\ ~Deleting
    /\ rows[t] < MaxRows
    /\ rows' = [rows EXCEPT ![t] = @ + 1]
    /\ UNCHANGED <<room, roomJob, sagaVars, job, worker, candidate>>

\* A worker's artifact, projection or run under its claim, which a cancelled job has
\* lost.  Events are only ever written by a command.
JobWrites(t) ==
    /\ roomJob = "running" /\ room # "gone"
    /\ t \notin {"events", "promotions"}
    /\ rows[t] < MaxRows
    /\ rows' = [rows EXCEPT ![t] = @ + 1]
    /\ roomJob' = "done"
    /\ UNCHANGED <<room, sagaVars, job, worker, candidate>>

\* StudentAnalyticsPromotionService.grant: the room's only row, written or renewed
\* without the room lock and without asking for a saga.  The room must exist.
Grant ==
    /\ room # "gone"
    /\ rows["promotions"] = 0
    /\ rows' = [rows EXCEPT !["promotions"] = 1]
    /\ UNCHANGED <<room, roomJob, sagaVars, job, worker, candidate>>

CloseRoom ==
    /\ room = "open" /\ ~Deleting
    /\ room' = "closed"
    /\ UNCHANGED <<rows, roomJob, sagaVars, job, worker, candidate>>

\* Only a room that nobody deletes yet is of interest to the scheduler.
RetentionPasses ==
    /\ room = "closed" /\ ~Deleting
    /\ room' = "expired"
    /\ UNCHANGED <<rows, roomJob, sagaVars, job, worker, candidate>>

-----------------------------------------------------------------------------
(* A saga begins.                                                          *)

\* The promotion that counts with a surface.
Promotions(s) == IF s = "projections" THEN rows["promotions"] ELSE 0

\* What a surface holds now; a copy at a provider is inferred from local rows.
Count(s) ==
    CASE s = "provider_copies" -> IF \E t \in External : rows[t] > 0 THEN 1 ELSE 0
      [] s = "caches" -> 0
      [] OTHER -> rows[s] + Promotions(s)

\* randomUUID: some id that no saga has.
NewDeletion == CHOOSE d \in Deletions : saga[d].status = "none"

\* One transaction: the row, the frozen counts, the cancelled jobs of the room and
\* the surface jobs, which carry no room.
StartSaga(d) ==
    /\ saga' = [saga EXCEPT ![d] = [status |-> "queued", room |-> TRUE]]
    /\ manifest' = [manifest EXCEPT ![d] = [s \in Surfaces |-> "frozen"]]
    /\ expected' = [expected EXCEPT ![d] = [s \in Surfaces |-> Count(s)]]
    /\ roomJob' = IF roomJob = "running" THEN "cancelled" ELSE roomJob
    /\ job' = [job EXCEPT ![d] = [s \in Surfaces |-> [NoJob EXCEPT !.status = "queued"]]]
    /\ UNCHANGED <<rows, receipt, worker>>

\* A repeated request is refused with 409 and changes nothing.
RequestDeletion(d) ==
    /\ saga[d].status = "none" /\ d = NewDeletion
    /\ room # "gone" /\ ~Deleting
    /\ StartSaga(d)
    /\ room' = "closed"
    /\ UNCHANGED candidate

\* The scheduler's query, outside any lock.
SelectExpired ==
    /\ room = "expired" /\ ~Deleting
    /\ ~candidate
    /\ candidate' = TRUE
    /\ UNCHANGED <<room, rows, roomJob, sagaVars, job, worker>>

\* Read again under the lock.  A room erased meanwhile fails the insert.
Superseded == Deleting \/ room = "gone"

StartRetention(d) ==
    /\ candidate
    /\ saga[d].status = "none" /\ d = NewDeletion
    /\ candidate' = FALSE
    /\ IF Superseded
       THEN UNCHANGED <<rows, roomJob, sagaVars, job, worker>>
       ELSE StartSaga(d)
    /\ UNCHANGED room

-----------------------------------------------------------------------------
(* A worker's claim on a surface job.                                      *)

Claimed(d, s, n) == [deletion |-> d, surface |-> s, attempt |-> n, result |-> "none"]

\* The claim is on this attempt of a running job.
Current(c) == LET j == job[c.deletion][c.surface]
              IN  j.status = "running" /\ j.attempts = c.attempt

Take(w, d, s) ==
    LET j == job[d][s] IN
    /\ j.attempts < MaxAttempts
    /\ job' = [job EXCEPT ![d][s] = [j EXCEPT !.status = "running", !.attempts = @ + 1]]
    /\ worker' = [worker EXCEPT ![w] = Claimed(d, s, j.attempts + 1)]
    /\ UNCHANGED saga

Claim(w, d, s) ==
    /\ worker[w] = Idle
    /\ job[d][s].status \in {"queued", "retryable"}
    /\ Take(w, d, s)
    /\ UNCHANGED <<room, rows, roomJob, manifest, expected, receipt, candidate>>

\* A faulty Status: a dead surface leaves its saga waiting.
StatusNotEscalated(d, st) == IF saga[d].status \in Final THEN saga[d].status ELSE "retryable"

\* The status a settled job gives its saga, which keeps the one it ended with.
Status(d, st) == IF saga[d].status \in Final THEN saga[d].status ELSE st

\* The lease of a running job has run out, for its worker died or stalled.  If its
\* business work is done it has succeeded; without attempts left it is dead, and its
\* saga with it; else it is claimed anew.
Reclaim(w, d, s) ==
    /\ worker[w] = Idle
    /\ job[d][s].status = "running"
    /\ \/ /\ job[d][s].marker = "written"
          /\ job' = [job EXCEPT ![d][s].status = "succeeded"]
          /\ UNCHANGED <<saga, worker>>
       \/ /\ job[d][s].marker = "none" /\ job[d][s].attempts >= MaxAttempts
          /\ job' = [job EXCEPT ![d][s].status = "dead"]
          /\ saga' = [saga EXCEPT ![d].status = Status(d, "dead")]
          /\ UNCHANGED worker
       \/ job[d][s].marker = "none" /\ Take(w, d, s)
    /\ UNCHANGED <<room, rows, roomJob, manifest, expected, receipt, candidate>>

-----------------------------------------------------------------------------
(* The handler.  A retryable or terminal error rolls its transaction back. *)

AllVerified(d) == \A s \in Surfaces : manifest[d][s] = "verified"

\* A faulty DependenciesVerified: surfaces are erased in any order.
DependenciesIgnored(d, s) == TRUE

\* Every surface that is erased before s has been verified.
DependenciesVerified(d, s) == \A p \in Prior(s) : manifest[d][p] = "verified"

\* A frozen count that the room no longer has is not certified; a copy at a
\* provider never is.
Certifiable(d, s) ==
    IF s = "provider_copies" THEN expected[d][s] = 0 /\ Count(s) = 0
                             ELSE Count(s) = expected[d][s]

Returns(w, result) == worker' = [worker EXCEPT ![w].result = result]

\* complete_business: the marker of this attempt, in the same transaction.
Complete(d, s) == job' = [job EXCEPT ![d][s].marker = "written"]

Running(d) == IF saga[d].status \in {"queued", "retryable"} THEN "running"
                                                            ELSE saga[d].status

\* A completed saga proves itself by its receipt and its manifest.
Proven(d) == saga[d].status = "completed" /\ d \in receipt /\ AllVerified(d)

\* The saga is dead, or completed without a proof of it.
Refuse(w, d, s) ==
    /\ saga[d].status \in Final
    /\ ~Proven(d)
    /\ Returns(w, "terminal")
    /\ UNCHANGED <<room, rows, sagaVars, job>>

AlreadyVerified(w, d, s) ==
    /\ IF saga[d].status \in Final THEN Proven(d) ELSE manifest[d][s] = "verified"
    /\ saga' = [saga EXCEPT ![d].status = Running(d)]
    /\ Complete(d, s)
    /\ Returns(w, "success")
    /\ UNCHANGED <<room, rows, manifest, expected, receipt>>

Erasable(d, s) ==
    /\ saga[d].status \notin Final
    /\ manifest[d][s] # "verified"
    /\ saga[d].room /\ room # "gone"
    /\ DependenciesVerified(d, s)
    /\ Certifiable(d, s)

\* LIFECYCLE_ROOM_REFERENCE_MISSING, DEPENDENCY_PENDING, COUNT_CHANGED, ...
Pending(w, d, s) ==
    /\ saga[d].status \notin Final
    /\ manifest[d][s] # "verified"
    /\ ~Erasable(d, s)
    /\ Returns(w, "retry")
    /\ UNCHANGED <<room, rows, sagaVars, job>>

\* The server's own path for media that is still there (its signed route erases the
\* objects) is never taken: media counts as a copy at a provider, so the surface
\* before it would not be verified.
EraseSurface(w, d, s) ==
    /\ s # "events"
    /\ Erasable(d, s)
    /\ rows' = [t \in Tables |->
                  IF t = s \/ (t = "promotions" /\ s = "projections") THEN 0 ELSE rows[t]]
    /\ manifest' = [manifest EXCEPT ![d][s] = "verified"]
    /\ saga' = [saga EXCEPT ![d].status = Running(d)]
    /\ Complete(d, s)
    /\ Returns(w, "success")
    /\ UNCHANGED <<room, expected, receipt>>

\* The last surface: the room with everything that hangs on it, the receipt and the
\* end of the saga in one transaction.
EraseRoom(w, d) ==
    /\ Erasable(d, "events")
    /\ room' = "gone"
    /\ rows' = [t \in Tables |-> 0]
    /\ manifest' = [manifest EXCEPT ![d]["events"] = "verified"]
    /\ receipt' = receipt \cup {d}
    /\ saga' = [saga EXCEPT ![d] = [status |-> "completed", room |-> FALSE]]
    /\ Complete(d, "events")
    /\ Returns(w, "success")
    /\ UNCHANGED expected

Handle(w) ==
    LET c == worker[w] IN
    /\ c # Idle /\ c.result = "none"
    /\ Current(c)
    /\ \/ Refuse(w, c.deletion, c.surface)
       \/ AlreadyVerified(w, c.deletion, c.surface)
       \/ Pending(w, c.deletion, c.surface)
       \/ EraseSurface(w, c.deletion, c.surface)
       \/ c.surface = "events" /\ EraseRoom(w, c.deletion)
    /\ UNCHANGED <<roomJob, candidate>>

\* succeed and fail.  A worker whose claim was taken over changes nothing.
Settle(w) ==
    LET c == worker[w]
        j == job[c.deletion][c.surface]
        exhausted == c.result = "terminal" \/ j.attempts >= MaxAttempts
        outcome == IF exhausted THEN "dead" ELSE "retryable"
    IN
    /\ c # Idle /\ c.result # "none"
    /\ Current(c)
    /\ worker' = [worker EXCEPT ![w] = Idle]
    /\ IF j.marker = "written"
       THEN job' = [job EXCEPT ![c.deletion][c.surface].status = "succeeded"] /\ UNCHANGED saga
       ELSE /\ job' = [job EXCEPT ![c.deletion][c.surface].status = outcome]
            /\ saga' = [saga EXCEPT ![c.deletion].status = Status(c.deletion, outcome)]
    /\ UNCHANGED <<room, rows, roomJob, manifest, expected, receipt, candidate>>

\* StaleClaim, or the process dies with whatever it holds.
Drop(w) ==
    /\ worker[w] # Idle
    /\ worker' = [worker EXCEPT ![w] = Idle]
    /\ UNCHANGED <<room, rows, roomJob, sagaVars, job, candidate>>

-----------------------------------------------------------------------------

DeletionNext ==
    \/ \E t \in Tables : Write(t) \/ JobWrites(t)
    \/ Grant
    \/ CloseRoom \/ RetentionPasses \/ SelectExpired
    \/ \E d \in Deletions : RequestDeletion(d) \/ StartRetention(d)
    \/ \E d \in Deletions, s \in Surfaces :
          \E w \in Workers : Claim(w, d, s) \/ Reclaim(w, d, s)
    \/ \E w \in Workers : Handle(w) \/ Settle(w) \/ Drop(w)

DeletionSpec == DeletionInit /\ [][DeletionNext]_deletionVars

\* A worker polls for jobs and for leases that have run out; a handler returns and is
\* settled.
\* A worker that lost its claim notices (Drop), but no worker has to crash.
FairDeletionSpec ==
    /\ DeletionSpec
    /\ \A d \in Deletions, s \in Surfaces :
          /\ WF_deletionVars(\E w \in Workers : Claim(w, d, s))
          /\ WF_deletionVars(\E w \in Workers : Reclaim(w, d, s))
    /\ \A w \in Workers :
          /\ WF_deletionVars(Handle(w))
          /\ WF_deletionVars(Settle(w))
          /\ WF_deletionVars(worker[w] # Idle /\ ~Current(worker[w]) /\ Drop(w))

-----------------------------------------------------------------------------
(* Properties.                                                             *)

\* A saga is completed exactly when it has a receipt, and then every surface is
\* verified, the room and all its rows are gone, and no other saga is still at work on
\* the room (delete_surface_handler's last transaction against crashes, reclaimed jobs
\* and the scheduler).
ReceiptProvesErasure ==
    \A d \in Deletions :
        /\ d \in receipt <=> saga[d].status = "completed"
        /\ d \in receipt => /\ AllVerified(d) /\ ~saga[d].room
                            /\ room = "gone" /\ \A t \in Tables : rows[t] = 0
                            /\ \A o \in Deletions \ {d} : saga[o].status = "none"

\* A verified surface stays empty, and so are the surfaces erased before it, but for
\* a promotion granted meanwhile: no late command or worker writes into what was
\* certified (the room lock, the cancelled jobs and the order of the surfaces).
VerifiedStaysEmpty ==
    \A d \in Deletions, s \in Surfaces :
        manifest[d][s] = "verified" =>
            /\ Count(s) = Promotions(s)
            /\ \A p \in Prior(s) : manifest[d][p] = "verified"

\* While a saga runs, what it has not erased is what it has frozen, and a promotion at
\* most: nothing but a grant during the deletion meets the handler's
\* LIFECYCLE_SURFACE_COUNT_CHANGED.
FrozenCountsHold ==
    \A d \in Deletions, s \in Surfaces :
        saga[d].room /\ manifest[d][s] = "frozen" =>
            Count(s) \in {expected[d][s], expected[d][s] + Promotions(s)}

\* At most one saga refers to the room, also when the teacher and the scheduler start
\* one at the same time (deletion_job_one_unfinished_room_idx is never hit).
OneSaga ==
    \A d, e \in Deletions : saga[d].room /\ saga[e].room => d = e

\* A completed or dead saga keeps its status, whatever late retry, reclaimed lease or
\* sibling surface is settled after it (_sync_lifecycle_status, lifecycle_dead).
SagaOutcomeFinal ==
    [][\A d \in Deletions : saga[d].status \in Final => saga'[d].status = saga[d].status]_deletionVars

\* Every saga ends, with a receipt or as dead: crashes, lapsed leases and surfaces that
\* wait for each other never leave it running for ever.
DeletionEnds ==
    \A d \in Deletions : saga[d].status = "queued" ~> saga[d].status \in Final

\* A saga whose room may have copies at a provider stays retryable (the comment of
\* _surface_count).
\* The code does not keep this: see the observations in README.md.
CopiesKeepRetrying ==
    \A d \in Deletions : expected[d]["provider_copies"] > 0 => saga[d].status # "dead"

\* Nothing but a promotion comes back into a room under deletion, one saga at a time
\* deletes it, and a receipt is the proof of an erasure that happened.
DeletionSafe ==
    /\ DeletionTypeOK /\ VerifiedStaysEmpty /\ ReceiptProvesErasure
    /\ FrozenCountsHold /\ OneSaga

\* A deletion ends, and its outcome is final.
DeletionEndsForGood == SagaOutcomeFinal /\ DeletionEnds
=============================================================================

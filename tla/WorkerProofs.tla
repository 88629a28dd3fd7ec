----------------------------- MODULE WorkerProofs -----------------------------
(***************************************************************************)
(* Proofs about the two handlers of the worker that keep a room's data.     *)
(*                                                                          *)
(* The first part proves, for any list of surfaces, any tables with copies  *)
(* at a provider and any number of workers, attempts and rows, that an      *)
(* erasure is sound.                                                        *)
(*                                                                          *)
(* The second proves, for any messages, authors, clocks, claims and         *)
(* windows and any log, that what the analytics publish is what the log     *)
(* says.  Its four loops (the projector, the texts, the corrections, a      *)
(* window) are functions over 0 .. n; a fact about every turn is obtained   *)
(* from the least turn that would break it.                                 *)
(***************************************************************************)
EXTENDS Deletion, Analysis, SequenceTheorems, FiniteSetTheorems, WellFoundedInduction, TLAPS

\* A saga holds the room from its start until it completes, a dead one too.
HoldsRoom ==
    \A d \in Deletions : saga[d].room <=> saga[d].status \in Unfinished

\* A room is deleted by one saga ever, for a dead saga keeps it.
OneStarted ==
    \A d, e \in Deletions : saga[d].status # "none" /\ saga[e].status # "none" => d = e

\* What was never started has no manifest, no jobs and no receipt; what was
\* started has a whole manifest.
StartedWhole ==
    \A d \in Deletions, s \in Surfaces :
        /\ saga[d].status = "none" <=> manifest[d][s] = "none"
        /\ saga[d].status = "none" => job[d][s].status = "none" /\ d \notin receipt

\* A worker works for a saga that was started.
WorksForStarted == \A w \in Workers : worker[w] # Idle => saga[worker[w].deletion].status # "none"

\* The room under deletion is closed to commands and its jobs have lost their
\* claims: this is what keeps the frozen counts true.
RoomIsFrozen ==
    /\ Deleting => room \in {"closed", "expired"} /\ roomJob # "running"
    /\ candidate => room # "open"
    /\ room = "gone" => \A t \in Tables : rows[t] = 0
    /\ \A d \in Deletions : d \in receipt <=> saga[d].status = "completed"
    /\ \A d \in Deletions : d \in receipt => room = "gone" /\ AllVerified(d)

DInv ==
    /\ DeletionTypeOK
    /\ HoldsRoom /\ OneStarted /\ StartedWhole /\ WorksForStarted /\ RoomIsFrozen
    /\ VerifiedStaysEmpty /\ FrozenCountsHold

-----------------------------------------------------------------------------
(* The surfaces.                                                           *)

\* The first surface is erased before every other, the last after every other,
\* and what a surface other than copies and caches holds is a table.
LEMMA SurfaceOrder ==
    /\ "events" \in Surfaces /\ "provider_copies" \in Surfaces
    /\ \A s \in Surfaces : s # "provider_copies" => "provider_copies" \in Prior(s)
    /\ \A s \in Surfaces : s # "events" => s \in Prior("events")
    /\ \A s \in Surfaces : Prior(s) \subseteq Surfaces
    /\ \A s \in Surfaces \ {"provider_copies", "caches"} : s \in Tables
    /\ External \subseteq Tables /\ "events" \in Tables
    /\ "promotions" \in Tables \ (Surfaces \cup External)
<1> DEFINE n == Len(DeleteOrder)
<1>1. n \in Nat \ {0, 1} /\ DOMAIN DeleteOrder = 1 .. n
  BY SurfacesAssumption
<1>2. "events" = DeleteOrder[n] /\ "provider_copies" = DeleteOrder[1]
  BY SurfacesAssumption
<1>3. "events" \in Surfaces /\ "provider_copies" \in Surfaces
  BY <1>1, <1>2 DEF Surfaces
<1>4. ASSUME NEW s \in Surfaces, s # "provider_copies" PROVE "provider_copies" \in Prior(s)
  <2>1. PICK j \in DOMAIN DeleteOrder : s = DeleteOrder[j]
    BY DEF Surfaces
  <2>2. 1 \in DOMAIN DeleteOrder /\ 1 < j
    BY <1>1, <1>2, <1>4, <2>1
  <2> QED
    BY <1>2, <2>1, <2>2 DEF Prior
<1>5. ASSUME NEW s \in Surfaces, s # "events" PROVE s \in Prior("events")
  <2>1. PICK i \in DOMAIN DeleteOrder : s = DeleteOrder[i]
    BY DEF Surfaces
  <2>2. n \in DOMAIN DeleteOrder /\ i < n
    BY <1>1, <1>2, <1>5, <2>1
  <2> QED
    BY <1>2, <2>1, <2>2 DEF Prior
<1>6. \A s \in Surfaces : Prior(s) \subseteq Surfaces
  BY DEF Prior, Surfaces
<1>7. /\ \A s \in Surfaces \ {"provider_copies", "caches"} : s \in Tables
      /\ External \subseteq Tables /\ "events" \in Tables
  BY <1>3, ExternalAssumption DEF Tables
<1>8. "promotions" \in Tables \ (Surfaces \cup External)
  BY SurfacesAssumption, ExternalAssumption DEF Tables, Surfaces
<1> QED
  BY <1>3, <1>4, <1>5, <1>6, <1>7, <1>8

\* A surface never holds more than a table may, and a promotion.
LEMMA CountBounds ==
    ASSUME rows \in [Tables -> 0 .. MaxRows], NEW s \in Surfaces
    PROVE  Count(s) \in 0 .. 2 * MaxRows /\ Promotions(s) \in 0 .. MaxRows
<1>1. rows["promotions"] \in 0 .. MaxRows
  BY SurfaceOrder
<1>2. Promotions(s) \in 0 .. MaxRows
  BY <1>1, RowsAssumption DEF Promotions
<1>3. CASE s \in {"provider_copies", "caches"}
  BY <1>2, <1>3, RowsAssumption DEF Count
<1>4. CASE s \notin {"provider_copies", "caches"}
  <2>1. rows[s] \in 0 .. MaxRows /\ Count(s) = rows[s] + Promotions(s)
    BY <1>4, SurfaceOrder DEF Count
  <2> QED
    BY <1>2, <2>1, RowsAssumption
<1> QED
  BY <1>3, <1>4

\* What a surface holds depends on the rows alone.
LEMMA SameRows ==
    rows' = rows => \A s \in Surfaces : Count(s)' = Count(s) /\ Promotions(s)' = Promotions(s)
BY DEF Count, Promotions

-----------------------------------------------------------------------------
(* Types.                                                                  *)

\* A new saga is well typed.
LEMMA StartType ==
    ASSUME DeletionTypeOK, NEW d \in Deletions, StartSaga(d)
    PROVE  /\ saga' \in [Deletions -> Sagas]
           /\ manifest' \in [Deletions -> [Surfaces -> {"none", "frozen", "verified"}]]
           /\ expected' \in [Deletions -> [Surfaces -> 0 .. 2 * MaxRows]]
           /\ job' \in [Deletions -> [Surfaces -> SurfaceJobs]]
           /\ roomJob' \in {"running", "done", "cancelled"}
<1>1. [s \in Surfaces |-> Count(s)] \in [Surfaces -> 0 .. 2 * MaxRows]
  BY CountBounds, RowsAssumption DEF DeletionTypeOK
<1>2. [NoJob EXCEPT !.status = "queued"] \in SurfaceJobs
  BY DeletionAttemptsAssumption DEF NoJob, SurfaceJobs
<1>3. [status |-> "queued", room |-> TRUE] \in Sagas
  BY DEF Sagas, Unfinished
<1> QED
  BY <1>1, <1>2, <1>3 DEF StartSaga, DeletionTypeOK

\* One row of the jobs is replaced.
LEMMA JobReplaced ==
    ASSUME DeletionTypeOK, NEW d \in Deletions, NEW s \in Surfaces, NEW j \in SurfaceJobs,
           job' = [job EXCEPT ![d][s] = j]
    PROVE  job' \in [Deletions -> [Surfaces -> SurfaceJobs]]
BY DEF DeletionTypeOK

\* A claim, or a claim anew, is well typed: attempts stays within max_attempts.
LEMMA TakeType ==
    ASSUME DeletionTypeOK, NEW w \in Workers, NEW d \in Deletions, NEW s \in Surfaces,
           Take(w, d, s)
    PROVE  /\ job' \in [Deletions -> [Surfaces -> SurfaceJobs]]
           /\ worker' \in [Workers -> {Idle} \cup Claims]
<1>1. job[d][s] \in SurfaceJobs
  BY DEF DeletionTypeOK
<1>2. job[d][s].attempts + 1 \in 1 .. MaxAttempts /\ job[d][s].attempts + 1 \in 0 .. MaxAttempts
  BY <1>1, DeletionAttemptsAssumption DEF Take, SurfaceJobs
<1>3. Claimed(d, s, job[d][s].attempts + 1) \in Claims
  BY <1>2 DEF Claimed, Claims
<1>4. [job[d][s] EXCEPT !.status = "running", !.attempts = @ + 1] \in SurfaceJobs
  BY <1>1, <1>2 DEF SurfaceJobs
<1>5. job' \in [Deletions -> [Surfaces -> SurfaceJobs]]
  BY <1>4, JobReplaced DEF Take
<1> QED
  BY <1>3, <1>5 DEF Take, DeletionTypeOK

\* A saga's status is replaced.
LEMMA StatusReplaced ==
    ASSUME DeletionTypeOK, NEW d \in Deletions, NEW st \in Unfinished \cup {"none", "completed"},
           saga' = [saga EXCEPT ![d].status = st]
    PROVE  saga' \in [Deletions -> Sagas]
<1>1. [saga[d] EXCEPT !.status = st] \in Sagas
  BY DEF DeletionTypeOK, Sagas
<1> QED
  BY <1>1 DEF DeletionTypeOK

\* The statuses a step may give a saga are statuses.
LEMMA StatusType ==
    ASSUME DeletionTypeOK, NEW d \in Deletions
    PROVE  /\ saga[d].status \in Unfinished \cup {"none", "completed"}
           /\ Running(d) \in Unfinished \cup {"none", "completed"}
           /\ \A st \in {"dead", "retryable"} : Status(d, st) \in Unfinished \cup {"none", "completed"}
<1>1. saga[d].status \in Unfinished \cup {"none", "completed"}
  BY DEF DeletionTypeOK, Sagas
<1> QED
  BY <1>1 DEF Running, Status, Unfinished

\* A worker's result is replaced.
LEMMA ReturnsType ==
    ASSUME DeletionTypeOK, NEW w \in Workers, worker[w] # Idle,
           NEW result \in {"success", "retry", "terminal"}, Returns(w, result)
    PROVE  worker' \in [Workers -> {Idle} \cup Claims]
<1>1. worker[w] \in Claims
  BY DEF DeletionTypeOK
<1>2. [worker[w] EXCEPT !.result = result] \in Claims
  BY <1>1 DEF Claims
<1> QED
  BY <1>2 DEF Returns, DeletionTypeOK

\* What a handler does on its claim's surface.
Handling(w, d, s) ==
    /\ worker[w].deletion = d /\ worker[w].surface = s
    /\ job[d][s].status = "running"
    /\ \/ Refuse(w, d, s) \/ AlreadyVerified(w, d, s) \/ Pending(w, d, s)
       \/ EraseSurface(w, d, s) \/ (s = "events" /\ EraseRoom(w, d))

\* A handler works on a surface of a saga, under a running job.
LEMMA HandleCases ==
    ASSUME DeletionTypeOK, NEW w \in Workers, Handle(w)
    PROVE  \E d \in Deletions, s \in Surfaces : Handling(w, d, s)
<1>1. worker[w] \in Claims
  BY DEF Handle, DeletionTypeOK
<1>2. worker[w].deletion \in Deletions /\ worker[w].surface \in Surfaces
  BY <1>1 DEF Claims
<1>3. Handling(w, worker[w].deletion, worker[w].surface)
  BY DEF Handle, Handling, Current
<1> QED
  BY <1>2, <1>3

\* What the settlement of a claim does to its job and its saga.
Settling(w, d, s) ==
    /\ worker[w].deletion = d /\ worker[w].surface = s
    /\ job[d][s].status = "running"
    /\ \/ job' = [job EXCEPT ![d][s].status = "succeeded"] /\ saga' = saga
       \/ \E st \in {"dead", "retryable"} :
             /\ job' = [job EXCEPT ![d][s].status = st]
             /\ saga' = [saga EXCEPT ![d].status = Status(d, st)]

\* A settlement gives the job and its saga one of these outcomes.
LEMMA SettleCases ==
    ASSUME DeletionTypeOK, NEW w \in Workers, Settle(w)
    PROVE  \E d \in Deletions, s \in Surfaces : Settling(w, d, s)
<1>1. worker[w] \in Claims
  BY DEF Settle, DeletionTypeOK
<1>2. worker[w].deletion \in Deletions /\ worker[w].surface \in Surfaces
  BY <1>1 DEF Claims
<1> QED
  BY <1>2 DEF Settle, Settling, Current

\* Every step keeps the state well typed.
LEMMA NextDeletionType == DeletionTypeOK /\ [DeletionNext]_deletionVars => DeletionTypeOK'
<1> SUFFICES ASSUME DeletionTypeOK, [DeletionNext]_deletionVars PROVE DeletionTypeOK'
  OBVIOUS
<1> USE DEF DeletionTypeOK
<1>1. ASSUME NEW t \in Tables, Write(t) \/ JobWrites(t) PROVE DeletionTypeOK'
  <2>1. rows[t] + 1 \in 0 .. MaxRows
    BY <1>1, RowsAssumption DEF Write, JobWrites
  <2> QED
    BY <1>1, <2>1 DEF Write, JobWrites, sagaVars
<1>2. CASE CloseRoom \/ RetentionPasses \/ SelectExpired
  BY <1>2 DEF CloseRoom, RetentionPasses, SelectExpired, sagaVars
<1>11. CASE Grant
  BY <1>11, RowsAssumption, SurfaceOrder DEF Grant, sagaVars
<1>3. ASSUME NEW d \in Deletions, RequestDeletion(d) PROVE DeletionTypeOK'
  BY <1>3, StartType DEF RequestDeletion, StartSaga
<1>4. ASSUME NEW d \in Deletions, StartRetention(d) PROVE DeletionTypeOK'
  BY <1>4, StartType DEF StartRetention, StartSaga, sagaVars
<1>5. ASSUME NEW d \in Deletions, NEW s \in Surfaces, NEW w \in Workers, Claim(w, d, s)
      PROVE  DeletionTypeOK'
  <2>1. Take(w, d, s)
    BY <1>5 DEF Claim
  <2> QED
    BY <1>5, <2>1, TakeType DEF Claim, Take
<1>6. ASSUME NEW d \in Deletions, NEW s \in Surfaces, NEW w \in Workers, Reclaim(w, d, s)
      PROVE  DeletionTypeOK'
  <2>1. job[d][s] \in SurfaceJobs
    OBVIOUS
  <2>2. \A st \in {"succeeded", "dead"} : [job[d][s] EXCEPT !.status = st] \in SurfaceJobs
    BY <2>1 DEF SurfaceJobs
  <2>3. job' \in [Deletions -> [Surfaces -> SurfaceJobs]]
    <3>1. CASE job' = [job EXCEPT ![d][s].status = "succeeded"]
      BY <2>2, <3>1, JobReplaced
    <3>2. CASE job' = [job EXCEPT ![d][s].status = "dead"]
      BY <2>2, <3>2, JobReplaced
    <3>3. CASE Take(w, d, s)
      BY <3>3, TakeType
    <3> QED
      BY <1>6, <3>1, <3>2, <3>3 DEF Reclaim
  <2>4. saga' \in [Deletions -> Sagas]
    BY <1>6, StatusReplaced, StatusType DEF Reclaim, Take
  <2>5. worker' \in [Workers -> {Idle} \cup Claims]
    BY <1>6, TakeType DEF Reclaim
  <2> QED
    BY <1>6, <2>3, <2>4, <2>5 DEF Reclaim
<1>7. ASSUME NEW w \in Workers, Handle(w) PROVE DeletionTypeOK'
  <2>1. PICK d \in Deletions, s \in Surfaces : Handling(w, d, s)
    BY <1>7, HandleCases
  <2>2. worker[w] # Idle /\ UNCHANGED <<roomJob, candidate>>
    BY <1>7 DEF Handle
  <2>3. job[d][s] \in SurfaceJobs
    OBVIOUS
  <2>4. [job[d][s] EXCEPT !.marker = "written"] \in SurfaceJobs
    BY <2>3 DEF SurfaceJobs
  <2>5. Complete(d, s) => job' \in [Deletions -> [Surfaces -> SurfaceJobs]]
    BY <2>4, JobReplaced DEF Complete
  <2>6. CASE Refuse(w, d, s) \/ Pending(w, d, s)
    BY <2>2, <2>6, ReturnsType DEF Refuse, Pending, sagaVars
  <2>7. CASE AlreadyVerified(w, d, s)
    BY <2>2, <2>5, <2>7, ReturnsType, StatusReplaced, StatusType DEF AlreadyVerified
  <2>8. CASE EraseSurface(w, d, s)
    <3>1. rows' \in [Tables -> 0 .. MaxRows]
      BY <2>8, RowsAssumption DEF EraseSurface
    <3>2. manifest' \in [Deletions -> [Surfaces -> {"none", "frozen", "verified"}]]
      BY <2>8 DEF EraseSurface
    <3> QED
      BY <2>2, <2>5, <2>8, <3>1, <3>2, ReturnsType, StatusReplaced, StatusType DEF EraseSurface
  <2>9. CASE s = "events" /\ EraseRoom(w, d)
    <3>1. rows' \in [Tables -> 0 .. MaxRows]
      BY <2>9, RowsAssumption DEF EraseRoom
    <3>2. manifest' \in [Deletions -> [Surfaces -> {"none", "frozen", "verified"}]]
      BY <2>9 DEF EraseRoom
    <3>3. [status |-> "completed", room |-> FALSE] \in Sagas
      BY DEF Sagas
    <3>4. saga' \in [Deletions -> Sagas]
      BY <2>9, <3>3 DEF EraseRoom
    <3> QED
      BY <2>2, <2>5, <2>9, <3>1, <3>2, <3>4, ReturnsType DEF EraseRoom
  <2> QED
    BY <2>1, <2>6, <2>7, <2>8, <2>9 DEF Handling
<1>8. ASSUME NEW w \in Workers, Settle(w) PROVE DeletionTypeOK'
  <2>1. PICK d \in Deletions, s \in Surfaces : Settling(w, d, s)
    BY <1>8, SettleCases
  <2>2. job[d][s] \in SurfaceJobs
    OBVIOUS
  <2>3. \A st \in {"succeeded", "dead", "retryable"} :
            [job[d][s] EXCEPT !.status = st] \in SurfaceJobs
    BY <2>2 DEF SurfaceJobs
  <2>4. job' \in [Deletions -> [Surfaces -> SurfaceJobs]]
    <3>1. PICK st \in {"succeeded", "dead", "retryable"} : job' = [job EXCEPT ![d][s].status = st]
      BY <2>1 DEF Settling
    <3> QED
      BY <2>3, <3>1, JobReplaced
  <2>5. saga' \in [Deletions -> Sagas]
    <3>1. CASE saga' = saga
      BY <3>1
    <3>2. ASSUME NEW st \in {"dead", "retryable"}, saga' = [saga EXCEPT ![d].status = Status(d, st)]
          PROVE  saga' \in [Deletions -> Sagas]
      BY <3>2, StatusReplaced, StatusType
    <3> QED
      BY <2>1, <3>1, <3>2 DEF Settling
  <2> QED
    BY <1>8, <2>4, <2>5 DEF Settle
<1>9. ASSUME NEW w \in Workers, Drop(w) PROVE DeletionTypeOK'
  BY <1>9 DEF Drop, sagaVars
<1>10. CASE UNCHANGED deletionVars
  BY <1>10 DEF deletionVars, sagaVars
<1> QED
  BY <1>1, <1>2, <1>3, <1>4, <1>5, <1>6, <1>7, <1>8, <1>9, <1>10, <1>11 DEF DeletionNext

-----------------------------------------------------------------------------
(* Steps that leave the rows and the manifest alone.                       *)

\* Sagas keep the room, and a status that is not final may move.
SagaKept ==
    \A e \in Deletions :
        /\ saga'[e].room = saga[e].room
        /\ \/ saga'[e].status = saga[e].status
           \/ saga[e].status \in Unfinished /\ saga'[e].status \in Unfinished

\* The status of a saga whose surface job was running moves among the
\* unfinished ones, or stays.
LEMMA StatusKept ==
    ASSUME DInv, NEW d \in Deletions, NEW s \in Surfaces, job[d][s].status = "running",
           \/ saga' = saga
           \/ saga' = [saga EXCEPT ![d].status = Running(d)]
           \/ \E st \in {"dead", "retryable"} : saga' = [saga EXCEPT ![d].status = Status(d, st)]
    PROVE  SagaKept
<1>1. saga[d].status # "none" /\ saga[d].status \in Unfinished \cup {"completed"}
  BY StatusType DEF DInv, StartedWhole, Unfinished
<1>2. PICK v \in Unfinished \cup {"completed"} :
          /\ saga' = [saga EXCEPT ![d].status = v]
          /\ v = saga[d].status \/ (v \in Unfinished /\ saga[d].status \in Unfinished)
  <2>1. saga = [saga EXCEPT ![d].status = saga[d].status]
    BY DEF DInv, DeletionTypeOK, Sagas
  <2> QED
    BY <1>1, <2>1 DEF Running, Status, Final, Unfinished
<1> QED
  BY <1>2 DEF SagaKept, DInv, DeletionTypeOK, Sagas

\* Such a step keeps the invariant if it neither revives a job nor works for a
\* saga that was never started.
LEMMA KeptStep ==
    ASSUME DInv, DeletionTypeOK', SagaKept,
           UNCHANGED <<room, rows, roomJob, manifest, expected, receipt, candidate>>,
           \A d \in Deletions, s \in Surfaces :
               saga[d].status = "none" => job'[d][s].status = "none",
           \A w \in Workers : worker'[w] # Idle => saga[worker'[w].deletion].status # "none"
    PROVE  DInv'
<1> USE DEF SagaKept, Unfinished
<1>1. HoldsRoom'
  BY DEF DInv, HoldsRoom
<1>2. OneStarted'
  BY DEF DInv, OneStarted
<1>3. StartedWhole'
  BY DEF DInv, StartedWhole
<1>4. WorksForStarted'
  <2> SUFFICES ASSUME NEW w \in Workers, worker'[w] # Idle
               PROVE  saga'[worker'[w].deletion].status # "none"
    BY DEF WorksForStarted
  <2>1. worker'[w].deletion \in Deletions
    BY DEF DeletionTypeOK, Claims
  <2> QED
    BY <2>1
<1>5. RoomIsFrozen'
  <2>1. Deleting' => Deleting
    BY DEF Deleting, DInv, HoldsRoom
  <2> QED
    BY <2>1 DEF DInv, RoomIsFrozen, AllVerified
<1>6. VerifiedStaysEmpty' /\ FrozenCountsHold'
  BY SameRows DEF DInv, VerifiedStaysEmpty, FrozenCountsHold
<1> QED
  BY <1>1, <1>2, <1>3, <1>4, <1>5, <1>6 DEF DInv

-----------------------------------------------------------------------------
(* Steps of the room and the start of a saga.                              *)

\* A room that is there and that no saga holds has never been under deletion.
LEMMA NotStarted ==
    ASSUME DInv, room # "gone", ~Deleting
    PROVE  \A d \in Deletions, s \in Surfaces :
               saga[d].status = "none" /\ ~saga[d].room /\ manifest[d][s] = "none"
<1> SUFFICES ASSUME NEW d \in Deletions, NEW s \in Surfaces
             PROVE  saga[d].status = "none" /\ ~saga[d].room /\ manifest[d][s] = "none"
  OBVIOUS
<1>1. saga[d].status \notin Unfinished /\ ~saga[d].room
  BY DEF Deleting, DInv, HoldsRoom
<1>2. saga[d].status # "completed"
  BY DEF DInv, RoomIsFrozen
<1>3. saga[d].status = "none"
  BY <1>1, <1>2, StatusType DEF DInv
<1> QED
  BY <1>1, <1>3 DEF DInv, StartedWhole

\* No command and no job writes into a room under deletion.
LEMMA WriteStep ==
    ASSUME DInv, DeletionTypeOK', NEW t \in Tables, Write(t) \/ JobWrites(t)
    PROVE  DInv'
<1>1. ~Deleting /\ room # "gone"
  BY DEF Write, JobWrites, DInv, RoomIsFrozen
<1>2. UNCHANGED <<room, saga, manifest, expected, receipt, job, worker, candidate>>
  BY DEF Write, JobWrites, sagaVars
<1>3. ~Deleting'
  BY <1>1, <1>2 DEF Deleting
<1>4. HoldsRoom' /\ OneStarted' /\ StartedWhole' /\ WorksForStarted'
  BY <1>2 DEF DInv, HoldsRoom, OneStarted, StartedWhole, WorksForStarted
<1>5. RoomIsFrozen'
  BY <1>1, <1>2, <1>3 DEF DInv, RoomIsFrozen, AllVerified
<1>6. VerifiedStaysEmpty' /\ FrozenCountsHold'
  BY <1>1, <1>2, NotStarted DEF VerifiedStaysEmpty, FrozenCountsHold
<1> QED
  BY <1>4, <1>5, <1>6 DEF DInv

\* A grant adds the promotion and nothing else, to a room under deletion too.
LEMMA GrantStep ==
    ASSUME DInv, DeletionTypeOK', Grant
    PROVE  DInv'
<1>1. /\ UNCHANGED <<room, roomJob, saga, manifest, expected, receipt, job, worker, candidate>>
      /\ room # "gone" /\ rows["promotions"] = 0 /\ rows'["promotions"] = 1
      /\ \A t \in Tables : t # "promotions" => rows'[t] = rows[t]
  BY SurfaceOrder DEF Grant, sagaVars, DInv, DeletionTypeOK
<1>2. ASSUME NEW x \in Surfaces
      PROVE  Count(x)' = Count(x) + Promotions(x)' /\ Promotions(x) = 0
  <2>1. Promotions(x) = 0 /\ Promotions(x)' = IF x = "projections" THEN 1 ELSE 0
    BY <1>1 DEF Promotions
  <2>2. CASE x = "provider_copies"
    <3>1. \A t \in External : rows'[t] = rows[t]
      BY <1>1, SurfaceOrder
    <3> QED
      BY <2>1, <2>2, <3>1 DEF Count
  <2>3. CASE x = "caches"
    BY <2>1, <2>3 DEF Count
  <2>4. CASE x \notin {"provider_copies", "caches"}
    <3>1. rows'[x] = rows[x] /\ rows[x] \in Nat
      BY <1>1, <2>4, SurfaceOrder DEF DInv, DeletionTypeOK
    <3> QED
      BY <2>1, <2>4, <3>1 DEF Count
  <2> QED
    BY <2>1, <2>2, <2>3, <2>4
<1>3. HoldsRoom' /\ OneStarted' /\ StartedWhole' /\ WorksForStarted'
  BY <1>1 DEF DInv, HoldsRoom, OneStarted, StartedWhole, WorksForStarted
<1>4. RoomIsFrozen'
  BY <1>1 DEF DInv, RoomIsFrozen, AllVerified, Deleting
<1>5. \A x \in Surfaces : Count(x) \in Nat /\ Promotions(x)' \in Nat
  BY <1>1, CountBounds, RowsAssumption DEF DInv, DeletionTypeOK, Promotions
<1>6. VerifiedStaysEmpty'
  BY <1>1, <1>2, <1>5, SurfaceOrder DEF DInv, VerifiedStaysEmpty
<1>7. FrozenCountsHold'
  <2> SUFFICES ASSUME NEW e \in Deletions, NEW x \in Surfaces, saga'[e].room,
                      manifest'[e][x] = "frozen"
               PROVE  Count(x)' = expected'[e][x] + Promotions(x)'
    BY DEF FrozenCountsHold
  <2>1. Count(x) \in {expected[e][x], expected[e][x] + Promotions(x)}
    BY <1>1 DEF DInv, FrozenCountsHold
  <2>2. expected[e][x] \in Nat
    BY RowsAssumption DEF DInv, DeletionTypeOK
  <2> QED
    BY <1>1, <1>2, <2>1, <2>2
<1> QED
  BY <1>3, <1>4, <1>6, <1>7 DEF DInv

\* A room closes, expires and is selected only while nobody deletes it.
LEMMA RoomStep ==
    ASSUME DInv, DeletionTypeOK', CloseRoom \/ RetentionPasses \/ SelectExpired
    PROVE  DInv'
<1>1. UNCHANGED <<rows, roomJob, saga, manifest, expected, receipt, job, worker>>
  BY DEF CloseRoom, RetentionPasses, SelectExpired, sagaVars
<1>2. ~Deleting /\ room # "gone" /\ room' # "gone" /\ (candidate' => room' # "open")
  BY DEF CloseRoom, RetentionPasses, SelectExpired, DInv, RoomIsFrozen
<1>3. ~Deleting'
  BY <1>1, <1>2 DEF Deleting
<1>4. HoldsRoom' /\ OneStarted' /\ StartedWhole' /\ WorksForStarted'
  BY <1>1 DEF DInv, HoldsRoom, OneStarted, StartedWhole, WorksForStarted
<1>5. RoomIsFrozen'
  BY <1>1, <1>2, <1>3 DEF DInv, RoomIsFrozen, AllVerified
<1>6. VerifiedStaysEmpty' /\ FrozenCountsHold'
  BY <1>1, SameRows DEF DInv, VerifiedStaysEmpty, FrozenCountsHold
<1> QED
  BY <1>4, <1>5, <1>6 DEF DInv

\* A saga starts on a room that no other holds or has erased, freezes what every
\* surface holds and takes the room's jobs their claims.
LEMMA StartStep ==
    ASSUME DInv, DeletionTypeOK', NEW d \in Deletions, StartSaga(d),
           room # "gone", ~Deleting, room' \in {"closed", "expired"}
    PROVE  DInv'
<1>1. \A e \in Deletions, s \in Surfaces :
         saga[e].status = "none" /\ ~saga[e].room /\ manifest[e][s] = "none"
  BY NotStarted
<1>2. /\ saga'[d] = [status |-> "queued", room |-> TRUE]
      /\ \A s \in Surfaces : manifest'[d][s] = "frozen" /\ expected'[d][s] = Count(s)
      /\ \A e \in Deletions \ {d} : /\ saga'[e] = saga[e] /\ manifest'[e] = manifest[e]
                                    /\ job'[e] = job[e]
      /\ rows' = rows /\ receipt' = receipt /\ worker' = worker /\ roomJob' # "running"
  BY DEF StartSaga, DInv, DeletionTypeOK
<1>3. \A e \in Deletions : saga'[e].status = "none" <=> e # d
  BY <1>1, <1>2, SurfaceOrder
<1>4. HoldsRoom'
  BY <1>1, <1>2, SurfaceOrder DEF HoldsRoom, Unfinished
<1>5. OneStarted'
  BY <1>3 DEF OneStarted
<1>6. StartedWhole'
  <2>1. \A e \in Deletions : e \notin receipt
    BY <1>1, SurfaceOrder DEF DInv, StartedWhole
  <2> QED
    BY <1>1, <1>2, <1>3, <2>1 DEF StartedWhole, DInv
<1>7. WorksForStarted'
  <2> SUFFICES ASSUME NEW w \in Workers, worker[w] # Idle PROVE FALSE
    BY <1>2 DEF WorksForStarted
  <2>1. worker[w].deletion \in Deletions
    BY DEF DInv, DeletionTypeOK, Claims
  <2> QED
    BY <1>1, <2>1, SurfaceOrder DEF DInv, WorksForStarted
<1>8. RoomIsFrozen'
  <2>1. \A e \in Deletions : e \notin receipt' /\ saga'[e].status # "completed"
    BY <1>1, <1>2, SurfaceOrder DEF DInv, StartedWhole
  <2> QED
    BY <1>2, <2>1 DEF RoomIsFrozen
<1>9. VerifiedStaysEmpty'
  BY <1>1, <1>2 DEF VerifiedStaysEmpty
<1>10. FrozenCountsHold'
  BY <1>1, <1>2, SameRows DEF FrozenCountsHold
<1> QED
  BY <1>4, <1>5, <1>6, <1>7, <1>8, <1>9, <1>10 DEF DInv

-----------------------------------------------------------------------------
(* Erasure.                                                                *)

\* What erasing a surface does to a table.
ErasedRows(s) ==
    [t \in Tables |-> IF t = s \/ (t = "promotions" /\ s = "projections") THEN 0 ELSE rows[t]]

\* A surface that is empty stays empty when another is erased.
LEMMA EmptyStays ==
    ASSUME rows \in [Tables -> 0 .. MaxRows], NEW x \in Surfaces, NEW s \in Surfaces,
           rows' = ErasedRows(s), Count(x) = Promotions(x)
    PROVE  Count(x)' = Promotions(x)'
<1>0. Promotions(x)' \in Nat
  BY SurfaceOrder DEF Promotions, ErasedRows
<1>1. CASE x = "provider_copies"
  <2>1. \A t \in External : ~(rows[t] > 0)
    BY <1>1 DEF Count, Promotions
  <2>2. \A t \in External : ~(rows'[t] > 0)
    BY <2>1, SurfaceOrder DEF ErasedRows
  <2> QED
    BY <1>1, <2>2 DEF Count, Promotions
<1>2. CASE x = "caches"
  BY <1>2 DEF Count, Promotions
<1>3. CASE x \notin {"provider_copies", "caches"}
  <2>1. rows[x] \in Nat /\ Promotions(x) \in Nat /\ Count(x) = rows[x] + Promotions(x)
    BY <1>3, SurfaceOrder DEF Count, Promotions
  <2>2. rows[x] = 0
    BY <2>1
  <2>3. rows'[x] = 0
    BY <1>3, <2>2, SurfaceOrder DEF ErasedRows
  <2> QED
    BY <1>0, <1>3, <2>3 DEF Count
<1> QED
  BY <1>1, <1>2, <1>3

\* A surface is erased once everything before it is verified: nothing that is
\* still frozen loses a row by it.
LEMMA SurfaceStep ==
    ASSUME DInv, DeletionTypeOK', NEW w \in Workers, NEW d \in Deletions, NEW s \in Surfaces,
           worker[w] # Idle, Handling(w, d, s), EraseSurface(w, d, s),
           UNCHANGED <<roomJob, candidate>>
    PROVE  DInv'
<1>1. SagaKept
  BY StatusKept DEF Handling, EraseSurface
<1>2. /\ rows' = ErasedRows(s)
      /\ manifest'[d][s] = "verified"
      /\ \A e \in Deletions, x \in Surfaces :
            <<e, x>> # <<d, s>> => manifest'[e][x] = manifest[e][x]
      /\ room' = room /\ expected' = expected /\ receipt' = receipt
  BY DEF EraseSurface, DInv, DeletionTypeOK, ErasedRows
<1>3. /\ saga[d].status \in Unfinished /\ room # "gone" /\ manifest[d][s] # "verified"
      /\ DependenciesVerified(d, s) /\ Certifiable(d, s)
  <2>1. saga[d].status # "none"
    BY DEF Handling, DInv, StartedWhole
  <2> QED
    BY <2>1, StatusType DEF EraseSurface, Erasable, Final, DInv
<1>4. \A e \in Deletions : saga[e].status # "none" => e = d
  BY <1>3 DEF DInv, OneStarted, Unfinished
<1>5. \A e \in Deletions, x \in Surfaces : e # d => manifest[e][x] = "none"
  BY <1>4 DEF DInv, StartedWhole
<1>6. HoldsRoom'
  BY <1>1 DEF SagaKept, Unfinished, DInv, HoldsRoom
<1>7. OneStarted'
  BY <1>1 DEF SagaKept, Unfinished, DInv, OneStarted
<1>8. StartedWhole'
  <2> SUFFICES ASSUME NEW e \in Deletions, NEW x \in Surfaces
               PROVE  /\ saga'[e].status = "none" <=> manifest'[e][x] = "none"
                      /\ saga'[e].status = "none" => job'[e][x].status = "none" /\ e \notin receipt'
    BY DEF StartedWhole
  <2>1. saga'[e].status = "none" <=> saga[e].status = "none"
    BY <1>1 DEF SagaKept, Unfinished
  <2>2. CASE e = d
    BY <1>2, <1>3, <2>1, <2>2 DEF Unfinished, DInv, StartedWhole
  <2>3. CASE e # d
    <3>1. job'[e] = job[e]
      BY <2>3 DEF EraseSurface, Complete, DInv, DeletionTypeOK
    <3> QED
      BY <1>2, <2>1, <2>3, <3>1 DEF DInv, StartedWhole
  <2> QED
    BY <2>2, <2>3
<1>9. WorksForStarted'
  <2> SUFFICES ASSUME NEW v \in Workers, worker'[v] # Idle
               PROVE  saga'[worker'[v].deletion].status # "none"
    BY DEF WorksForStarted
  <2>1. worker[w] \in Claims
    BY DEF DInv, DeletionTypeOK
  <2>2. worker[v] # Idle /\ worker'[v].deletion = worker[v].deletion
    BY <2>1 DEF EraseSurface, Returns, DInv, DeletionTypeOK, Claims
  <2>3. worker[v].deletion \in Deletions
    BY <2>2 DEF DInv, DeletionTypeOK, Claims
  <2> QED
    BY <1>1, <2>2, <2>3 DEF SagaKept, Unfinished, DInv, WorksForStarted
<1>10. RoomIsFrozen'
  <2>1. Deleting' => Deleting
    BY <1>1 DEF Deleting, SagaKept, DInv, HoldsRoom
  <2>2. room # "gone" /\ \A e \in Deletions : e \notin receipt
    BY <1>3 DEF DInv, RoomIsFrozen
  <2>3. \A e \in Deletions : saga'[e].status # "completed"
    BY <1>1, <2>2 DEF SagaKept, Unfinished, DInv, RoomIsFrozen
  <2> QED
    BY <1>2, <2>1, <2>2, <2>3 DEF DInv, RoomIsFrozen
<1>11. VerifiedStaysEmpty'
  <2> SUFFICES ASSUME NEW e \in Deletions, NEW x \in Surfaces, manifest'[e][x] = "verified"
               PROVE  /\ Count(x)' = Promotions(x)'
                      /\ \A p \in Prior(x) : manifest'[e][p] = "verified"
    BY DEF VerifiedStaysEmpty
  <2>1. e = d
    BY <1>2, <1>5
  <2>2. \A p \in Surfaces : manifest[d][p] = "verified" => manifest'[d][p] = "verified"
    BY <1>2
  <2>3. CASE x = s
    <3>1. Count(s)' = Promotions(s)'
      <4>1. CASE s = "provider_copies"
        <5>1. Count(s) = Promotions(s)
          BY <1>3, <4>1 DEF Certifiable, Promotions
        <5> QED
          BY <1>2, <5>1, EmptyStays DEF DInv, DeletionTypeOK
      <4>2. CASE s = "caches"
        BY <4>2 DEF Count, Promotions
      <4>3. CASE s \notin {"provider_copies", "caches"}
        <5>1. rows'[s] = 0 /\ Promotions(s)' = 0
          BY <1>2, <4>3, SurfaceOrder DEF ErasedRows, Promotions
        <5> QED
          BY <4>3, <5>1 DEF Count
      <4> QED
        BY <4>1, <4>2, <4>3
    <3> QED
      BY <1>3, <2>1, <2>2, <2>3, <3>1, SurfaceOrder DEF DependenciesVerified
  <2>4. CASE x # s
    <3>1. manifest[d][x] = "verified"
      BY <1>2, <2>1, <2>4
    <3>2. Count(x) = Promotions(x) /\ \A p \in Prior(x) : manifest[d][p] = "verified"
      BY <3>1 DEF DInv, VerifiedStaysEmpty
    <3> QED
      BY <1>2, <2>1, <2>2, <3>2, EmptyStays, SurfaceOrder DEF DInv, DeletionTypeOK
  <2> QED
    BY <2>3, <2>4
<1>12. FrozenCountsHold'
  <2> SUFFICES ASSUME NEW e \in Deletions, NEW x \in Surfaces, saga'[e].room,
                      manifest'[e][x] = "frozen"
               PROVE  Count(x)' \in {expected'[e][x], expected'[e][x] + Promotions(x)'}
    BY DEF FrozenCountsHold
  <2>1. e = d /\ x # s /\ manifest[d][x] = "frozen" /\ saga[d].room
    BY <1>1, <1>2, <1>5 DEF SagaKept
  <2>2. Count(x) \in {expected[d][x], expected[d][x] + Promotions(x)}
    BY <2>1 DEF DInv, FrozenCountsHold
  <2>3. x # "provider_copies"
    <3>1. ASSUME x = "provider_copies" PROVE FALSE
      BY <1>3, <2>1, <3>1, SurfaceOrder DEF DependenciesVerified
    <3> QED
      BY <3>1
  <2>4. Count(x)' = Count(x) /\ Promotions(x)' = Promotions(x)
    <3>0. Promotions(x)' = Promotions(x)
      BY <1>2, <2>1, SurfaceOrder DEF Promotions, ErasedRows
    <3>1. CASE x = "caches"
      BY <3>0, <3>1 DEF Count
    <3>2. CASE x # "caches"
      <4>1. x \in Tables /\ x # s /\ x # "promotions"
        BY <2>1, <2>3, <3>2, SurfaceOrder
      <4>2. rows'[x] = rows[x]
        BY <1>2, <4>1 DEF ErasedRows
      <4> QED
        BY <2>3, <3>0, <3>2, <4>2 DEF Count
    <3> QED
      BY <3>1, <3>2
  <2> QED
    BY <1>2, <2>1, <2>2, <2>4
<1> QED
  BY <1>6, <1>7, <1>8, <1>9, <1>10, <1>11, <1>12 DEF DInv

\* The last surface is erased when every other is verified, so that the receipt
\* it writes says the truth.
LEMMA RoomErased ==
    ASSUME DInv, DeletionTypeOK', NEW w \in Workers, NEW d \in Deletions,
           worker[w] # Idle, Handling(w, d, "events"), EraseRoom(w, d),
           UNCHANGED <<roomJob, candidate>>
    PROVE  DInv'
<1>0. "events" \in Surfaces
  BY SurfaceOrder
<1>1. /\ saga[d].status \in Unfinished /\ DependenciesVerified(d, "events")
  <2>1. saga[d].status # "none"
    BY <1>0 DEF Handling, DInv, StartedWhole
  <2> QED
    BY <2>1, StatusType DEF EraseRoom, Erasable, Final, DInv
<1>2. \A e \in Deletions : e # d => saga[e].status = "none"
  BY <1>1 DEF DInv, OneStarted, Unfinished
<1>3. /\ saga'[d] = [status |-> "completed", room |-> FALSE]
      /\ \A e \in Deletions : e # d => saga'[e] = saga[e] /\ manifest'[e] = manifest[e] /\ job'[e] = job[e]
      /\ room' = "gone" /\ rows' = [t \in Tables |-> 0]
      /\ receipt' = receipt \cup {d}
      /\ manifest'[d]["events"] = "verified"
      /\ \A x \in Surfaces : x # "events" => manifest'[d][x] = manifest[d][x]
  BY <1>0 DEF EraseRoom, Complete, DInv, DeletionTypeOK
<1>4. \A x \in Surfaces : manifest'[d][x] = "verified"
  BY <1>1, <1>3, SurfaceOrder DEF DependenciesVerified
<1>5. \A x \in Surfaces : Count(x)' = 0 /\ Promotions(x)' = 0
  <2> SUFFICES ASSUME NEW x \in Surfaces PROVE Count(x)' = 0 /\ Promotions(x)' = 0
    OBVIOUS
  <2>1. (\A t \in Tables : rows'[t] = 0) /\ Promotions(x)' = 0
    BY <1>3, SurfaceOrder DEF Promotions
  <2>2. CASE x = "provider_copies"
    <3>1. \A t \in External : ~(rows'[t] > 0)
      BY <2>1, SurfaceOrder
    <3> QED
      BY <2>1, <2>2, <3>1 DEF Count
  <2>3. CASE x # "provider_copies"
    BY <2>1, <2>3, SurfaceOrder DEF Count
  <2> QED
    BY <2>2, <2>3
<1>6. HoldsRoom'
  BY <1>2, <1>3 DEF DInv, HoldsRoom, Unfinished
<1>7. OneStarted'
  BY <1>2, <1>3 DEF OneStarted
<1>8. StartedWhole'
  BY <1>2, <1>3, <1>4 DEF DInv, StartedWhole
<1>9. WorksForStarted'
  <2> SUFFICES ASSUME NEW v \in Workers, worker'[v] # Idle
               PROVE  saga'[worker'[v].deletion].status # "none"
    BY DEF WorksForStarted
  <2>1. worker[w] \in Claims
    BY DEF DInv, DeletionTypeOK
  <2>2. worker[v] # Idle /\ worker'[v].deletion = worker[v].deletion
    BY <2>1 DEF EraseRoom, Returns, DInv, DeletionTypeOK, Claims
  <2>3. worker[v].deletion \in Deletions
    BY <2>2 DEF DInv, DeletionTypeOK, Claims
  <2> QED
    BY <1>3, <2>2, <2>3 DEF DInv, WorksForStarted
<1>10. RoomIsFrozen'
  <2>1. ~Deleting'
    BY <1>2, <1>3 DEF Deleting, Unfinished
  <2>2. \A e \in Deletions : e \in receipt' <=> e = d
    BY <1>2, <1>3, <1>0 DEF DInv, StartedWhole
  <2>3. AllVerified(d)'
    BY <1>4 DEF AllVerified
  <2>4. \A e \in Deletions : saga'[e].status = "completed" <=> e = d
    BY <1>2, <1>3
  <2>5. \A t \in Tables : rows'[t] = 0
    BY <1>3
  <2>6. \A e \in Deletions : e \in receipt' => room' = "gone" /\ AllVerified(e)'
    BY <1>3, <1>4, <2>2 DEF AllVerified
  <2> QED
    BY <1>3, <2>1, <2>2, <2>4, <2>5, <2>6 DEF RoomIsFrozen
<1>11. VerifiedStaysEmpty'
  <2>1. \A e \in Deletions, x \in Surfaces : manifest'[e][x] = "verified" => e = d
    BY <1>2, <1>3 DEF DInv, StartedWhole
  <2> QED
    BY <1>4, <1>5, <2>1, SurfaceOrder DEF VerifiedStaysEmpty
<1>12. FrozenCountsHold'
  <2>1. \A e \in Deletions, x \in Surfaces : manifest'[e][x] # "frozen"
    BY <1>2, <1>3, <1>4 DEF DInv, StartedWhole
  <2> QED
    BY <2>1 DEF FrozenCountsHold
<1> QED
  BY <1>6, <1>7, <1>8, <1>9, <1>10, <1>11, <1>12 DEF DInv

-----------------------------------------------------------------------------
(* The invariant.                                                          *)

\* An open room satisfies the invariant.
LEMMA InitDInv == DeletionInit => DInv
<1> SUFFICES ASSUME DeletionInit PROVE DInv
  OBVIOUS
<1> USE DEF DeletionInit
<1>1. DeletionTypeOK
  <2>1. NoJob \in SurfaceJobs
    BY DeletionAttemptsAssumption DEF NoJob, SurfaceJobs
  <2>2. [status |-> "none", room |-> FALSE] \in Sagas
    BY DEF Sagas
  <2>3. rows \in [Tables -> 0 .. MaxRows]
    BY RowsAssumption
  <2>4. expected \in [Deletions -> [Surfaces -> 0 .. 2 * MaxRows]]
    BY RowsAssumption
  <2> QED
    BY <2>1, <2>2, <2>3, <2>4 DEF DeletionTypeOK
<1>2. HoldsRoom /\ OneStarted
  BY DEF HoldsRoom, OneStarted, Unfinished
<1>3. StartedWhole /\ WorksForStarted
  BY DEF StartedWhole, WorksForStarted, NoJob
<1>4. RoomIsFrozen
  BY DEF RoomIsFrozen, Deleting, Unfinished
<1>5. VerifiedStaysEmpty /\ FrozenCountsHold
  BY DEF VerifiedStaysEmpty, FrozenCountsHold
<1> QED
  BY <1>1, <1>2, <1>3, <1>4, <1>5 DEF DInv

\* A claim moves its own job and its own worker only.
LEMMA ClaimStep ==
    ASSUME DInv, DeletionTypeOK', NEW w \in Workers, NEW d \in Deletions, NEW s \in Surfaces,
           job[d][s].status # "none", Take(w, d, s),
           UNCHANGED <<room, rows, roomJob, manifest, expected, receipt, candidate>>
    PROVE  DInv'
<1>1. saga[d].status # "none"
  BY DEF DInv, StartedWhole
<1>2. SagaKept
  BY DEF SagaKept, Take
<1>3. ASSUME NEW e \in Deletions, NEW x \in Surfaces, saga[e].status = "none"
      PROVE  job'[e][x].status = "none"
  <2>1. job'[e] = job[e]
    BY <1>1, <1>3 DEF Take, DInv, DeletionTypeOK
  <2> QED
    BY <1>3, <2>1 DEF DInv, StartedWhole
<1>4. ASSUME NEW v \in Workers, worker'[v] # Idle PROVE saga[worker'[v].deletion].status # "none"
  <2>1. CASE v = w
    BY <1>1, <2>1 DEF Take, Claimed, DInv, DeletionTypeOK
  <2>2. CASE v # w
    BY <1>4, <2>2 DEF Take, DInv, DeletionTypeOK, WorksForStarted
  <2> QED
    BY <2>1, <2>2
<1> QED
  BY <1>2, <1>3, <1>4, KeptStep

\* A job that runs gets another status or its marker, and its saga follows.
LEMMA JobStep ==
    ASSUME DInv, DeletionTypeOK', NEW d \in Deletions, NEW s \in Surfaces,
           job[d][s].status = "running", SagaKept,
           \A e \in Deletions : e # d => job'[e] = job[e],
           \A v \in Workers : worker'[v] # Idle =>
                worker[v] # Idle /\ worker'[v].deletion = worker[v].deletion,
           UNCHANGED <<room, rows, roomJob, manifest, expected, receipt, candidate>>
    PROVE  DInv'
<1>1. saga[d].status # "none"
  BY DEF DInv, StartedWhole
<1>2. \A e \in Deletions, x \in Surfaces : saga[e].status = "none" => job'[e][x].status = "none"
  BY <1>1 DEF DInv, StartedWhole
<1>3. \A v \in Workers : worker'[v] # Idle => saga[worker'[v].deletion].status # "none"
  BY DEF DInv, WorksForStarted
<1> QED
  BY <1>2, <1>3, KeptStep

\* A worker that reports keeps what it was working for.
LEMMA ReturnsKeeps ==
    ASSUME DInv, NEW w \in Workers, worker[w] # Idle, NEW result, Returns(w, result)
    PROVE  \A v \in Workers : worker'[v] # Idle =>
                worker[v] # Idle /\ worker'[v].deletion = worker[v].deletion
<1>1. worker[w] \in Claims
  BY DEF DInv, DeletionTypeOK
<1> QED
  BY <1>1 DEF Returns, DInv, DeletionTypeOK, Claims

\* Every step of the room, the sagas and the workers keeps the invariant.
LEMMA NextDInv == DInv /\ [DeletionNext]_deletionVars => DInv'
<1> SUFFICES ASSUME DInv, [DeletionNext]_deletionVars PROVE DInv'
  OBVIOUS
<1>0. DeletionTypeOK'
  BY NextDeletionType DEF DInv
<1>1. ASSUME NEW t \in Tables, Write(t) \/ JobWrites(t) PROVE DInv'
  BY <1>0, <1>1, WriteStep
<1>2. CASE CloseRoom \/ RetentionPasses \/ SelectExpired
  BY <1>0, <1>2, RoomStep
<1>11. CASE Grant
  BY <1>0, <1>11, GrantStep
<1>3. ASSUME NEW d \in Deletions, RequestDeletion(d) PROVE DInv'
  BY <1>0, <1>3, StartStep DEF RequestDeletion
<1>4. ASSUME NEW d \in Deletions, StartRetention(d) PROVE DInv'
  <2>1. CASE Superseded
    <3>1. UNCHANGED <<room, rows, roomJob, saga, manifest, expected, receipt, job, worker>> /\ ~candidate'
      BY <1>4, <2>1 DEF StartRetention, sagaVars
    <3>2. HoldsRoom' /\ OneStarted' /\ StartedWhole' /\ WorksForStarted'
      BY <3>1 DEF DInv, HoldsRoom, OneStarted, StartedWhole, WorksForStarted
    <3>3. RoomIsFrozen'
      BY <3>1 DEF DInv, RoomIsFrozen, AllVerified, Deleting
    <3>4. VerifiedStaysEmpty' /\ FrozenCountsHold'
      BY <3>1, SameRows DEF DInv, VerifiedStaysEmpty, FrozenCountsHold
    <3> QED
      BY <1>0, <3>2, <3>3, <3>4 DEF DInv
  <2>2. CASE ~Superseded
    <3>1. ~Deleting /\ room # "gone" /\ StartSaga(d) /\ room' = room /\ candidate
      BY <1>4, <2>2 DEF StartRetention, Superseded
    <3>2. room \in {"closed", "expired"}
      BY <3>1 DEF DInv, DeletionTypeOK, RoomIsFrozen
    <3> QED
      BY <1>0, <3>1, <3>2, StartStep
  <2> QED
    BY <2>1, <2>2
<1>5. ASSUME NEW d \in Deletions, NEW s \in Surfaces, NEW w \in Workers, Claim(w, d, s)
      PROVE  DInv'
  BY <1>0, <1>5, ClaimStep DEF Claim
<1>6. ASSUME NEW d \in Deletions, NEW s \in Surfaces, NEW w \in Workers, Reclaim(w, d, s)
      PROVE  DInv'
  <2>1. /\ job[d][s].status = "running"
        /\ UNCHANGED <<room, rows, roomJob, manifest, expected, receipt, candidate>>
    BY <1>6 DEF Reclaim
  <2>2. CASE Take(w, d, s)
    BY <1>0, <2>1, <2>2, ClaimStep
  <2>3. CASE ~Take(w, d, s)
    <3>1. worker' = worker
      BY <1>6, <2>3 DEF Reclaim
    <3>2. SagaKept
      BY <1>6, <2>1, <2>3, StatusKept DEF Reclaim
    <3>3. \A e \in Deletions : e # d => job'[e] = job[e]
      BY <1>6, <2>3 DEF Reclaim, DInv, DeletionTypeOK
    <3> QED
      BY <1>0, <2>1, <3>1, <3>2, <3>3, JobStep
  <2> QED
    BY <2>2, <2>3
<1>7. ASSUME NEW w \in Workers, Handle(w) PROVE DInv'
  <2>1. PICK d \in Deletions, s \in Surfaces : Handling(w, d, s)
    BY <1>7, HandleCases DEF DInv
  <2>2. worker[w] # Idle /\ UNCHANGED <<roomJob, candidate>>
    BY <1>7 DEF Handle
  <2>3. job[d][s].status = "running"
    BY <2>1 DEF Handling
  <2>4. CASE Refuse(w, d, s) \/ Pending(w, d, s)
    <3>1. /\ UNCHANGED <<room, rows, saga, manifest, expected, receipt, job>>
          /\ \E result \in {"retry", "terminal"} : Returns(w, result)
      BY <2>4 DEF Refuse, Pending, sagaVars
    <3>2. SagaKept
      BY <3>1 DEF SagaKept
    <3>3. \A v \in Workers : worker'[v] # Idle =>
             worker[v] # Idle /\ worker'[v].deletion = worker[v].deletion
      BY <2>2, <3>1, ReturnsKeeps
    <3> QED
      BY <1>0, <2>2, <2>3, <3>1, <3>2, <3>3, JobStep
  <2>5. CASE AlreadyVerified(w, d, s)
    <3>1. UNCHANGED <<room, rows, manifest, expected, receipt>> /\ Returns(w, "success")
      BY <2>5 DEF AlreadyVerified
    <3>2. SagaKept
      BY <2>3, <2>5, StatusKept DEF AlreadyVerified
    <3>3. \A e \in Deletions : e # d => job'[e] = job[e]
      BY <2>5 DEF AlreadyVerified, Complete, DInv, DeletionTypeOK
    <3>4. \A v \in Workers : worker'[v] # Idle =>
             worker[v] # Idle /\ worker'[v].deletion = worker[v].deletion
      BY <2>2, <3>1, ReturnsKeeps
    <3> QED
      BY <1>0, <2>2, <2>3, <3>1, <3>2, <3>3, <3>4, JobStep
  <2>6. CASE EraseSurface(w, d, s)
    BY <1>0, <2>1, <2>2, <2>6, SurfaceStep
  <2>7. CASE s = "events" /\ EraseRoom(w, d)
    BY <1>0, <2>1, <2>2, <2>7, RoomErased
  <2> QED
    BY <2>1, <2>4, <2>5, <2>6, <2>7 DEF Handling
<1>8. ASSUME NEW w \in Workers, Settle(w) PROVE DInv'
  <2>1. PICK d \in Deletions, s \in Surfaces : Settling(w, d, s)
    BY <1>8, SettleCases DEF DInv
  <2>2. SagaKept
    BY <2>1, StatusKept DEF Settling
  <2>3. \A e \in Deletions : e # d => job'[e] = job[e]
    BY <2>1 DEF Settling, DInv, DeletionTypeOK
  <2>4. \A v \in Workers : worker'[v] # Idle =>
             worker[v] # Idle /\ worker'[v].deletion = worker[v].deletion
    BY <1>8 DEF Settle, DInv, DeletionTypeOK
  <2>5. UNCHANGED <<room, rows, roomJob, manifest, expected, receipt, candidate>>
    BY <1>8 DEF Settle
  <2> QED
    BY <1>0, <2>1, <2>2, <2>3, <2>4, <2>5, JobStep DEF Settling
<1>9. ASSUME NEW w \in Workers, Drop(w) PROVE DInv'
  <2>1. /\ UNCHANGED <<room, rows, roomJob, saga, manifest, expected, receipt, job, candidate>>
        /\ \A v \in Workers : worker'[v] # Idle => worker'[v] = worker[v]
    BY <1>9 DEF Drop, sagaVars, DInv, DeletionTypeOK
  <2>2. SagaKept
    BY <2>1 DEF SagaKept
  <2>3. \A d \in Deletions, s \in Surfaces : saga[d].status = "none" => job'[d][s].status = "none"
    BY <2>1 DEF DInv, StartedWhole
  <2>4. \A v \in Workers : worker'[v] # Idle => saga[worker'[v].deletion].status # "none"
    BY <2>1 DEF DInv, WorksForStarted
  <2> QED
    BY <1>0, <2>1, <2>2, <2>3, <2>4, KeptStep
<1>10. CASE UNCHANGED deletionVars
  <2>1. UNCHANGED <<room, rows, roomJob, saga, manifest, expected, receipt, job, worker, candidate>>
    BY <1>10 DEF deletionVars, sagaVars
  <2>2. SagaKept
    BY <2>1 DEF SagaKept
  <2>3. \A d \in Deletions, s \in Surfaces : saga[d].status = "none" => job'[d][s].status = "none"
    BY <2>1 DEF DInv, StartedWhole
  <2>4. \A v \in Workers : worker'[v] # Idle => saga[worker'[v].deletion].status # "none"
    BY <2>1 DEF DInv, WorksForStarted
  <2> QED
    BY <1>0, <2>1, <2>2, <2>3, <2>4, KeptStep
<1> QED
  BY <1>1, <1>2, <1>3, <1>4, <1>5, <1>6, <1>7, <1>8, <1>9, <1>10, <1>11 DEF DeletionNext

\* The invariant implies what the run checks.
LEMMA DInvSafe == DInv => DeletionSafe
<1> SUFFICES ASSUME DInv PROVE ReceiptProvesErasure /\ OneSaga
  BY DEF DeletionSafe, DInv
<1>1. ASSUME NEW d \in Deletions, d \in receipt
      PROVE  /\ ~saga[d].room
             /\ \A t \in Tables : rows[t] = 0
             /\ \A o \in Deletions \ {d} : saga[o].status = "none"
  <2>1. saga[d].status = "completed" /\ room = "gone"
    BY <1>1 DEF DInv, RoomIsFrozen
  <2> QED
    BY <2>1 DEF DInv, HoldsRoom, RoomIsFrozen, OneStarted, Unfinished
<1>2. ReceiptProvesErasure
  BY <1>1 DEF ReceiptProvesErasure, DInv, RoomIsFrozen
<1>3. OneSaga
  BY DEF OneSaga, DInv, HoldsRoom, OneStarted, Unfinished
<1> QED
  BY <1>2, <1>3

\* Every erasure is sound, for any surfaces, workers, attempts and rows: a verified
\* surface stays empty and what is not yet erased is what was frozen, but for a
\* promotion granted meanwhile, one saga at a time holds the room, and a receipt
\* proves that the room and the promotion too are gone (lifecycle.py's
\* delete_surface_handler, deletion-service.ts, retention-scheduler.ts).
THEOREM DeletionIsSafe == DeletionSpec => []DeletionSafe
<1>1. DeletionSpec => []DInv
  BY InitDInv, NextDInv, PTL DEF DeletionSpec
<1> QED
  BY <1>1, DInvSafe, PTL

\* A completed or dead saga keeps its status through late retries, reclaimed leases
\* and the settlement of sibling surfaces (_sync_lifecycle_status, lifecycle_dead).
THEOREM DeletionOutcomeFinal == DeletionSpec => SagaOutcomeFinal
<1>1. DeletionSpec => []DInv
  BY InitDInv, NextDInv, PTL DEF DeletionSpec
<1> DEFINE Kept == \A d \in Deletions : saga[d].status \in Final => saga'[d].status = saga[d].status
<1>2. DInv /\ [DeletionNext]_deletionVars => [Kept]_deletionVars
  <2> SUFFICES ASSUME DInv, DeletionNext, NEW d \in Deletions, saga[d].status \in Final
               PROVE  saga'[d].status = saga[d].status
    BY DEF Final
  <2>0. DeletionTypeOK
    BY DEF DInv
  <2>1. ASSUME NEW e \in Deletions, NEW v \in Unfinished \cup {"none", "completed"},
               saga[e].status \in Final => v = saga[e].status,
               saga' = [saga EXCEPT ![e].status = v]
        PROVE  saga'[d].status = saga[d].status
    <3>1. CASE e = d
      BY <2>0, <2>1, <3>1 DEF DeletionTypeOK, Sagas
    <3>2. CASE e # d
      BY <2>0, <2>1, <3>2 DEF DeletionTypeOK
    <3> QED
      BY <3>1, <3>2
  <2>2. ASSUME NEW e \in Deletions, NEW st \in {"dead", "retryable"},
               saga' = [saga EXCEPT ![e].status = Status(e, st)]
        PROVE  saga'[d].status = saga[d].status
    <3>1. Status(e, st) \in Unfinished \cup {"none", "completed"}
      BY <2>0, StatusType
    <3> QED
      BY <2>1, <2>2, <3>1 DEF Status
  <2>3. ASSUME NEW e \in Deletions, saga' = [saga EXCEPT ![e].status = Running(e)]
        PROVE  saga'[d].status = saga[d].status
    <3>1. Running(e) \in Unfinished \cup {"none", "completed"}
      BY <2>0, StatusType
    <3> QED
      BY <2>1, <2>3, <3>1 DEF Running, Final
  <2>4. ASSUME NEW e \in Deletions, saga[e].status = "none", StartSaga(e)
        PROVE  saga'[d].status = saga[d].status
    BY <2>0, <2>4 DEF StartSaga, Final, DeletionTypeOK, Sagas
  <2>5. CASE saga' = saga
    BY <2>5
  <2>6. ASSUME NEW e \in Deletions, RequestDeletion(e) \/ StartRetention(e)
        PROVE  saga'[d].status = saga[d].status
    BY <2>4, <2>5, <2>6 DEF RequestDeletion, StartRetention, sagaVars
  <2>7. ASSUME NEW e \in Deletions, NEW s \in Surfaces, NEW w \in Workers,
               Claim(w, e, s) \/ Reclaim(w, e, s)
        PROVE  saga'[d].status = saga[d].status
    BY <2>2, <2>5, <2>7 DEF Claim, Reclaim, Take
  <2>8. ASSUME NEW w \in Workers, Handle(w) PROVE saga'[d].status = saga[d].status
    <3>1. PICK e \in Deletions, s \in Surfaces : Handling(w, e, s)
      BY <2>0, <2>8, HandleCases
    <3>2. CASE Refuse(w, e, s) \/ Pending(w, e, s)
      BY <2>5, <3>2 DEF Refuse, Pending, sagaVars
    <3>3. CASE AlreadyVerified(w, e, s) \/ EraseSurface(w, e, s)
      BY <2>3, <3>3 DEF AlreadyVerified, EraseSurface
    <3>4. CASE EraseRoom(w, e)
      BY <2>0, <3>4 DEF EraseRoom, Erasable, Final, DeletionTypeOK, Sagas
    <3> QED
      BY <3>1, <3>2, <3>3, <3>4 DEF Handling
  <2>9. ASSUME NEW w \in Workers, Settle(w) PROVE saga'[d].status = saga[d].status
    <3>1. PICK e \in Deletions, s \in Surfaces : Settling(w, e, s)
      BY <2>0, <2>9, SettleCases
    <3> QED
      BY <2>2, <2>5, <3>1 DEF Settling
  <2>10. ASSUME NEW t \in Tables, Write(t) \/ JobWrites(t) PROVE saga' = saga
    BY <2>10 DEF Write, JobWrites, sagaVars
  <2>11. Grant \/ CloseRoom \/ RetentionPasses \/ SelectExpired => saga' = saga
    BY DEF Grant, CloseRoom, RetentionPasses, SelectExpired, sagaVars
  <2>12. ASSUME NEW w \in Workers, Drop(w) PROVE saga' = saga
    BY <2>12 DEF Drop, sagaVars
  <2> QED
    BY <2>5, <2>6, <2>7, <2>8, <2>9, <2>10, <2>11, <2>12 DEF DeletionNext
<1> QED
  BY <1>1, <1>2, PTL DEF DeletionSpec, SagaOutcomeFinal

-----------------------------------------------------------------------------
(* The analytics: what the log is known to be.                             *)

\* A message's own events, and every event of the room.
Versions == {"add", "revise", "retract"}
Event == [op : Versions \cup Reviews, msg : Messages \cup {None}, actor : Actors, offset : Int,
          reply : Messages \cup {None}, nova : BOOLEAN, edge : Links \cup {None},
          target : Nat, source : Nat]

\* Event i is a version of message m, or its retraction.
VersionOf(i, m) == log[i].msg = m /\ log[i].op \in Versions

\* Message m is there and not retracted, after k events.
Alive(m, k) ==
    /\ \E i \in 1 .. k : VersionOf(i, m)
    /\ \A i \in 1 .. k : log[i].msg = m => log[i].op # "retract"

\* What each event says of the events before it.
EventKnown(j) ==
    LET e == log[j]
    IN /\ e.op = "add" => \A i \in 1 .. j - 1 : ~VersionOf(i, e.msg)
       /\ e.op \in {"revise", "retract"} => Alive(e.msg, j - 1)
       /\ e.op \in {"add", "revise"} /\ e.reply # None => Alive(e.reply, j - 1)
       /\ e.op = "revise" => \A i \in 1 .. j - 1 :
            log[i].msg = e.msg /\ log[i].op \in {"add", "revise"} => log[i].reply = e.reply
       /\ e.op = "retract" => e.reply = None /\ e.actor # Agent
       /\ e.op \in Versions => e.msg \in Messages
       /\ e.op \in {"hide", "withdraw", "amend"} =>
            e.source \in 1 .. j - 1 /\ log[e.source].op \in {"add", "revise"}
       /\ e.op = "withdraw" =>
            e.target \in 1 .. j - 1 /\ log[e.target].op \in {"add", "revise", "amend"}
       /\ e.op = "amend" => log[e.source].msg = e.msg
       /\ e.actor = Agent /\ e.op \in Versions => e.offset = 0

LogKnown == log \in Seq(Event) /\ \A j \in 1 .. Len(log) : EventKnown(j)

\* A set of numbers that is not empty has a smallest one.
LEMMA LeastOf ==
    ASSUME NEW T \in SUBSET Nat, T # {}
    PROVE  \E x \in T : \A y \in T : x <= y
<1> DEFINE R == OpToRel(<, Nat)
<1>1. IsWellFoundedOn(R, Nat)
  BY NatLessThanWellFounded
<1>2. \A x, y \in Nat : x < y => <<x, y>> \in R
  BY DEF OpToRel
<1> HIDE DEF R
<1>3. PICK x \in T : \A y \in T : ~(<<y, x>> \in R)
  BY <1>1, WFMin
<1>4. \A y \in T : ~(y < x)
  BY <1>2, <1>3
<1>5. \A y \in T : x <= y
  BY <1>4
<1> QED
  BY <1>5

\* A bounded set of numbers that is not empty has a largest one, which Max returns.
LEMMA MaxOf ==
    ASSUME NEW n \in Nat, NEW T \in SUBSET (1 .. n), T # {}
    PROVE  Max(T) \in T /\ \A y \in T : y <= Max(T)
<1> DEFINE B == {b \in Nat : \A y \in T : y <= b}
<1>1. n \in B
  OBVIOUS
<1>2. PICK b \in B : \A c \in B : b <= c
  BY <1>1, LeastOf
<1>3. b \in T
  <2> SUFFICES ASSUME b \notin T PROVE FALSE
    OBVIOUS
  <2>1. PICK y \in T : TRUE
    OBVIOUS
  <2>2. y <= b /\ y # b /\ y >= 1 /\ y \in Nat /\ b \in Nat
    BY <1>2
  <2>3. \A z \in T : z <= b /\ z # b /\ z \in Nat
    BY <1>2
  <2>4. b - 1 \in Nat /\ \A z \in T : z <= b - 1
    BY <2>2, <2>3
  <2> QED
    BY <2>4, <2>2, <1>2
<1>4. \A y \in T : b >= y
  BY <1>2
<1>5. \E x \in T : \A y \in T : x >= y
  BY <1>3, <1>4
<1>6. Max(T) \in T /\ \A y \in T : Max(T) >= y
  BY <1>5 DEF Max
<1> QED
  BY <1>6

\* Max(Latest(m, n)) is the last version of a message that has one.
LEMMA LastVersion ==
    ASSUME LogKnown, NEW m, NEW n \in 0 .. Len(log), Latest(m, n) # {}
    PROVE  /\ Max(Latest(m, n)) \in 1 .. n /\ VersionOf(Max(Latest(m, n)), m)
           /\ \A i \in 1 .. n : VersionOf(i, m) => i <= Max(Latest(m, n))
<1>1. Latest(m, n) \in SUBSET (1 .. n) /\ n \in Nat
  BY DEF Latest, LogKnown
<1>2. Max(Latest(m, n)) \in Latest(m, n) /\ \A y \in Latest(m, n) : y <= Max(Latest(m, n))
  BY <1>1, MaxOf
<1> QED
  BY <1>2 DEF Latest, VersionOf, Versions

\* #latestMessage finds a message that is there and not retracted.
LEMMA StandingIsAlive ==
    ASSUME LogKnown, NEW m, NEW n \in 0 .. Len(log)
    PROVE  Standing(m, n) <=> Alive(m, n)
<1>1. Latest(m, n) = {i \in 1 .. n : VersionOf(i, m)}
  BY DEF Latest, VersionOf, Versions
<1>2. CASE Latest(m, n) = {}
  BY <1>1, <1>2 DEF Standing, Alive
<1>3. CASE Latest(m, n) # {}
  <2> DEFINE x == Max(Latest(m, n))
  <2>1. /\ x \in 1 .. n /\ VersionOf(x, m)
        /\ \A i \in 1 .. n : VersionOf(i, m) => i <= x
    BY <1>3, LastVersion
  <2>2. Standing(m, n) <=> log[x].op # "retract"
    BY <2>1, <1>1 DEF Standing
  <2> HIDE DEF x
  <2>3. n \in Nat /\ n <= Len(log) /\ Len(log) \in Nat
    BY DEF LogKnown
  <2>4. ASSUME log[x].op # "retract", NEW i \in 1 .. n, log[i].msg = m, log[i].op = "retract"
        PROVE  FALSE
    <3>1. VersionOf(i, m) /\ i <= x /\ i # x
      BY <2>1, <2>4 DEF VersionOf, Versions
    <3>2. x \in 1 .. Len(log) /\ i \in 1 .. x - 1
      BY <3>1, <2>1, <2>3
    <3>3. EventKnown(x) /\ log[x].msg = m /\ log[x].op \in {"add", "revise"}
      BY <3>2, <2>1, <2>4 DEF LogKnown, VersionOf, Versions
    <3>4. CASE log[x].op = "add"
      BY <3>4, <3>3, <3>2, <3>1 DEF EventKnown
    <3>5. CASE log[x].op = "revise"
      <4>1. Alive(m, x - 1)
        BY <3>5, <3>3 DEF EventKnown
      <4> QED
        BY <4>1, <3>2, <2>4 DEF Alive
    <3> QED
      BY <3>3, <3>4, <3>5
  <2>5. Alive(m, n) <=> log[x].op # "retract"
    BY <2>4, <2>1 DEF Alive, VersionOf
  <2> QED
    BY <2>2, <2>5
<1> QED
  BY <1>2, <1>3

-----------------------------------------------------------------------------
(* The four loops of the worker, as sequences of states.                   *)

\* One turn of a loop: over the events for the projector, the texts and their
\* corrections, over the recorded inputs x.history for a window.
Turn(loop, s, i, x, n) ==
    CASE loop = "project" -> Applied(s, i, x, n)
      [] loop = "persist" -> Persisted(s, i)
      [] loop = "review"  -> Reviewed(s, i, n)
      [] loop = "window"  -> IF Dated(x.history[i], x.from, n)
                               THEN ApplyNet(s, x.history[i].chat, x.history[i].rows, "replay")
                               ELSE s

\* f holds the states after 0, 1, ... last turns.
Turns(f, loop, base, x, n, last) ==
    f = [i \in 0 .. last |-> IF i = 0 THEN base ELSE Turn(loop, f[i - 1], i, x, n)]

\* Such a function exists, for every number of turns.
LEMMA TurnsExist ==
    ASSUME NEW loop, NEW base, NEW x, NEW n, NEW last \in Nat
    PROVE  \E f : Turns(f, loop, base, x, n, last)
<1> DEFINE T == {m \in Nat : ~ \E f : Turns(f, loop, base, x, n, m)}
<1>1. SUFFICES ASSUME T # {} PROVE FALSE
  OBVIOUS
<1>2. PICK m \in T : \A y \in T : m <= y
  BY <1>1, LeastOf
<1>3. CASE m = 0
  <2> DEFINE f == [k \in 0 .. 0 |-> base]
  <2>1. \A k \in 0 .. 0 : k = 0
    OBVIOUS
  <2>2. f = [k \in 0 .. 0 |-> IF k = 0 THEN base ELSE Turn(loop, f[k - 1], k, x, n)]
    BY <2>1
  <2>3. Turns(f, loop, base, x, n, 0)
    BY <2>2 DEF Turns
  <2> QED
    BY <2>3, <1>2, <1>3
<1>4. CASE m # 0
  <2>1. m \in Nat /\ m - 1 \in Nat /\ ~(m <= m - 1)
    BY <1>2, <1>4
  <2>2. PICK g : Turns(g, loop, base, x, n, m - 1)
    BY <2>1, <1>2
  <2> DEFINE f == [k \in 0 .. m |-> IF k = m THEN Turn(loop, g[m - 1], m, x, n) ELSE g[k]]
  <2>3. ASSUME NEW k \in 0 .. m
        PROVE  f[k] = IF k = 0 THEN base ELSE Turn(loop, f[k - 1], k, x, n)
    <3>1. CASE k = m
      <4>1. m - 1 \in 0 .. m /\ m - 1 # m
        BY <2>1
      <4>2. f[m - 1] = g[m - 1]
        BY <4>1
      <4> QED
        BY <4>2, <3>1, <1>4
    <3>2. CASE k # m
      <4>1. k \in 0 .. m - 1
        BY <3>2, <2>1
      <4>2. g[k] = IF k = 0 THEN base ELSE Turn(loop, g[k - 1], k, x, n)
        BY <4>1, <2>2 DEF Turns
      <4>3. k # 0 => k - 1 \in 0 .. m /\ k - 1 # m
        BY <4>1, <2>1
      <4>4. k # 0 => f[k - 1] = g[k - 1]
        BY <4>3
      <4> QED
        BY <4>2, <4>4, <3>2
    <3> QED
      BY <3>1, <3>2
  <2> HIDE DEF f
  <2>4. f = [k \in 0 .. m |-> f[k]]
    BY DEF f
  <2>5. Turns(f, loop, base, x, n, m)
    BY <2>3, <2>4 DEF Turns
  <2> QED
    BY <2>5, <1>2
<1> QED
  BY <1>3, <1>4

\* consume and replay end in the last state of their loop.
LEMMA ProjectTurns ==
    ASSUME NEW n \in Nat, NEW kind
    PROVE  \E f : Turns(f, "project", Fresh, kind, n, n) /\ Project(n, kind) = f[n]
<1> DEFINE g == CHOOSE p : p = [i \in 0 .. n |-> IF i = 0 THEN Fresh
                                                ELSE Applied(p[i - 1], i, kind, n)]
<1>1. \E f : f = [i \in 0 .. n |-> IF i = 0 THEN Fresh ELSE Applied(f[i - 1], i, kind, n)]
  <2>1. PICK f : Turns(f, "project", Fresh, kind, n, n)
    BY TurnsExist
  <2>2. \A s, i : Turn("project", s, i, kind, n) = Applied(s, i, kind, n)
    BY DEF Turn
  <2>3. f = [i \in 0 .. n |-> IF i = 0 THEN Fresh ELSE Applied(f[i - 1], i, kind, n)]
    BY <2>1, <2>2 DEF Turns
  <2> QED
    BY <2>3
<1>2. g = [i \in 0 .. n |-> IF i = 0 THEN Fresh ELSE Applied(g[i - 1], i, kind, n)]
  BY <1>1
<1>3. Project(n, kind) = g[n]
  BY DEF Project
<1>4. \A s, i : Turn("project", s, i, kind, n) = Applied(s, i, kind, n)
  BY DEF Turn
<1> HIDE DEF g
<1>5. Turns(g, "project", Fresh, kind, n, n)
  BY <1>2, <1>4 DEF Turns
<1> QED
  BY <1>3, <1>5

\* So does the walk over the texts,
LEMMA PersistTurns ==
    ASSUME NEW n \in Nat, NEW t
    PROVE  \E f : Turns(f, "persist", t, 0, n, n) /\ PersistDirect(t, n) = f[n]
<1> DEFINE g == CHOOSE s : s = [i \in 0 .. n |-> IF i = 0 THEN t ELSE Persisted(s[i - 1], i)]
<1>4. \A s, i : Turn("persist", s, i, 0, n) = Persisted(s, i)
  BY DEF Turn
<1>1. \E f : f = [i \in 0 .. n |-> IF i = 0 THEN t ELSE Persisted(f[i - 1], i)]
  <2>1. PICK f : Turns(f, "persist", t, 0, n, n)
    BY TurnsExist
  <2>3. f = [i \in 0 .. n |-> IF i = 0 THEN t ELSE Persisted(f[i - 1], i)]
    BY <2>1, <1>4 DEF Turns
  <2> QED
    BY <2>3
<1>2. g = [i \in 0 .. n |-> IF i = 0 THEN t ELSE Persisted(g[i - 1], i)]
  BY <1>1
<1>3. PersistDirect(t, n) = g[n]
  BY DEF PersistDirect
<1> HIDE DEF g
<1>5. Turns(g, "persist", t, 0, n, n)
  BY <1>2, <1>4 DEF Turns
<1> QED
  BY <1>3, <1>5

\* the walk over the corrections,
LEMMA ReviewTurns ==
    ASSUME NEW n \in Nat, NEW t
    PROVE  \E f : Turns(f, "review", t, 0, n, n) /\ ApplyReviews(t, n) = f[n]
<1> DEFINE g == CHOOSE s : s = [i \in 0 .. n |-> IF i = 0 THEN t ELSE Reviewed(s[i - 1], i, n)]
<1>4. \A s, i : Turn("review", s, i, 0, n) = Reviewed(s, i, n)
  BY DEF Turn
<1>1. \E f : f = [i \in 0 .. n |-> IF i = 0 THEN t ELSE Reviewed(f[i - 1], i, n)]
  <2>1. PICK f : Turns(f, "review", t, 0, n, n)
    BY TurnsExist
  <2>3. f = [i \in 0 .. n |-> IF i = 0 THEN t ELSE Reviewed(f[i - 1], i, n)]
    BY <2>1, <1>4 DEF Turns
  <2> QED
    BY <2>3
<1>2. g = [i \in 0 .. n |-> IF i = 0 THEN t ELSE Reviewed(g[i - 1], i, n)]
  BY <1>1
<1>3. ApplyReviews(t, n) = g[n]
  BY DEF ApplyReviews
<1> HIDE DEF g
<1>5. Turns(g, "review", t, 0, n, n)
  BY <1>2, <1>4 DEF Turns
<1> QED
  BY <1>3, <1>5

\* and the replay of a window's inputs.
LEMMA WindowTurns ==
    ASSUME NEW h, Len(h) \in Nat, NEW from, NEW n
    PROVE  \E f : /\ Turns(f, "window", NewNet, [history |-> h, from |-> from], n, Len(h))
                  /\ Replayed(h, from, n) = f[Len(h)]
<1> DEFINE x == [history |-> h, from |-> from]
           g == CHOOSE a : a = [k \in 0 .. Len(h) |->
                  IF k = 0 THEN NewNet
                  ELSE IF Dated(h[k], from, n)
                    THEN ApplyNet(a[k - 1], h[k].chat, h[k].rows, "replay")
                    ELSE a[k - 1]]
<1>4. \A s, k : Turn("window", s, k, x, n) =
          IF Dated(h[k], from, n) THEN ApplyNet(s, h[k].chat, h[k].rows, "replay") ELSE s
  BY DEF Turn
<1> HIDE DEF x
<1>1. \E f : f = [k \in 0 .. Len(h) |->
                  IF k = 0 THEN NewNet
                  ELSE IF Dated(h[k], from, n)
                    THEN ApplyNet(f[k - 1], h[k].chat, h[k].rows, "replay")
                    ELSE f[k - 1]]
  <2>1. PICK f : Turns(f, "window", NewNet, x, n, Len(h))
    BY TurnsExist
  <2>3. f = [k \in 0 .. Len(h) |->
                  IF k = 0 THEN NewNet
                  ELSE IF Dated(h[k], from, n)
                    THEN ApplyNet(f[k - 1], h[k].chat, h[k].rows, "replay")
                    ELSE f[k - 1]]
    BY <2>1, <1>4 DEF Turns
  <2> QED
    BY <2>3
<1>2. g = [k \in 0 .. Len(h) |->
                  IF k = 0 THEN NewNet
                  ELSE IF Dated(h[k], from, n)
                    THEN ApplyNet(g[k - 1], h[k].chat, h[k].rows, "replay")
                    ELSE g[k - 1]]
  BY <1>1
<1>3. Replayed(h, from, n) = g[Len(h)]
  BY DEF Replayed
<1> HIDE DEF g
<1>5. Turns(g, "window", NewNet, x, n, Len(h))
  BY <1>2, <1>4 DEF Turns
<1> QED
  BY <1>3, <1>5 DEF x

-----------------------------------------------------------------------------
(* The lineage of the messages.                                            *)

\* One more event: its own message is there unless it retracts it, and the other
\* messages are as they were.
LEMMA AliveNext ==
    ASSUME LogKnown, NEW k \in Nat, k + 1 <= Len(log), NEW m
    PROVE  /\ VersionOf(k + 1, m) => (Alive(m, k + 1) <=> log[k + 1].op # "retract")
           /\ ~VersionOf(k + 1, m) => (Alive(m, k + 1) <=> Alive(m, k))
<1>1. k + 1 \in 1 .. Len(log) /\ (k + 1) - 1 = k /\ 1 .. k + 1 = (1 .. k) \cup {k + 1}
  BY DEF LogKnown
<1>2. EventKnown(k + 1)
  BY <1>1 DEF LogKnown
<1>3. ASSUME VersionOf(k + 1, m), log[k + 1].op # "retract"
      PROVE  Alive(m, k + 1)
  <2>1. ASSUME NEW i \in 1 .. k, log[i].msg = m, log[i].op = "retract"
        PROVE  FALSE
    <3>1. VersionOf(i, m)
      BY <2>1 DEF VersionOf, Versions
    <3>2. CASE log[k + 1].op = "add"
      BY <3>1, <3>2, <1>1, <1>2, <1>3, <2>1 DEF EventKnown, VersionOf
    <3>3. CASE log[k + 1].op = "revise"
      <4>1. Alive(m, k)
        BY <3>3, <1>1, <1>2, <1>3 DEF EventKnown, VersionOf
      <4> QED
        BY <4>1, <2>1 DEF Alive
    <3> QED
      BY <3>2, <3>3, <1>3 DEF VersionOf, Versions
  <2> QED
    BY <2>1, <1>1, <1>3 DEF Alive
<1>4. ASSUME VersionOf(k + 1, m), log[k + 1].op = "retract"
      PROVE  ~Alive(m, k + 1)
  BY <1>1, <1>4 DEF Alive, VersionOf
<1>5. ASSUME ~VersionOf(k + 1, m)
      PROVE  Alive(m, k + 1) <=> Alive(m, k)
  BY <1>1, <1>5 DEF Alive, VersionOf, Versions
<1> QED
  BY <1>3, <1>4, <1>5

\* line[m], when it is not 0, is an event of m that is not hidden, after which the
\* message has none but hidden versions; m is not retracted, and if what it replies
\* to is not either, that has its line too.
LineOf(line, m, k, n) ==
    line[m] # 0 =>
      /\ line[m] \in 1 .. k /\ VersionOf(line[m], m) /\ log[line[m]].op # "retract"
      /\ line[m] \notin Hidden(n)
      /\ Alive(m, k)
      /\ \A j \in 1 .. k : VersionOf(j, m) /\ j > line[m] => j \in Hidden(n)
      /\ log[line[m]].reply # None /\ Alive(log[line[m]].reply, k) => line[log[line[m]].reply] # 0

LineKnown(line, k, n) ==
    /\ line \in [Messages -> Nat]
    /\ \A m \in Messages : LineOf(line, m, k, n)
    /\ Hidden(n) = {} => \A m \in Messages : Alive(m, k) => line[m] # 0

\* _apply_one passes over event i.
Skipped(line, i, n) ==
    log[i].op \notin Versions \/ i \in Hidden(n) \/ ~Resolves(line, log[i])

\* The line after event i.
NextLine(line, i) == [line EXCEPT ![log[i].msg] = IF log[i].op = "retract" THEN 0 ELSE i]

\* Only what was written can be hidden.
LEMMA HiddenIsWritten ==
    ASSUME LogKnown, NEW n \in 0 .. Len(log), NEW i \in Hidden(n)
    PROVE  i \in 1 .. n /\ log[i].op \in {"add", "revise"}
<1>1. PICK j \in 1 .. n : log[j].op \in {"hide", "withdraw"} /\ log[j].source = i
  BY DEF Hidden
<1>2. j \in 1 .. Len(log) /\ n \in Nat /\ Len(log) \in Nat
  BY DEF LogKnown
<1>3. EventKnown(j)
  BY <1>2 DEF LogKnown
<1>4. i \in 1 .. j - 1 /\ log[i].op \in {"add", "revise"}
  BY <1>1, <1>3 DEF EventKnown
<1> QED
  BY <1>4, <1>2

\* The fields of an event.
LEMMA EventFacts ==
    ASSUME LogKnown, NEW i \in 1 .. Len(log)
    PROVE  /\ log[i] \in Event /\ EventKnown(i)
           /\ log[i].op \in Versions \cup Reviews /\ log[i].msg \in Messages \cup {None}
           /\ log[i].op \in Versions => log[i].msg \in Messages
           /\ log[i].actor \in Actors /\ log[i].offset \in Int
           /\ log[i].reply \in Messages \cup {None} /\ log[i].nova \in BOOLEAN
<1>1. log[i] \in Event /\ EventKnown(i)
  BY ElementOfSeq DEF LogKnown
<1>2. log[i].op \in Versions => log[i].msg \in Messages
  BY <1>1 DEF EventKnown
<1> QED
  BY <1>1, <1>2 DEF Event

\* An event that is not hidden finds its root, and what it replies to, when its
\* message has a line or nothing at all is hidden.
LEMMA ResolvesWhen ==
    ASSUME LogKnown, NEW n \in 0 .. Len(log), NEW k \in Nat, k + 1 <= n,
           NEW line, LineKnown(line, k, n), log[k + 1].op \in Versions,
           (line[log[k + 1].msg] # 0 /\ log[k + 1].op # "add") \/ Hidden(n) = {}
    PROVE  Resolves(line, log[k + 1])
<1> DEFINE e == log[k + 1]
<1>1. k + 1 \in 1 .. Len(log) /\ (k + 1) - 1 = k /\ k \in 0 .. Len(log)
  BY DEF LogKnown
<1>2. /\ EventKnown(k + 1) /\ e.msg \in Messages /\ e.reply \in Messages \cup {None}
  BY <1>1, EventFacts
<1>3. ASSUME e.op \in {"revise", "retract"}
      PROVE  line[e.msg] # 0
  <2>1. Alive(e.msg, k)
    BY <1>1, <1>2, <1>3 DEF EventKnown
  <2> QED
    BY <2>1, <1>2, <1>3 DEF LineKnown
<1>4. ASSUME e.reply # None
      PROVE  line[e.reply] # 0
  <2>1. e.op \in {"add", "revise"} /\ e.reply \in Messages
    BY <1>2, <1>4 DEF EventKnown, Versions
  <2>2. Alive(e.reply, k)
    BY <2>1, <1>1, <1>2, <1>4 DEF EventKnown
  <2>3. CASE Hidden(n) = {}
    BY <2>1, <2>2, <2>3 DEF LineKnown
  <2>4. CASE line[e.msg] # 0 /\ e.op # "add"
    <3> DEFINE i == line[e.msg]
    <3>1. /\ i \in 1 .. k /\ VersionOf(i, e.msg) /\ log[i].op # "retract"
          /\ log[i].reply # None /\ Alive(log[i].reply, k) => line[log[i].reply] # 0
      BY <2>4, <1>2 DEF LineKnown, LineOf
    <3>2. log[i].msg = e.msg /\ log[i].op \in {"add", "revise"} /\ e.op = "revise"
      BY <3>1, <2>1, <2>4 DEF VersionOf, Versions
    <3>3. log[i].reply = e.reply
      BY <3>1, <3>2, <1>1, <1>2 DEF EventKnown
    <3> QED
      BY <3>1, <3>3, <2>2, <1>4
  <2> QED
    BY <2>3, <2>4
<1> QED
  BY <1>3, <1>4 DEF Resolves

\* A message with a line is never added again.
LEMMA LineIsOld ==
    ASSUME LogKnown, NEW n \in 0 .. Len(log), NEW k \in Nat, k + 1 <= n,
           NEW line, LineKnown(line, k, n), NEW m \in Messages, line[m] # 0, VersionOf(k + 1, m)
    PROVE  log[k + 1].op # "add"
<1>1. k + 1 \in 1 .. Len(log) /\ (k + 1) - 1 = k
  BY DEF LogKnown
<1>2. EventKnown(k + 1) /\ log[k + 1].msg = m
  BY <1>1, EventFacts DEF VersionOf
<1>3. line[m] \in 1 .. k /\ VersionOf(line[m], m)
  BY DEF LineKnown, LineOf
<1> QED
  BY <1>1, <1>2, <1>3 DEF EventKnown

\* Passing over an event keeps what is known of the lines.
LEMMA LineSkipped ==
    ASSUME LogKnown, NEW n \in 0 .. Len(log), NEW k \in Nat, k + 1 <= n,
           NEW line, LineKnown(line, k, n), Skipped(line, k + 1, n)
    PROVE  LineKnown(line, k + 1, n)
<1>1. /\ k + 1 \in 1 .. Len(log) /\ k + 1 <= Len(log) /\ (k + 1) - 1 = k /\ k \in 0 .. Len(log)
      /\ 1 .. k + 1 = (1 .. k) \cup {k + 1}
  BY DEF LogKnown
<1>2. EventKnown(k + 1)
  BY <1>1, EventFacts
<1>3. ASSUME NEW m \in Messages, line[m] # 0
      PROVE  LineOf(line, m, k + 1, n)
  <2> DEFINE i == line[m]
             r == log[i].reply
  <2>1. /\ i \in 1 .. k /\ VersionOf(i, m) /\ log[i].op # "retract" /\ i \notin Hidden(n)
        /\ Alive(m, k)
        /\ \A j \in 1 .. k : VersionOf(j, m) /\ j > i => j \in Hidden(n)
        /\ r # None /\ Alive(r, k) => line[r] # 0
    BY <1>3 DEF LineKnown, LineOf
  <2>2. ASSUME VersionOf(k + 1, m)
        PROVE  k + 1 \in Hidden(n)
    <3>1. log[k + 1].op # "add" /\ log[k + 1].msg = m /\ log[k + 1].op \in Versions
      BY <2>2, <1>3, LineIsOld DEF VersionOf
    <3>2. Resolves(line, log[k + 1])
      BY <3>1, <1>3, ResolvesWhen
    <3> QED
      BY <3>1, <3>2 DEF Skipped
  <2>3. Alive(m, k + 1)
    <3>1. CASE VersionOf(k + 1, m)
      <4>1. log[k + 1].op # "retract"
        BY <3>1, <2>2, HiddenIsWritten
      <4> QED
        BY <4>1, <3>1, AliveNext, <1>1
    <3>2. CASE ~VersionOf(k + 1, m)
      BY <3>2, <2>1, AliveNext, <1>1
    <3> QED
      BY <3>1, <3>2
  <2>4. ASSUME r # None, Alive(r, k + 1)
        PROVE  line[r] # 0
    <3>1. i \in 1 .. Len(log) /\ log[i].op \in {"add", "revise"}
      BY <2>1, <1>1 DEF VersionOf, Versions
    <3>2. Alive(r, i - 1)
      BY <3>1, <2>4, EventFacts DEF EventKnown
    <3>3. PICK x \in 1 .. k : VersionOf(x, r)
      BY <3>2, <2>1 DEF Alive
    <3>4. CASE VersionOf(k + 1, r)
      <4>1. log[k + 1].op # "retract" /\ log[k + 1].op # "add" /\ log[k + 1].op \in Versions
        BY <3>3, <3>4, <2>4, <1>1, <1>2, AliveNext DEF EventKnown, VersionOf
      <4>2. log[k + 1].op = "revise" /\ log[k + 1].msg = r
        BY <4>1, <3>4 DEF Versions, VersionOf
      <4>3. Alive(r, k)
        BY <4>2, <1>1, <1>2 DEF EventKnown
      <4> QED
        BY <4>3, <2>1, <2>4
    <3>5. CASE ~VersionOf(k + 1, r)
      BY <3>5, <2>1, <2>4, AliveNext, <1>1
    <3> QED
      BY <3>4, <3>5
  <2> QED
    BY <2>1, <2>2, <2>3, <2>4, <1>1 DEF LineOf
<1>4. ASSUME Hidden(n) = {}, NEW m \in Messages, Alive(m, k + 1)
      PROVE  line[m] # 0
  <2>1. CASE VersionOf(k + 1, m)
    <3>1. log[k + 1].op \in Versions
      BY <2>1 DEF VersionOf
    <3>2. Resolves(line, log[k + 1])
      BY <3>1, <1>4, ResolvesWhen
    <3> QED
      BY <3>1, <3>2, <1>4 DEF Skipped
  <2>2. CASE ~VersionOf(k + 1, m)
    BY <2>2, <1>1, <1>4, AliveNext DEF LineKnown
  <2> QED
    BY <2>1, <2>2
<1>5. \A m \in Messages : LineOf(line, m, k + 1, n)
  BY <1>3 DEF LineOf
<1> QED
  BY <1>4, <1>5 DEF LineKnown

\* Applying an event keeps it too.
LEMMA LineApplied ==
    ASSUME LogKnown, NEW n \in 0 .. Len(log), NEW k \in Nat, k + 1 <= n,
           NEW line, LineKnown(line, k, n), ~Skipped(line, k + 1, n)
    PROVE  LineKnown(NextLine(line, k + 1), k + 1, n)
<1> DEFINE e == log[k + 1]
           next == NextLine(line, k + 1)
<1>1. /\ k + 1 \in 1 .. Len(log) /\ k + 1 <= Len(log) /\ (k + 1) - 1 = k /\ k + 1 \in Nat
      /\ 1 .. k + 1 = (1 .. k) \cup {k + 1} /\ k + 1 # 0
  BY DEF LogKnown
<1>2. EventKnown(k + 1) /\ e.msg \in Messages /\ e.reply \in Messages \cup {None}
  BY <1>1, EventFacts DEF Skipped
<1>3. e.op \in Versions /\ k + 1 \notin Hidden(n) /\ Resolves(line, e)
  BY DEF Skipped
<1>4. /\ next \in [Messages -> Nat]
      /\ next[e.msg] = IF e.op = "retract" THEN 0 ELSE k + 1
      /\ \A m \in Messages : m # e.msg => next[m] = line[m]
  BY <1>1, <1>2 DEF NextLine, LineKnown
<1> HIDE DEF next
<1>5. VersionOf(k + 1, e.msg) /\ \A m : m # e.msg => ~VersionOf(k + 1, m)
  BY <1>3 DEF VersionOf
<1>6. \A m : Alive(m, k + 1) <=> IF m = e.msg THEN e.op # "retract" ELSE Alive(m, k)
  BY <1>1, <1>5, AliveNext
<1>7. ASSUME NEW m \in Messages, next[m] # 0
      PROVE  LineOf(next, m, k + 1, n)
  <2> DEFINE i == next[m]
             r == log[i].reply
  <2>1. CASE m = e.msg
    <3>1. e.op # "retract" /\ i = k + 1
      BY <2>1, <1>7, <1>4
    <3>2. \A j \in 1 .. k + 1 : ~(j > i)
      BY <3>1
    <3>3. ASSUME r # None
          PROVE  next[r] # 0
      <4>1. r \in Messages /\ line[r] # 0
        BY <3>1, <3>3, <1>2, <1>3 DEF Resolves
      <4> QED
        BY <4>1, <3>1, <2>1, <1>1, <1>4
    <3> QED
      BY <3>1, <3>2, <3>3, <2>1, <1>1, <1>3, <1>5, <1>6 DEF LineOf
  <2>2. CASE m # e.msg
    <3>1. i = line[m] /\ line[m] # 0
      BY <2>2, <1>4, <1>7
    <3>2. /\ i \in 1 .. k /\ VersionOf(i, m) /\ log[i].op # "retract" /\ i \notin Hidden(n)
          /\ Alive(m, k)
          /\ \A j \in 1 .. k : VersionOf(j, m) /\ j > i => j \in Hidden(n)
          /\ r # None /\ Alive(r, k) => line[r] # 0
      BY <3>1 DEF LineKnown, LineOf
    <3>3. i \in 1 .. Len(log)
      BY <3>2, <1>1
    <3>4. r \in Messages \cup {None}
      BY <3>3, EventFacts
    <3>5. r # None /\ Alive(r, k + 1) => next[r] # 0
      BY <3>2, <3>4, <1>1, <1>4, <1>6
    <3> QED
      BY <3>2, <3>5, <2>2, <1>1, <1>5, <1>6 DEF LineOf
  <2> QED
    BY <2>1, <2>2
<1>8. ASSUME Hidden(n) = {}, NEW m \in Messages, Alive(m, k + 1)
      PROVE  next[m] # 0
  BY <1>8, <1>1, <1>4, <1>6 DEF LineKnown
<1>9. \A m \in Messages : LineOf(next, m, k + 1, n)
  BY <1>7 DEF LineOf
<1> QED
  BY <1>4, <1>8, <1>9 DEF LineKnown, next

-----------------------------------------------------------------------------
(* The concept map and the network.                                        *)

Chat == [id : Nat, op : Versions, msg : Messages, actor : Actors, nova : BOOLEAN, time : Int,
         reply : Nat, target : Nat]
Place == Actors \cup {Room}
Row == [event : Nat, src : Place, dst : Place, layer : {"communication", "uptake", "facilitation"}]
Input == [chat : Chat, rows : SUBSET Row]
MapState == [active : SUBSET Nat, gone : SUBSET Nat, mark : Int, late : SUBSET Nat]
NetState == [active : SUBSET Nat, rows : SUBSET Row, heard : SUBSET Actors, mark : Int,
             late : SUBSET Nat, history : Seq(Input)]

\* Time never runs ahead of the log.
LEMMA TimeFacts ==
    ASSUME LogKnown, NEW i \in 1 .. Len(log)
    PROVE  /\ Time(i) \in Int /\ Time(i) <= i
           /\ log[i].actor = Agent /\ log[i].op \in Versions => Time(i) = i
<1>1. log[i].offset \in Int /\ EventKnown(i) /\ i \in Nat
  BY EventFacts
<1>2. log[i].actor = Agent /\ log[i].op \in Versions => log[i].offset = 0
  BY <1>1 DEF EventKnown
<1> QED
  BY <1>1, <1>2 DEF Time

\* to_chat_event of an event that resolves.
LEMMA ChatFacts ==
    ASSUME LogKnown, NEW i \in 1 .. Len(log), NEW line \in [Messages -> Nat],
           log[i].op \in Versions, NEW c, c = ChatOf(i, line)
    PROVE  /\ c \in Chat
           /\ c.id = i /\ c.op = log[i].op /\ c.msg = log[i].msg /\ c.actor = log[i].actor
           /\ c.nova = log[i].nova /\ c.time = Time(i)
           /\ c.target = IF log[i].op = "add" THEN 0 ELSE line[log[i].msg]
           /\ c.reply = IF log[i].reply = None THEN 0 ELSE line[log[i].reply]
<1>1. /\ log[i].msg \in Messages /\ log[i].actor \in Actors
      /\ log[i].reply \in Messages \cup {None} /\ log[i].nova \in BOOLEAN
  BY EventFacts
<1>2. Time(i) \in Int /\ i \in Nat
  BY TimeFacts
<1>3. c = [id |-> i, op |-> log[i].op, msg |-> log[i].msg, actor |-> log[i].actor,
           nova |-> log[i].nova, time |-> Time(i),
           reply |-> IF log[i].reply = None THEN 0 ELSE line[log[i].reply],
           target |-> IF log[i].op = "add" THEN 0 ELSE line[log[i].msg]]
  BY DEF ChatOf
<1>4. /\ (IF log[i].reply = None THEN 0 ELSE line[log[i].reply]) \in Nat
      /\ (IF log[i].op = "add" THEN 0 ELSE line[log[i].msg]) \in Nat
  BY <1>1
<1> QED
  BY <1>1, <1>2, <1>3, <1>4 DEF Chat

\* What StreamingConceptMap.apply does to the map, field by field.
MapAfter(a, b, c, kind) ==
    /\ b \in MapState
    /\ TooLate(a, c, kind) =>
         b.late = a.late \cup {c.id} /\ b.active = a.active /\ b.gone = a.gone /\ b.mark = a.mark
    /\ ~TooLate(a, c, kind) =>
         /\ b.late = a.late /\ b.mark = Advance(a.mark, c.time)
         /\ b.gone = IF c.op = "retract" THEN a.gone \cup {c.target} ELSE a.gone
         /\ b.active = (a.active \ {c.target})
                         \cup (IF c.op = "retract" \/ c.id \in a.gone THEN {} ELSE {c.id})

\* It does just that.
LEMMA MapFacts ==
    ASSUME NEW a \in MapState, NEW c \in Chat, NEW kind, NEW b, b = ApplyMap(a, c, kind)
    PROVE  MapAfter(a, b, c, kind)
<1>1. c.id \in Nat /\ c.target \in Nat /\ c.time \in Int
  BY DEF Chat
<1>2. a.active \in SUBSET Nat /\ a.gone \in SUBSET Nat /\ a.mark \in Int /\ a.late \in SUBSET Nat
  BY DEF MapState
<1>3. Advance(a.mark, c.time) \in Int
  BY <1>1, <1>2 DEF Advance
<1>4. CASE TooLate(a, c, kind)
  <2>1. b = [a EXCEPT !.late = @ \cup {c.id}]
    BY <1>4 DEF ApplyMap
  <2> QED
    BY <2>1, <1>1, <1>2, <1>4 DEF MapState, MapAfter
<1>5. CASE ~TooLate(a, c, kind)
  <2> DEFINE active == (a.active \ {c.target})
                         \cup (IF c.op = "retract" \/ c.id \in a.gone THEN {} ELSE {c.id})
             gone == IF c.op = "retract" THEN a.gone \cup {c.target} ELSE a.gone
             mark == Advance(a.mark, c.time)
  <2>1. b = [a EXCEPT !.mark = mark, !.active = active, !.gone = gone]
    BY <1>5 DEF ApplyMap
  <2>2. active \in SUBSET Nat /\ gone \in SUBSET Nat
    BY <1>1, <1>2
  <2> HIDE DEF active, gone, mark
  <2>3. b \in MapState /\ b.late = a.late /\ b.mark = mark /\ b.gone = gone /\ b.active = active
    BY <2>1, <2>2, <1>3 DEF MapState, mark
  <2> QED
    BY <2>3, <1>5 DEF active, gone, mark, MapAfter
<1> QED
  BY <1>4, <1>5

\* What StreamingInteractionNetwork.apply does to the network, field by field.
NetAfter(a, b, c, rels, kind) ==
    /\ b \in NetState
    /\ b.history = Append(a.history, [chat |-> c, rows |-> rels])
    /\ b.rows \subseteq a.rows \cup rels
    /\ a.heard \subseteq b.heard
    /\ TooLate(a, c, kind) =>
         b.late = a.late \cup {c.id} /\ b.active = a.active /\ b.mark = a.mark
    /\ ~TooLate(a, c, kind) =>
         /\ b.late = a.late /\ b.mark = Advance(a.mark, c.time)
         /\ b.active = (a.active \ {c.target}) \cup (IF c.op = "retract" THEN {} ELSE {c.id})
         /\ c.op # "retract" => c.actor \in b.heard

\* It does just that.
LEMMA NetFacts ==
    ASSUME NEW a \in NetState, NEW c \in Chat, NEW rels \in SUBSET Row, NEW kind,
           NEW b, b = ApplyNet(a, c, rels, kind)
    PROVE  NetAfter(a, b, c, rels, kind)
<1> DEFINE past == Append(a.history, [chat |-> c, rows |-> rels])
<1>1. c.id \in Nat /\ c.target \in Nat /\ c.time \in Int /\ c.actor \in Actors
  BY DEF Chat
<1>2. /\ a.active \in SUBSET Nat /\ a.rows \in SUBSET Row /\ a.heard \in SUBSET Actors
      /\ a.mark \in Int /\ a.late \in SUBSET Nat /\ a.history \in Seq(Input)
  BY DEF NetState
<1>3. Advance(a.mark, c.time) \in Int
  BY <1>1, <1>2 DEF Advance
<1>4. [chat |-> c, rows |-> rels] \in Input
  BY DEF Input
<1>5. past \in Seq(Input)
  BY <1>2, <1>4, AppendProperties
<1>6. Deactivate(a.rows, c.target) \subseteq a.rows
  BY DEF Deactivate
<1> HIDE DEF past
<1>7. CASE TooLate(a, c, kind)
  <2>1. b = [a EXCEPT !.late = @ \cup {c.id}, !.history = past]
    BY <1>7 DEF ApplyNet, past
  <2> QED
    BY <2>1, <1>1, <1>2, <1>5, <1>7 DEF NetState, past, NetAfter
<1>8. CASE ~TooLate(a, c, kind) /\ c.op = "retract"
  <2>1. b = [a EXCEPT !.mark = Advance(@, c.time), !.history = past, !.active = @ \ {c.target},
                      !.rows = Deactivate(@, c.target)]
    BY <1>8 DEF ApplyNet, past
  <2>2. /\ b \in NetState
        /\ b.history = past /\ b.heard = a.heard /\ b.rows = Deactivate(a.rows, c.target)
        /\ b.late = a.late /\ b.mark = Advance(a.mark, c.time) /\ b.active = a.active \ {c.target}
    BY <2>1, <1>2, <1>3, <1>5, <1>6 DEF NetState
  <2> QED
    BY <2>2, <1>6, <1>8 DEF past, NetAfter
<1>9. CASE ~TooLate(a, c, kind) /\ c.op # "retract"
  <2>1. b = [a EXCEPT !.mark = Advance(@, c.time), !.history = past,
                      !.active = (@ \ {c.target}) \cup {c.id},
                      !.rows = Deactivate(@, c.target) \cup rels,
                      !.heard = @ \cup {c.actor}]
    BY <1>9 DEF ApplyNet, past
  <2>2. /\ b.history = past /\ b.heard = a.heard \cup {c.actor}
        /\ b.rows = Deactivate(a.rows, c.target) \cup rels
        /\ b.late = a.late /\ b.mark = Advance(a.mark, c.time)
        /\ b.active = (a.active \ {c.target}) \cup {c.id}
    BY <2>1 DEF NetState
  <2>3. b \in NetState
    <3>1. /\ b.active \in SUBSET Nat /\ b.rows \in SUBSET Row /\ b.heard \in SUBSET Actors
          /\ b.mark \in Int /\ b.late \in SUBSET Nat /\ b.history \in Seq(Input)
      BY <2>2, <1>1, <1>2, <1>3, <1>5, <1>6
    <3>2. b = [active |-> b.active, rows |-> b.rows, heard |-> b.heard, mark |-> b.mark,
               late |-> b.late, history |-> b.history]
      BY <2>1 DEF NetState
    <3> QED
      BY <3>1, <3>2 DEF NetState
  <2>4. b.rows \subseteq a.rows \cup rels /\ a.heard \subseteq b.heard /\ c.actor \in b.heard
    BY <2>2, <1>6
  <2>5. b.history = Append(a.history, [chat |-> c, rows |-> rels])
    BY <2>2 DEF past
  <2>6. b.active = (a.active \ {c.target}) \cup (IF c.op = "retract" THEN {} ELSE {c.id})
    BY <2>2, <1>9
  <2> QED
    BY <2>2, <2>3, <2>4, <2>5, <2>6, <1>9 DEF NetAfter
<1> QED
  BY <1>7, <1>8, <1>9

\* The relations of a message join its author, the authors of earlier messages, the
\* room and, when it mentions her, Nova.
LEMMA EvidenceFacts ==
    ASSUME NEW c \in Chat, NEW chats \in SUBSET Chat
    PROVE  /\ Evidence(c, chats) \in SUBSET Row
           /\ \A r \in Evidence(c, chats) : \A x \in {r.src, r.dst} :
                \/ x \in {c.actor, Room}
                \/ \E p \in chats : p.actor = x
                \/ c.nova /\ x = Agent
<1> DEFINE Ends2 == {c.actor, Room} \cup {p.actor : p \in chats} \cup (IF c.nova THEN {Agent} ELSE {})
           parent == {p \in chats : p.id = c.reply}
           origin == {o \in chats : \E p \in parent : p.actor = Agent /\ o.id = p.reply /\ o.actor # Agent}
           to     == {p.actor : p \in parent} \cup (IF c.nova THEN {Agent} ELSE {})
           row(s, d, l) == [event |-> c.id, src |-> s, dst |-> d, layer |-> l]
           said   == {row(c.actor, t, "communication") : t \in IF to = {} THEN {Room} ELSE to}
           credit == {o.actor : o \in IF origin = {} THEN parent ELSE origin}
           taken  == IF c.msg \in Uptakes
                       THEN {row(s, c.actor, "uptake") : s \in credit}
                              \cup {row(p.actor, c.actor, "facilitation") : p \in {p \in parent : p.actor = Agent}}
                       ELSE {}
           helped == {row(c.actor, p.actor, "facilitation") :
                        p \in {p \in parent : c.actor = Agent /\ p.actor # Agent}}
           Good   == [event : {c.id}, src : Ends2, dst : Ends2,
                      layer : {"communication", "uptake", "facilitation"}]
<1>1. Evidence(c, chats) = Normalize(said \cup taken \cup helped)
  BY DEF Evidence
<1>2. \A s, d \in Ends2 : \A l \in {"communication", "uptake", "facilitation"} : row(s, d, l) \in Good
  OBVIOUS
<1>3. to \subseteq Ends2 /\ credit \subseteq Ends2 /\ {p.actor : p \in parent} \subseteq Ends2
  OBVIOUS
<1>4. c.actor \in Ends2 /\ Room \in Ends2
  OBVIOUS
<1> HIDE DEF Ends2, to, credit, parent, Good, row
<1>5. said \subseteq Good
  BY <1>2, <1>3, <1>4
<1>6. taken \subseteq Good
  BY <1>2, <1>3, <1>4
<1>7. helped \subseteq Good
  BY <1>2, <1>3, <1>4
<1>8. Evidence(c, chats) \subseteq Good
  BY <1>1, <1>5, <1>6, <1>7 DEF Normalize
<1>9. Ends2 \subseteq Place
  BY DEF Ends2, Place, Chat, Actors
<1>10. Good \subseteq Row
  BY <1>9 DEF Good, Row, Chat
<1>11. \A r \in Good : r.src \in Ends2 /\ r.dst \in Ends2
  BY DEF Good
<1>12. \A r \in Evidence(c, chats) : \A x \in {r.src, r.dst} : x \in Ends2
  BY <1>8, <1>11
<1>13. \A x \in Ends2 : x \in {c.actor, Room} \/ (\E p \in chats : p.actor = x) \/ (c.nova /\ x = Agent)
  BY DEF Ends2
<1> QED
  BY <1>8, <1>10, <1>12, <1>13

\* A recorded input says what its event says, and replaces or retracts an earlier
\* version of the same message.
ChatKnown(c) ==
    /\ c.id \in 1 .. Len(log) /\ c.op = log[c.id].op /\ c.msg = log[c.id].msg
    /\ c.actor = log[c.id].actor /\ c.time = Time(c.id)
    /\ c.target < c.id /\ (c.target # 0 => log[c.target].msg = c.msg)

\* The inputs are recorded in the order of the log.
HistoryKnown(h, k) ==
    \A x \in 1 .. Len(h) : /\ ChatKnown(h[x].chat) /\ h[x].chat.id <= k
                           /\ \A y \in 1 .. x - 1 : h[y].chat.id < h[x].chat.id

\* What counts was recorded; a recorded version that does not count is late or was
\* replaced by a later input; once nothing is late, no input replaces what counts.
NetExact(a) ==
    /\ \A i \in a.active : \E x \in 1 .. Len(a.history) :
         a.history[x].chat.id = i /\ a.history[x].chat.op # "retract"
    /\ \A x \in 1 .. Len(a.history) :
         LET c == a.history[x].chat
         IN c.op # "retract" => \/ c.id \in a.active \cup a.late
                                \/ \E y \in x + 1 .. Len(a.history) : a.history[y].chat.target = c.id
    /\ a.late = {} => \A x \in 1 .. Len(a.history) : a.history[x].chat.target \notin a.active

\* Nova is a node of the network only if she was heard or somebody mentioned her.
NovaKnown(a) ==
    \A x \in 1 .. Len(a.history) :
        /\ a.history[x].chat.actor = Agent => Agent \in a.heard
        /\ \A r \in a.history[x].rows :
             Agent \in {r.src, r.dst} =>
               Agent = Room \/ Agent \in a.heard \/ \E y \in 1 .. Len(a.history) : a.history[y].chat.nova

\* The two algorithms agree, and once nothing is late count the lines.
MapsKnown(p, k, kind) ==
    /\ p.echo.active = p.trace.active /\ p.echo.late = p.trace.late /\ p.echo.mark = p.trace.mark
    /\ p.trace.active \subseteq 1 .. k /\ p.trace.late \subseteq 1 .. k /\ p.echo.gone \subseteq 0 .. k
    /\ p.trace.mark <= k
    /\ kind = "replay" => p.trace.late = {}
    /\ p.trace.late = {} => p.trace.active = {p.line[m] : m \in Messages} \ {0}

ProjectorKnown(p, k, kind, n) ==
    /\ p \in [line : [Messages -> Nat], chats : SUBSET Chat, echo : MapState, trace : NetState]
    /\ LineKnown(p.line, k, n)
    /\ MapsKnown(p, k, kind)
    /\ HistoryKnown(p.trace.history, k) /\ NetExact(p.trace) /\ NovaKnown(p.trace)
    /\ \A c \in p.chats : \E x \in 1 .. Len(p.trace.history) : p.trace.history[x].chat = c

\* The state after an event that is applied.
NextProjector(p, i, kind) ==
    [line  |-> NextLine(p.line, i),
     chats |-> p.chats \cup {ChatOf(i, p.line)},
     echo  |-> ApplyMap(p.echo, ChatOf(i, p.line), kind),
     trace |-> ApplyNet(p.trace, ChatOf(i, p.line), Evidence(ChatOf(i, p.line), p.chats), kind)]

\* _apply_one, in these terms.
LEMMA AppliedIs ==
    ASSUME NEW p, NEW i, NEW kind, NEW n
    PROVE  Applied(p, i, kind, n) = IF Skipped(p.line, i, n) THEN p ELSE NextProjector(p, i, kind)
  BY DEF Applied, Skipped, NextProjector, NextLine, Versions

\* The events that an applied event reads and writes.
LEMMA AppliedChat ==
    ASSUME LogKnown, NEW n \in 0 .. Len(log), NEW k \in Nat, k + 1 <= n,
           NEW line \in [Messages -> Nat], LineKnown(line, k, n), ~Skipped(line, k + 1, n),
           NEW c, c = ChatOf(k + 1, line)
    PROVE  /\ c \in Chat /\ ChatKnown(c) /\ c.id = k + 1
           /\ c.target = line[log[k + 1].msg] /\ c.target \in 0 .. k
<1>1. k + 1 \in 1 .. Len(log) /\ k + 1 # 0
  BY DEF LogKnown
<1>2. log[k + 1].op \in Versions /\ Resolves(line, log[k + 1])
  BY DEF Skipped
<1>3. log[k + 1].msg \in Messages
  BY <1>1, <1>2, EventFacts
<1>4. /\ c \in Chat /\ c.id = k + 1 /\ c.op = log[k + 1].op /\ c.msg = log[k + 1].msg
      /\ c.actor = log[k + 1].actor /\ c.time = Time(k + 1)
      /\ c.target = IF log[k + 1].op = "add" THEN 0 ELSE line[log[k + 1].msg]
  BY <1>1, <1>2, ChatFacts
<1>5. log[k + 1].op = "add" => line[log[k + 1].msg] = 0
  BY <1>2, <1>3, LineIsOld DEF VersionOf
<1>6. c.target = line[log[k + 1].msg]
  BY <1>4, <1>5
<1>7. c.target # 0 => c.target \in 1 .. k /\ log[c.target].msg = c.msg
  BY <1>3, <1>4, <1>6 DEF LineKnown, LineOf, VersionOf
<1>8. c.target \in 0 .. k /\ c.target < c.id
  BY <1>4, <1>7
<1> QED
  BY <1>1, <1>4, <1>6, <1>7, <1>8 DEF ChatKnown

\* Applying an event keeps the two algorithms in step.
LEMMA MapsStep ==
    ASSUME LogKnown, NEW n \in 0 .. Len(log), NEW k \in Nat, k + 1 <= n, NEW kind,
           NEW p, ProjectorKnown(p, k, kind, n), ~Skipped(p.line, k + 1, n)
    PROVE  /\ MapsKnown(NextProjector(p, k + 1, kind), k + 1, kind)
           /\ NextProjector(p, k + 1, kind)
                \in [line : [Messages -> Nat], chats : SUBSET Chat, echo : MapState, trace : NetState]
<1> DEFINE c == ChatOf(k + 1, p.line)
           q == NextProjector(p, k + 1, kind)
           e == log[k + 1]
<1>1. /\ p.line \in [Messages -> Nat] /\ p.chats \in SUBSET Chat /\ p.echo \in MapState
      /\ p.trace \in NetState /\ LineKnown(p.line, k, n) /\ MapsKnown(p, k, kind)
  BY DEF ProjectorKnown
<1>2. /\ c \in Chat /\ ChatKnown(c) /\ c.id = k + 1
      /\ c.target = p.line[e.msg] /\ c.target \in 0 .. k
  BY <1>1, AppliedChat
<1>3. k + 1 \in 1 .. Len(log) /\ k + 1 \in Nat
  BY DEF LogKnown
<1>4. e.msg \in Messages /\ e.op \in Versions
  BY <1>3, EventFacts DEF Skipped
<1>5. c.time \in Int /\ c.time <= k + 1 /\ c.op = e.op
  BY <1>2, <1>3, TimeFacts DEF ChatKnown
<1>6. Evidence(c, p.chats) \in SUBSET Row
  BY <1>1, <1>2, EvidenceFacts
<1>7. LineKnown(q.line, k + 1, n) /\ q.line = NextLine(p.line, k + 1)
  BY <1>1, LineApplied DEF NextProjector
<1>8. q.echo = ApplyMap(p.echo, c, kind) /\ q.trace = ApplyNet(p.trace, c, Evidence(c, p.chats), kind)
  BY DEF NextProjector
<1> HIDE DEF c, q
<1>15. MapAfter(p.echo, q.echo, c, kind)
  BY <1>1, <1>2, <1>8, MapFacts
<1>16. NetAfter(p.trace, q.trace, c, Evidence(c, p.chats), kind)
  BY <1>1, <1>2, <1>6, <1>8, NetFacts
<1>9. q.echo \in MapState /\ q.trace \in NetState
  BY <1>15, <1>16 DEF MapAfter, NetAfter
<1>10. q.line \in [Messages -> Nat] /\ p.chats \cup {c} \in SUBSET Chat
  BY <1>1, <1>2, <1>7 DEF LineKnown
<1>11. q \in [line : [Messages -> Nat], chats : SUBSET Chat, echo : MapState, trace : NetState]
  BY <1>7, <1>9, <1>10 DEF NextProjector, c, q
<1>12. TooLate(p.echo, c, kind) <=> TooLate(p.trace, c, kind)
  BY <1>1 DEF TooLate, MapsKnown
<1>17. SUFFICES MapsKnown(q, k + 1, kind)
  BY <1>11 DEF q
<1>13. CASE TooLate(p.trace, c, kind)
  <2>1. /\ q.echo.late = p.echo.late \cup {c.id} /\ q.echo.active = p.echo.active
        /\ q.echo.gone = p.echo.gone /\ q.echo.mark = p.echo.mark
    BY <1>12, <1>13, <1>15 DEF MapAfter
  <2>2. /\ q.trace.late = p.trace.late \cup {c.id} /\ q.trace.active = p.trace.active
        /\ q.trace.mark = p.trace.mark
    BY <1>13, <1>16 DEF NetAfter
  <2>3. kind # "replay" /\ q.trace.late # {}
    BY <1>13, <2>2 DEF TooLate
  <2>4. p.trace.mark \in Int
    BY <1>1 DEF NetState
  <2>5. /\ q.trace.active \subseteq 1 .. k + 1 /\ q.trace.late \subseteq 1 .. k + 1
        /\ q.echo.gone \subseteq 0 .. k + 1 /\ q.trace.mark <= k + 1
    BY <2>1, <2>2, <2>4, <1>1, <1>2 DEF MapsKnown
  <2> QED
    BY <2>1, <2>2, <2>3, <2>5, <1>1 DEF MapsKnown
<1>14. CASE ~TooLate(p.trace, c, kind)
  <2>1. /\ q.echo.late = p.echo.late /\ q.echo.mark = Advance(p.echo.mark, c.time)
        /\ q.echo.gone = IF c.op = "retract" THEN p.echo.gone \cup {c.target} ELSE p.echo.gone
        /\ q.echo.active = (p.echo.active \ {c.target})
                 \cup (IF c.op = "retract" \/ c.id \in p.echo.gone THEN {} ELSE {c.id})
    BY <1>12, <1>14, <1>15 DEF MapAfter
  <2>2. /\ q.trace.late = p.trace.late /\ q.trace.mark = Advance(p.trace.mark, c.time)
        /\ q.trace.active = (p.trace.active \ {c.target}) \cup (IF c.op = "retract" THEN {} ELSE {c.id})
    BY <1>14, <1>16 DEF NetAfter
  <2>3. c.id \notin p.echo.gone
    BY <1>1, <1>2 DEF MapsKnown
  <2>4. q.echo.active = q.trace.active /\ q.echo.late = q.trace.late /\ q.echo.mark = q.trace.mark
    BY <2>1, <2>2, <2>3, <1>1 DEF MapsKnown
  <2>5. p.trace.mark \in Int /\ p.trace.mark <= k
    BY <1>1 DEF NetState, MapsKnown
  <2>6. q.trace.mark <= k + 1
    BY <2>2, <2>5, <1>5 DEF Advance
  <2>7. /\ q.trace.active \subseteq 1 .. k + 1 /\ q.trace.late \subseteq 1 .. k + 1
        /\ q.echo.gone \subseteq 0 .. k + 1
    BY <2>1, <2>2, <1>1, <1>2 DEF MapsKnown
  <2>8. kind = "replay" => q.trace.late = {}
    BY <2>2, <1>1 DEF MapsKnown
  <2>9. ASSUME q.trace.late = {}
        PROVE  q.trace.active = {q.line[m] : m \in Messages} \ {0}
    <3>1. p.trace.active = {p.line[m] : m \in Messages} \ {0}
      BY <2>2, <2>9, <1>1 DEF MapsKnown
    <3>2. /\ q.line[e.msg] = IF e.op = "retract" THEN 0 ELSE k + 1
          /\ \A m \in Messages : m # e.msg => q.line[m] = p.line[m]
      BY <1>1, <1>3, <1>4, <1>7 DEF NextLine
    <3>3. \A m \in Messages : p.line[m] # 0 => log[p.line[m]].msg = m
      BY <1>1 DEF LineKnown, LineOf, VersionOf
    <3>4. \A m \in Messages : m # e.msg /\ p.line[m] # 0 => p.line[m] # c.target
      BY <3>3, <1>2, <1>4
    <3>5. k + 1 # 0
      BY <1>3
    <3>6. ASSUME NEW i \in q.trace.active
          PROVE  i \in {q.line[m] : m \in Messages} \ {0}
      BY <3>1, <3>2, <3>5, <3>6, <2>2, <1>2, <1>4, <1>5
    <3>7. ASSUME NEW m \in Messages, q.line[m] # 0
          PROVE  q.line[m] \in q.trace.active
      <4>1. CASE m = e.msg
        BY <4>1, <3>2, <3>7, <2>2, <1>2, <1>5
      <4>2. CASE m # e.msg
        BY <4>2, <3>1, <3>2, <3>4, <3>7, <2>2
      <4> QED
        BY <4>1, <4>2
    <3> QED
      BY <3>6, <3>7
  <2> QED
    BY <2>4, <2>6, <2>7, <2>8, <2>9 DEF MapsKnown
<1> QED
  BY <1>13, <1>14

\* The network records an applied event at the end of its history.
LEMMA NetStep ==
    ASSUME LogKnown, NEW n \in 0 .. Len(log), NEW k \in Nat, k + 1 <= n, NEW kind,
           NEW p, ProjectorKnown(p, k, kind, n), ~Skipped(p.line, k + 1, n)
    PROVE  LET q == NextProjector(p, k + 1, kind)
           IN /\ HistoryKnown(q.trace.history, k + 1) /\ NetExact(q.trace) /\ NovaKnown(q.trace)
              /\ \A d \in q.chats : \E x \in 1 .. Len(q.trace.history) : q.trace.history[x].chat = d
<1> DEFINE c == ChatOf(k + 1, p.line)
           q == NextProjector(p, k + 1, kind)
           e == log[k + 1]
           rels == Evidence(c, p.chats)
           h == p.trace.history
           L == Len(h)
           g == q.trace.history
<1>1. /\ p.line \in [Messages -> Nat] /\ p.chats \in SUBSET Chat /\ p.echo \in MapState
      /\ p.trace \in NetState /\ LineKnown(p.line, k, n) /\ MapsKnown(p, k, kind)
      /\ HistoryKnown(h, k) /\ NetExact(p.trace) /\ NovaKnown(p.trace)
      /\ \A d \in p.chats : \E x \in 1 .. L : h[x].chat = d
  BY DEF ProjectorKnown
<1>2. /\ c \in Chat /\ ChatKnown(c) /\ c.id = k + 1
      /\ c.target = p.line[e.msg] /\ c.target \in 0 .. k
  BY <1>1, AppliedChat
<1>3. k + 1 \in 1 .. Len(log) /\ k + 1 \in Nat
  BY DEF LogKnown
<1>4. rels \in SUBSET Row /\ \A r \in rels : \A x \in {r.src, r.dst} :
        x \in {c.actor, Room} \/ (\E d \in p.chats : d.actor = x) \/ (c.nova /\ x = Agent)
  BY <1>1, <1>2, EvidenceFacts
<1>5. NetAfter(p.trace, q.trace, c, rels, kind)
  <2>1. q.trace = ApplyNet(p.trace, c, rels, kind)
    BY DEF NextProjector
  <2> HIDE DEF c, q, rels
  <2> QED
    BY <2>1, <1>1, <1>2, <1>4, NetFacts
<1>6. q.chats = p.chats \cup {c}
  BY DEF NextProjector
<1> HIDE DEF c, q, rels
<1>7. /\ g = Append(h, [chat |-> c, rows |-> rels])
      /\ p.trace.heard \subseteq q.trace.heard
      /\ TooLate(p.trace, c, kind) =>
           q.trace.late = p.trace.late \cup {c.id} /\ q.trace.active = p.trace.active
      /\ ~TooLate(p.trace, c, kind) =>
           /\ q.trace.late = p.trace.late
           /\ q.trace.active = (p.trace.active \ {c.target}) \cup (IF c.op = "retract" THEN {} ELSE {c.id})
           /\ c.op # "retract" => c.actor \in q.trace.heard
  BY <1>5 DEF NetAfter
<1>8. h \in Seq(Input) /\ p.trace.mark \in Int
  BY <1>1 DEF NetState
<1>9. [chat |-> c, rows |-> rels] \in Input
  BY <1>2, <1>4 DEF Input
<1>10. /\ L \in Nat /\ Len(g) = L + 1 /\ 1 .. Len(g) = (1 .. L) \cup {L + 1}
       /\ \A x \in 1 .. L : g[x] = h[x]
       /\ g[L + 1].chat = c /\ g[L + 1].rows = rels
  <2>1. L \in Nat
    BY <1>8, LenProperties
  <2>2. Len(g) = L + 1 /\ \A x \in 1 .. L : g[x] = h[x]
    BY <1>7, <1>8, <1>9, AppendProperties
  <2>3. g[L + 1] = [chat |-> c, rows |-> rels]
    BY <1>7, <1>8, <1>9, AppendProperties
  <2> QED
    BY <2>1, <2>2, <2>3, SMTT(30)
<1> HIDE DEF g, h, L
<1>11. \A x \in 1 .. L : /\ ChatKnown(h[x].chat) /\ h[x].chat.id <= k
                        /\ \A y \in 1 .. x - 1 : h[y].chat.id < h[x].chat.id
  BY <1>1 DEF HistoryKnown, L
<1>12. \A x \in 1 .. L : h[x].chat.id \in 1 .. k /\ h[x].chat.target < h[x].chat.id /\ h[x].chat.target \in Nat
  <2>1. \A x \in 1 .. L : h[x] \in Input
    BY <1>8, <1>10, ElementOfSeq DEF L
  <2> QED
    BY <2>1, <1>11 DEF ChatKnown, Input, Chat
<1>13. HistoryKnown(g, k + 1)
  <2>1. ASSUME NEW x \in 1 .. L
        PROVE  /\ ChatKnown(g[x].chat) /\ g[x].chat.id <= k + 1
               /\ \A y \in 1 .. x - 1 : g[y].chat.id < g[x].chat.id
    <3>1. x \in Nat /\ L \in Nat /\ \A y \in 1 .. x - 1 : y \in 1 .. L
      BY <1>10
    <3>2. g[x] = h[x] /\ \A y \in 1 .. x - 1 : g[y] = h[y]
      BY <3>1, <1>10
    <3>3. h[x].chat.id \in 1 .. k
      BY <1>12
    <3>4. g[x].chat.id <= k + 1
      BY <3>2, <3>3
    <3> QED
      BY <3>2, <3>4, <1>11
  <2>2. /\ ChatKnown(g[L + 1].chat) /\ g[L + 1].chat.id <= k + 1
        /\ \A y \in 1 .. (L + 1) - 1 : g[y].chat.id < g[L + 1].chat.id
    <3>1. \A y \in 1 .. (L + 1) - 1 : y \in 1 .. L
      BY <1>10
    <3> QED
      BY <3>1, <1>2, <1>10, <1>12
  <2> QED
    BY <2>1, <2>2, <1>10 DEF HistoryKnown
<1>14. NetExact(q.trace)
  <2>1. /\ \A i \in p.trace.active : \E x \in 1 .. L : h[x].chat.id = i /\ h[x].chat.op # "retract"
        /\ \A x \in 1 .. L : h[x].chat.op # "retract" =>
             \/ h[x].chat.id \in p.trace.active \cup p.trace.late
             \/ \E y \in x + 1 .. L : h[y].chat.target = h[x].chat.id
        /\ p.trace.late = {} => \A x \in 1 .. L : h[x].chat.target \notin p.trace.active
    BY <1>1 DEF NetExact, L, h
  <2>2. ASSUME NEW i \in q.trace.active
        PROVE  \E x \in 1 .. Len(g) : g[x].chat.id = i /\ g[x].chat.op # "retract"
    <3>1. CASE i \in p.trace.active
      BY <3>1, <2>1, <1>10
    <3>2. CASE i \notin p.trace.active
      <4>1. i = c.id /\ c.op # "retract"
        BY <3>2, <2>2, <1>7
      <4> QED
        BY <4>1, <1>10
    <3> QED
      BY <3>1, <3>2
  <2>3. ASSUME NEW x \in 1 .. Len(g), g[x].chat.op # "retract"
        PROVE  \/ g[x].chat.id \in q.trace.active \cup q.trace.late
               \/ \E y \in x + 1 .. Len(g) : g[y].chat.target = g[x].chat.id
    <3>1. CASE x \in 1 .. L
      <4>1. g[x] = h[x]
        BY <3>1, <1>10
      <4>2. CASE h[x].chat.id \in q.trace.active \cup q.trace.late
        BY <4>1, <4>2
      <4>3. CASE \E y \in x + 1 .. L : h[y].chat.target = h[x].chat.id
        <5>1. PICK y \in x + 1 .. L : h[y].chat.target = h[x].chat.id
          BY <4>3
        <5>2. y \in 1 .. L /\ y \in x + 1 .. Len(g)
          BY <3>1, <1>10
        <5> QED
          BY <5>1, <5>2, <4>1, <1>10
      <4>4. CASE h[x].chat.id \in (p.trace.active \cup p.trace.late) \ (q.trace.active \cup q.trace.late)
        <5>1. h[x].chat.id = c.target
          BY <4>4, <1>7
        <5>2. L + 1 \in x + 1 .. Len(g)
          BY <3>1, <1>10
        <5> QED
          BY <5>1, <5>2, <4>1, <1>10
      <4> QED
        BY <4>1, <4>2, <4>3, <4>4, <3>1, <2>1, <2>3
    <3>2. CASE x = L + 1
      BY <3>2, <2>3, <1>7, <1>10
    <3> QED
      BY <3>1, <3>2, <1>10
  <2>4. ASSUME q.trace.late = {}, NEW x \in 1 .. Len(g)
        PROVE  g[x].chat.target \notin q.trace.active
    <3>1. ~TooLate(p.trace, c, kind) /\ p.trace.late = {}
      BY <2>4, <1>7
    <3>2. q.trace.active \subseteq (p.trace.active \ {c.target}) \cup {k + 1}
      BY <3>1, <1>2, <1>7
    <3>3. CASE x \in 1 .. L
      <4>1. h[x].chat.target \notin p.trace.active /\ h[x].chat.target # k + 1
        BY <3>1, <3>3, <2>1, <1>12
      <4> QED
        BY <4>1, <3>2, <3>3, <1>10
    <3>4. CASE x = L + 1
      BY <3>2, <3>4, <1>2, <1>10
    <3> QED
      BY <3>3, <3>4, <1>10
  <2> QED
    BY <2>2, <2>3, <2>4 DEF NetExact, g
<1>15. NovaKnown(q.trace)
  <2>1. \A x \in 1 .. L :
          /\ h[x].chat.actor = Agent => Agent \in p.trace.heard
          /\ \A r \in h[x].rows : Agent \in {r.src, r.dst} =>
               Agent = Room \/ Agent \in p.trace.heard \/ \E y \in 1 .. L : h[y].chat.nova
    BY <1>1 DEF NovaKnown, L, h
  <2>2. ASSUME c.actor = Agent
        PROVE  Agent \in q.trace.heard
    <3>1. c.op \in Versions /\ c.op = e.op /\ c.actor = e.actor /\ c.time = Time(k + 1)
      BY <1>2 DEF ChatKnown, Chat
    <3>2. c.time = k + 1
      BY <3>1, <2>2, <1>3, TimeFacts
    <3>3. Lateness \in Nat /\ p.trace.mark <= k
      BY <1>1, AnalysisAssumption DEF MapsKnown
    <3>4. ~TooLate(p.trace, c, kind)
      BY <3>2, <3>3, <1>8 DEF TooLate
    <3>5. EventKnown(k + 1)
      BY <1>3, EventFacts
    <3>6. c.op # "retract"
      BY <3>1, <3>5, <2>2 DEF EventKnown
    <3> QED
      BY <3>4, <3>6, <2>2, <1>7
  <2>3. ASSUME NEW r \in rels, Agent \in {r.src, r.dst}, Agent # Room, Agent \notin q.trace.heard
        PROVE  c.nova
    <3>1. \/ Agent \in {c.actor, Room} \/ (\E d \in p.chats : d.actor = Agent) \/ c.nova
      BY <2>3, <1>4
    <3>2. ASSUME NEW d \in p.chats, d.actor = Agent
          PROVE  FALSE
      <4>1. PICK x \in 1 .. L : h[x].chat = d
        BY <1>1 DEF L, h
      <4> QED
        BY <4>1, <3>2, <2>1, <2>3, <1>7
    <3> QED
      BY <3>1, <3>2, <2>2, <2>3
  <2>4. ASSUME NEW x \in 1 .. Len(g)
        PROVE  /\ g[x].chat.actor = Agent => Agent \in q.trace.heard
               /\ \A r \in g[x].rows : Agent \in {r.src, r.dst} =>
                    Agent = Room \/ Agent \in q.trace.heard \/ \E y \in 1 .. Len(g) : g[y].chat.nova
    <3>1. CASE x \in 1 .. L
      BY <3>1, <2>1, <1>7, <1>10
    <3>2. CASE x = L + 1
      <4>1. L + 1 \in 1 .. Len(g)
        BY <1>10
      <4> QED
        BY <3>2, <4>1, <2>2, <2>3, <1>10
    <3> QED
      BY <3>1, <3>2, <1>10
  <2> QED
    BY <2>4 DEF NovaKnown, g
<1>16. \A d \in q.chats : \E x \in 1 .. Len(g) : g[x].chat = d
  <2>1. ASSUME NEW d \in p.chats
        PROVE  \E x \in 1 .. Len(g) : g[x].chat = d
    BY <1>1, <1>10 DEF L, h
  <2>2. L + 1 \in 1 .. Len(g)
    BY <1>10
  <2> QED
    BY <2>1, <2>2, <1>6, <1>10
<1> QED
  BY <1>13, <1>14, <1>15, <1>16 DEF g, q

\* One more event, applied or passed over.
LEMMA ProjectorStep ==
    ASSUME LogKnown, NEW n \in 0 .. Len(log), NEW k \in Nat, k + 1 <= n, NEW kind,
           NEW p, ProjectorKnown(p, k, kind, n)
    PROVE  ProjectorKnown(Applied(p, k + 1, kind, n), k + 1, kind, n)
<1>1. CASE Skipped(p.line, k + 1, n)
  <2>1. Applied(p, k + 1, kind, n) = p
    BY <1>1, AppliedIs
  <2>2. LineKnown(p.line, k, n) /\ MapsKnown(p, k, kind) /\ HistoryKnown(p.trace.history, k)
    BY DEF ProjectorKnown
  <2>3. LineKnown(p.line, k + 1, n)
    BY <2>2, <1>1, LineSkipped
  <2>4. p.trace \in NetState
    BY DEF ProjectorKnown
  <2>5. p.trace.mark \in Int /\ p.trace.history \in Seq(Input)
    BY <2>4 DEF NetState
  <2>6. MapsKnown(p, k + 1, kind)
    <3>1. 1 .. k \subseteq 1 .. k + 1 /\ 0 .. k \subseteq 0 .. k + 1
      OBVIOUS
    <3>2. p.trace.mark <= k + 1
      BY <2>2, <2>5 DEF MapsKnown
    <3> QED
      BY <3>1, <3>2, <2>2 DEF MapsKnown
  <2>7. HistoryKnown(p.trace.history, k + 1)
    <3>1. \A x \in 1 .. Len(p.trace.history) : p.trace.history[x].chat.id \in Nat
      BY <2>2 DEF HistoryKnown, ChatKnown
    <3> QED
      BY <3>1, <2>2 DEF HistoryKnown
  <2> QED
    BY <2>1, <2>3, <2>6, <2>7 DEF ProjectorKnown
<1>2. CASE ~Skipped(p.line, k + 1, n)
  <2> DEFINE q == NextProjector(p, k + 1, kind)
  <2>1. Applied(p, k + 1, kind, n) = q
    BY <1>2, AppliedIs
  <2>2. LineKnown(p.line, k, n) /\ q.line = NextLine(p.line, k + 1)
    BY DEF ProjectorKnown, NextProjector
  <2>3. LineKnown(q.line, k + 1, n)
    BY <2>2, <1>2, LineApplied
  <2>4. MapsKnown(q, k + 1, kind)
        /\ q \in [line : [Messages -> Nat], chats : SUBSET Chat, echo : MapState, trace : NetState]
    BY <1>2, MapsStep
  <2>5. /\ HistoryKnown(q.trace.history, k + 1) /\ NetExact(q.trace) /\ NovaKnown(q.trace)
        /\ \A d \in q.chats : \E x \in 1 .. Len(q.trace.history) : q.trace.history[x].chat = d
    BY <1>2, NetStep
  <2> HIDE DEF q
  <2> QED
    BY <2>1, <2>3, <2>4, <2>5 DEF ProjectorKnown
<1> QED
  BY <1>1, <1>2

\* A projector that has seen nothing.
LEMMA ProjectorFresh ==
    ASSUME LogKnown, NEW n \in 0 .. Len(log), NEW kind
    PROVE  ProjectorKnown(Fresh, 0, kind, n) /\ NewNet \in NetState
<1>1. MaxEvents \in Nat
  BY AnalysisAssumption
<1>2. NoTime \in Int /\ NoTime <= 0
  BY <1>1 DEF NoTime
<1>3. NewMap \in MapState
  BY <1>2 DEF NewMap, MapState
<1>4. <<>> \in Seq(Input) /\ Len(<<>>) = 0 /\ \A x \in 1 .. 0 : FALSE
  OBVIOUS
<1>5. NewNet \in NetState
  BY <1>2, <1>4 DEF NewNet, NetState
<1>6. LineKnown(Fresh.line, 0, n)
  <2>1. Fresh.line = [m \in Messages |-> 0]
    BY DEF Fresh
  <2>2. \A m : ~Alive(m, 0)
    BY <1>4 DEF Alive
  <2> QED
    BY <2>1, <2>2 DEF LineKnown, LineOf
<1>7. MapsKnown(Fresh, 0, kind)
  <2>1. {Fresh.line[m] : m \in Messages} \ {0} = {}
    BY DEF Fresh
  <2>2. Fresh.echo = NewMap /\ Fresh.trace = NewNet
    BY DEF Fresh
  <2> QED
    BY <2>1, <2>2, <1>2 DEF MapsKnown, NewMap, NewNet
<1>8. Fresh.trace.history = <<>> /\ Fresh.trace.active = {} /\ Fresh.chats = {}
  BY DEF Fresh, NewNet
<1>9. HistoryKnown(Fresh.trace.history, 0) /\ NetExact(Fresh.trace) /\ NovaKnown(Fresh.trace)
  BY <1>4, <1>8 DEF HistoryKnown, NetExact, NovaKnown
<1>10. Fresh \in [line : [Messages -> Nat], chats : SUBSET Chat, echo : MapState, trace : NetState]
  BY <1>3, <1>5 DEF Fresh
<1> QED
  BY <1>5, <1>6, <1>7, <1>8, <1>9, <1>10 DEF ProjectorKnown

\* What a job computes from the first n events.
LEMMA ProjectFacts ==
    ASSUME LogKnown, NEW n \in 0 .. Len(log), NEW kind
    PROVE  ProjectorKnown(Project(n, kind), n, kind, n)
<1>1. n \in Nat
  OBVIOUS
<1>2. PICK f : Turns(f, "project", Fresh, kind, n, n) /\ Project(n, kind) = f[n]
  BY <1>1, ProjectTurns
<1>3. \A i \in 0 .. n : f[i] = IF i = 0 THEN Fresh ELSE Applied(f[i - 1], i, kind, n)
  BY <1>2 DEF Turns, Turn
<1> DEFINE T == {i \in 0 .. n : ~ProjectorKnown(f[i], i, kind, n)}
<1>4. SUFFICES ASSUME T # {} PROVE FALSE
  BY <1>1, <1>2
<1>5. PICK i \in T : \A y \in T : i <= y
  <2>1. T \in SUBSET Nat
    OBVIOUS
  <2> QED
    BY <2>1, <1>4, LeastOf
<1>6. CASE i = 0
  BY <1>3, <1>5, <1>6, ProjectorFresh
<1>7. CASE i # 0
  <2> DEFINE k == i - 1
  <2>1. k \in Nat /\ k \in 0 .. n /\ i = k + 1 /\ k + 1 <= n /\ ~(i <= k) /\ i \in 0 .. n
    BY <1>5, <1>7
  <2>2. ProjectorKnown(f[k], k, kind, n)
    BY <2>1, <1>5
  <2>3. f[i] = Applied(f[k], i, kind, n)
    BY <2>1, <1>3, <1>7
  <2> HIDE DEF k
  <2>4. ProjectorKnown(f[i], i, kind, n)
    BY <2>1, <2>2, <2>3, ProjectorStep
  <2> QED
    BY <2>4, <1>5
<1> QED
  BY <1>6, <1>7

-----------------------------------------------------------------------------
(* The windows.                                                            *)

\* After the first j inputs, a window counts the versions dated in it that no later
\* input dated in it replaces.
Counts(i, h, from, n, j) ==
    \E x \in 1 .. j :
        /\ Dated(h[x], from, n) /\ h[x].chat.id = i /\ h[x].chat.op # "retract"
        /\ \A y \in x + 1 .. j : Dated(h[y], from, n) => h[y].chat.target # i

WindowKnown(w, h, from, n, j) ==
    /\ w \in NetState
    /\ \A i : i \in w.active <=> Counts(i, h, from, n, j)
    /\ \A r \in w.rows : \E x \in 1 .. j : r \in h[x].rows
    /\ \A x \in 1 .. j : Dated(h[x], from, n) /\ h[x].chat.op # "retract" => h[x].chat.actor \in w.heard

\* One more input, in the window or not.
LEMMA WindowStep ==
    ASSUME NEW h \in Seq(Input), NEW from, NEW n, NEW j \in Nat, j + 1 <= Len(h),
           NEW w, WindowKnown(w, h, from, n, j),
           NEW v, v = IF Dated(h[j + 1], from, n)
                        THEN ApplyNet(w, h[j + 1].chat, h[j + 1].rows, "replay") ELSE w
    PROVE  WindowKnown(v, h, from, n, j + 1)
<1> DEFINE c == h[j + 1].chat
           rels == h[j + 1].rows
<1>1. 1 .. j + 1 = (1 .. j) \cup {j + 1} /\ j + 1 \in 1 .. Len(h)
  BY LenProperties
<1>2. c \in Chat /\ rels \in SUBSET Row
  <2>1. h[j + 1] \in Input
    BY <1>1, ElementOfSeq
  <2> QED
    BY <2>1 DEF Input
<1>3. /\ w \in NetState
      /\ \A i : i \in w.active <=> Counts(i, h, from, n, j)
      /\ \A r \in w.rows : \E x \in 1 .. j : r \in h[x].rows
      /\ \A x \in 1 .. j : Dated(h[x], from, n) /\ h[x].chat.op # "retract" => h[x].chat.actor \in w.heard
  BY DEF WindowKnown
<1>4. /\ \A x \in 1 .. j : x + 1 .. j + 1 = (x + 1 .. j) \cup {j + 1}
      /\ (j + 1) + 1 .. j + 1 = {}
  OBVIOUS
<1>5. CASE ~Dated(h[j + 1], from, n)
  <2>1. v = w
    BY <1>5
  <2>2. \A i : Counts(i, h, from, n, j + 1) <=> Counts(i, h, from, n, j)
    BY <1>1, <1>4, <1>5 DEF Counts
  <2> QED
    BY <2>1, <2>2, <1>1, <1>3, <1>5 DEF WindowKnown
<1>6. CASE Dated(h[j + 1], from, n)
  <2>1. v = ApplyNet(w, c, rels, "replay")
    BY <1>6
  <2>2. NetAfter(w, v, c, rels, "replay")
    BY <2>1, <1>2, <1>3, NetFacts
  <2>3. ~TooLate(w, c, "replay")
    BY DEF TooLate
  <2>4. /\ v \in NetState /\ v.rows \subseteq w.rows \cup rels /\ w.heard \subseteq v.heard
        /\ v.active = (w.active \ {c.target}) \cup (IF c.op = "retract" THEN {} ELSE {c.id})
        /\ c.op # "retract" => c.actor \in v.heard
    BY <2>2, <2>3 DEF NetAfter
  <2>5. ASSUME NEW i, i \in v.active
        PROVE  Counts(i, h, from, n, j + 1)
    <3>1. CASE i = c.id /\ c.op # "retract"
      BY <3>1, <1>1, <1>4, <1>6 DEF Counts
    <3>2. CASE i \in w.active /\ i # c.target
      <4>1. PICK x \in 1 .. j :
              /\ Dated(h[x], from, n) /\ h[x].chat.id = i /\ h[x].chat.op # "retract"
              /\ \A y \in x + 1 .. j : Dated(h[y], from, n) => h[y].chat.target # i
        BY <3>2, <1>3 DEF Counts
      <4>2. \A y \in x + 1 .. j + 1 : Dated(h[y], from, n) => h[y].chat.target # i
        BY <4>1, <3>2, <1>4
      <4> QED
        BY <4>1, <4>2, <1>1 DEF Counts
    <3> QED
      BY <3>1, <3>2, <2>4, <2>5
  <2>6. ASSUME NEW i, Counts(i, h, from, n, j + 1)
        PROVE  i \in v.active
    <3>1. PICK x \in 1 .. j + 1 :
            /\ Dated(h[x], from, n) /\ h[x].chat.id = i /\ h[x].chat.op # "retract"
            /\ \A y \in x + 1 .. j + 1 : Dated(h[y], from, n) => h[y].chat.target # i
      BY <2>6 DEF Counts
    <3>2. CASE x = j + 1
      BY <3>1, <3>2, <2>4
    <3>3. CASE x \in 1 .. j
      <4>1. i # c.target /\ \A y \in x + 1 .. j : Dated(h[y], from, n) => h[y].chat.target # i
        BY <3>1, <3>3, <1>4, <1>6
      <4>2. Counts(i, h, from, n, j)
        BY <4>1, <3>1, <3>3 DEF Counts
      <4> QED
        BY <4>1, <4>2, <2>4, <1>3
    <3> QED
      BY <3>1, <3>2, <3>3, <1>1
  <2>7. \A r \in v.rows : \E x \in 1 .. j + 1 : r \in h[x].rows
    BY <2>4, <1>1, <1>3
  <2>8. \A x \in 1 .. j + 1 : Dated(h[x], from, n) /\ h[x].chat.op # "retract" => h[x].chat.actor \in v.heard
    BY <2>4, <1>1, <1>3
  <2> QED
    BY <2>4, <2>5, <2>6, <2>7, <2>8 DEF WindowKnown
<1> QED
  BY <1>5, <1>6

\* What the replay of a window's inputs returns.
LEMMA ReplayedFacts ==
    ASSUME NEW h \in Seq(Input), NEW from, NEW n, NewNet \in NetState
    PROVE  WindowKnown(Replayed(h, from, n), h, from, n, Len(h))
<1> DEFINE x == [history |-> h, from |-> from]
           L == Len(h)
<1>1. L \in Nat
  BY LenProperties
<1>2. PICK f : Turns(f, "window", NewNet, x, n, L) /\ Replayed(h, from, n) = f[L]
  BY <1>1, WindowTurns
<1>3. \A i \in 0 .. L : f[i] = IF i = 0 THEN NewNet
        ELSE IF Dated(h[i], from, n) THEN ApplyNet(f[i - 1], h[i].chat, h[i].rows, "replay") ELSE f[i - 1]
  <2>1. \A s, i : Turn("window", s, i, x, n) =
          IF Dated(h[i], from, n) THEN ApplyNet(s, h[i].chat, h[i].rows, "replay") ELSE s
    BY DEF Turn
  <2> HIDE DEF x, L
  <2> QED
    BY <2>1, <1>2 DEF Turns
<1> HIDE DEF x
<1> DEFINE T == {i \in 0 .. L : ~WindowKnown(f[i], h, from, n, i)}
<1>4. SUFFICES ASSUME T # {} PROVE FALSE
  BY <1>1, <1>2
<1>5. PICK i \in T : \A y \in T : i <= y
  <2>1. T \in SUBSET Nat
    BY <1>1
  <2> QED
    BY <2>1, <1>4, LeastOf
<1>6. CASE i = 0
  <2>1. f[0] = NewNet /\ \A z \in 1 .. 0 : FALSE
    BY <1>1, <1>3
  <2>2. NewNet.active = {} /\ NewNet.rows = {}
    BY DEF NewNet
  <2>3. WindowKnown(f[0], h, from, n, 0)
    BY <2>1, <2>2 DEF WindowKnown, Counts
  <2> QED
    BY <2>3, <1>5, <1>6
<1>7. CASE i # 0
  <2> DEFINE j == i - 1
  <2>1. j \in Nat /\ j \in 0 .. L /\ i = j + 1 /\ j + 1 <= L /\ ~(i <= j) /\ i \in 0 .. L
    BY <1>1, <1>5, <1>7
  <2>2. WindowKnown(f[j], h, from, n, j)
    BY <2>1, <1>5
  <2>3. f[i] = IF Dated(h[i], from, n) THEN ApplyNet(f[j], h[i].chat, h[i].rows, "replay") ELSE f[j]
    BY <2>1, <1>3, <1>7
  <2> HIDE DEF j
  <2>4. WindowKnown(f[i], h, from, n, i)
    BY <2>1, <2>2, <2>3, WindowStep
  <2> QED
    BY <2>4, <1>5
<1> QED
  BY <1>6, <1>7

\* Event i is dated in the window.
InWindow(i, from, to) == from <= Time(i) /\ Time(i) <= to

\* What a window shows, next to the network of n events it was cut from.
WindowFits(net, from, to, n) ==
    LET w == Window(net, from, to)
    IN /\ w.active \subseteq 1 .. n
       /\ \A i \in w.active \ net.active :
            \/ i \in net.late
            \/ \E k \in i + 1 .. n : log[k].msg = log[i].msg /\ ~InWindow(k, from, to)
       /\ net.late = {} => \A i \in net.active : InWindow(i, from, to) => i \in w.active

\* A window keeps what the clone counts, and knows the room's actors.
LEMMA WindowFields ==
    ASSUME NEW net \in NetState, NEW from, NEW n, NewNet \in NetState, NEW w, w = Window(net, from, n)
    PROVE  \E a : /\ WindowKnown(a, net.history, from, n, Len(net.history))
                  /\ w.active = a.active /\ w.rows = a.rows /\ w.heard = a.heard \cup net.heard
<1> DEFINE a == Replayed(net.history, from, n)
<1>1. net.history \in Seq(Input)
  BY DEF NetState
<1>2. WindowKnown(a, net.history, from, n, Len(net.history))
  BY <1>1, ReplayedFacts
<1>3. w = [a EXCEPT !.heard = @ \cup net.heard]
  BY DEF Window
<1>4. a \in NetState
  BY <1>2 DEF WindowKnown
<1> HIDE DEF a
<1>5. w.active = a.active /\ w.rows = a.rows /\ w.heard = a.heard \cup net.heard
  BY <1>3, <1>4 DEF NetState
<1> QED
  BY <1>2, <1>5

\* A window shows more than the network only of what was replaced out of its sight,
\* and less only while something is late.
LEMMA WindowFacts ==
    ASSUME LogKnown, NEW n \in 0 .. Len(log), NEW net \in NetState, NewNet \in NetState,
           HistoryKnown(net.history, n), NetExact(net), NEW from, NEW to
    PROVE  WindowFits(net, from, to, n)
<1> DEFINE w == Window(net, from, to)
           h == net.history
           L == Len(h)
<1>1. PICK a : /\ WindowKnown(a, h, from, to, L) /\ w.active = a.active
  BY WindowFields
<1>2. \A i : i \in w.active <=> Counts(i, h, from, to, L)
  BY <1>1 DEF WindowKnown
<1> HIDE DEF w
<1>3. h \in Seq(Input) /\ L \in Nat
  BY LenProperties DEF NetState
<1>4. \A x \in 1 .. L : /\ ChatKnown(h[x].chat) /\ h[x].chat.id <= n
                       /\ \A y \in 1 .. x - 1 : h[y].chat.id < h[x].chat.id
  BY DEF HistoryKnown
<1>5. \A x \in 1 .. L : /\ h[x].chat.id \in 1 .. n
                       /\ (Dated(h[x], from, to) <=> InWindow(h[x].chat.id, from, to))
  BY <1>4 DEF ChatKnown, Dated, InWindow
<1>6. ASSUME NEW i \in w.active
      PROVE  /\ i \in 1 .. n
             /\ i \notin net.active =>
                  \/ i \in net.late
                  \/ \E k \in i + 1 .. n : log[k].msg = log[i].msg /\ ~InWindow(k, from, to)
  <2>1. PICK x \in 1 .. L :
          /\ Dated(h[x], from, to) /\ h[x].chat.id = i /\ h[x].chat.op # "retract"
          /\ \A y \in x + 1 .. L : Dated(h[y], from, to) => h[y].chat.target # i
    BY <1>2, <1>6 DEF Counts
  <2>2. i \in 1 .. n
    BY <2>1, <1>5
  <2>3. ASSUME i \notin net.active, i \notin net.late
        PROVE  \E k \in i + 1 .. n : log[k].msg = log[i].msg /\ ~InWindow(k, from, to)
    <3>1. PICK y \in x + 1 .. L : h[y].chat.target = i
      BY <2>1, <2>3 DEF NetExact
    <3>2. y \in 1 .. L /\ x \in 1 .. y - 1
      BY <1>3
    <3>3. ~Dated(h[y], from, to)
      BY <3>1, <2>1
    <3>4. ChatKnown(h[y].chat) /\ h[x].chat.id < h[y].chat.id
      BY <3>2, <1>4
    <3>5. h[y].chat.id \in 1 .. n /\ ~InWindow(h[y].chat.id, from, to)
      BY <3>2, <3>3, <1>5
    <3>6. log[h[y].chat.id].msg = log[i].msg
      BY <3>1, <3>4, <2>2 DEF ChatKnown
    <3>7. h[y].chat.id \in i + 1 .. n
      BY <3>4, <3>5, <2>1, <2>2
    <3> QED
      BY <3>5, <3>6, <3>7
  <2> QED
    BY <2>2, <2>3
<1>7. ASSUME net.late = {}, NEW i \in net.active, InWindow(i, from, to)
      PROVE  i \in w.active
  <2>1. PICK x \in 1 .. L : h[x].chat.id = i /\ h[x].chat.op # "retract"
    BY DEF NetExact
  <2>2. \A y \in 1 .. L : h[y].chat.target # i
    BY <1>7 DEF NetExact
  <2>3. \A y \in x + 1 .. L : y \in 1 .. L
    BY <1>3
  <2>4. Counts(i, h, from, to, L)
    BY <2>1, <2>2, <2>3, <1>5, <1>7 DEF Counts
  <2> QED
    BY <2>4, <1>2
<1> QED
  BY <1>6, <1>7 DEF WindowFits, w

\* A snapshot can mistake nobody but Nova, and her only when she is mentioned before
\* the network has heard her.
LEMMA MappedUnlessUnheard ==
    ASSUME LogKnown, NEW n \in 0 .. Len(log), NEW kind
    PROVE  AllMapped(n, kind) \/ NovaUnheard(n, kind)
<1> DEFINE net == Project(n, kind).trace
           h == net.history
<1>1. ProjectorKnown(Project(n, kind), n, kind, n) /\ NewNet \in NetState
  BY ProjectFacts, ProjectorFresh
<1>2. net \in NetState /\ HistoryKnown(h, n) /\ NovaKnown(net)
  BY <1>1 DEF ProjectorKnown
<1>3. h \in Seq(Input) /\ Len(h) \in Nat /\ DOMAIN h = 1 .. Len(h)
  <2>1. h \in Seq(Input)
    BY <1>2 DEF NetState
  <2> HIDE DEF h
  <2> QED
    BY <2>1, LenProperties
<1>4. SUFFICES ASSUME Agent \in net.heard \/ \A x \in 1 .. Len(h) : ~h[x].chat.nova,
                      NEW w \in Windows(net, n)
               PROVE  Mapped(w)
  BY <1>3 DEF AllMapped, NovaUnheard, ToSet
<1>5. PICK from, to : w = Window(net, from, to)
  BY <1>4 DEF Windows
<1> HIDE DEF net
<1>6. PICK a : /\ WindowKnown(a, h, from, to, Len(h))
               /\ w.active = a.active /\ w.rows = a.rows /\ w.heard = a.heard \cup net.heard
  BY <1>1, <1>2, <1>5, WindowFields
<1>7. ASSUME Agent # Room, Agent \notin w.heard
      PROVE  Agent \notin Speakers(w) \cup Ends(w.rows)
  <2>1. ASSUME NEW i \in w.active, log[i].actor = Agent
        PROVE  FALSE
    <3>1. Counts(i, h, from, to, Len(h))
      BY <2>1, <1>6 DEF WindowKnown
    <3>2. PICK x \in 1 .. Len(h) : Dated(h[x], from, to) /\ h[x].chat.id = i /\ h[x].chat.op # "retract"
      BY <3>1 DEF Counts
    <3>3. h[x].chat.actor = Agent
      BY <3>2, <2>1, <1>2 DEF HistoryKnown, ChatKnown
    <3> QED
      BY <3>2, <3>3, <1>6, <1>7 DEF WindowKnown
  <2>2. ASSUME NEW r \in w.rows, Agent \in {r.src, r.dst}
        PROVE  FALSE
    <3>1. PICK x \in 1 .. Len(h) : r \in h[x].rows
      BY <1>6 DEF WindowKnown
    <3>2. Agent = Room \/ Agent \in net.heard \/ \E y \in 1 .. Len(h) : h[y].chat.nova
      BY <3>1, <2>2, <1>2 DEF NovaKnown
    <3> QED
      BY <3>2, <1>4, <1>6, <1>7
  <2> QED
    BY <2>1, <2>2 DEF Speakers, Ends
<1>8. ASSUME NEW view \in Views
      PROVE  ViewNodes(w, view) \subseteq Speakers(w) \cup Ends(w.rows)
  <2>1. ViewRows(w, view) \subseteq w.rows
    BY DEF ViewRows
  <2>2. Ends(ViewRows(w, view)) \subseteq Ends(w.rows)
    BY <2>1 DEF Ends
  <2>3. CASE view = "observed"
    BY <2>3 DEF ViewNodes
  <2>4. CASE view = "human_only"
    BY <2>2, <2>4 DEF ViewNodes
  <2>5. CASE view = "lineage_adjusted"
    BY <2>2, <2>5 DEF ViewNodes
  <2> QED
    BY <2>3, <2>4, <2>5 DEF Views
<1>9. ASSUME NEW view \in Views, NEW b \in ViewNodes(w, view)
      PROVE  KindIn(w, b) = KindOf(b)
  <2>1. b = Agent => Agent = Room \/ Agent \in w.heard
    BY <1>7, <1>8, <1>9
  <2> QED
    BY <2>1 DEF KindIn, KindOf
<1> QED
  BY <1>9 DEF Mapped

-----------------------------------------------------------------------------
(* The texts.                                                              *)

\* Texts exist for the first n events, and a message has at most one in force.
TextsKnown(t, n) ==
    /\ t \in [1 .. MaxEvents -> {"none", "on", "off"}]
    /\ \A k \in 1 .. MaxEvents :
         t[k] # "none" => k <= n /\ log[k].op \in {"add", "revise", "amend"}
    /\ \A i, k \in 1 .. MaxEvents :
         t[i] = "on" /\ t[k] = "on" /\ log[i].msg = log[k].msg => i = k

\* Storing an event's text keeps that,
LEMMA PersistedStep ==
    ASSUME NEW n \in 0 .. Len(log), Len(log) \in Nat, Len(log) <= MaxEvents, MaxEvents \in Nat,
           NEW i \in 1 .. n, NEW t, TextsKnown(t, n)
    PROVE  TextsKnown(Persisted(t, i), n)
<1> DEFINE mine == {k \in DOMAIN t : k <= Len(log) /\ log[k].msg = log[i].msg /\ t[k] = "on"}
           s == Persisted(t, i)
<1>1. /\ t \in [1 .. MaxEvents -> {"none", "on", "off"}] /\ DOMAIN t = 1 .. MaxEvents
      /\ \A k \in 1 .. MaxEvents :
           t[k] # "none" => k <= n /\ log[k].op \in {"add", "revise", "amend"}
      /\ \A j, k \in 1 .. MaxEvents :
           t[j] = "on" /\ t[k] = "on" /\ log[j].msg = log[k].msg => j = k
  BY DEF TextsKnown
<1>2. i \in 1 .. MaxEvents /\ \A k \in 1 .. n : k <= Len(log)
  OBVIOUS
<1>3. CASE log[i].op = "retract"
  <2>1. s = [k \in DOMAIN t |-> IF k \in mine THEN "off" ELSE t[k]]
    BY <1>3 DEF Persisted
  <2> HIDE DEF s, mine
  <2>2. \A k \in 1 .. MaxEvents : s[k] = IF k \in mine THEN "off" ELSE t[k]
    BY <2>1, <1>1
  <2>3. s \in [1 .. MaxEvents -> {"none", "on", "off"}]
    BY <2>1, <1>1
  <2>4. \A k \in mine : k \in 1 .. MaxEvents /\ t[k] = "on"
    BY <1>1 DEF mine
  <2> QED
    BY <2>2, <2>3, <2>4, <1>1 DEF TextsKnown, s
<1>4. CASE log[i].op # "retract" /\ Direct(i)
  <2>1. s = [k \in DOMAIN t |-> IF k \in mine \ {i} THEN "off"
                                ELSE IF k = i /\ t[k] = "none" THEN "on" ELSE t[k]]
    BY <1>4 DEF Persisted
  <2>2. \A k \in 1 .. MaxEvents : t[k] = "on" /\ log[k].msg = log[i].msg => k \in mine
    BY <1>1, <1>2
  <2>3. \A k \in mine : k \in 1 .. MaxEvents /\ t[k] = "on"
    BY <1>1
  <2> HIDE DEF s, mine
  <2>4. \A k \in 1 .. MaxEvents : s[k] = IF k \in mine \ {i} THEN "off"
                                        ELSE IF k = i /\ t[k] = "none" THEN "on" ELSE t[k]
    BY <2>1, <1>1
  <2>5. s \in [1 .. MaxEvents -> {"none", "on", "off"}]
    BY <2>1, <1>1
  <2>6. ASSUME NEW k \in 1 .. MaxEvents, s[k] # "none"
        PROVE  k <= n /\ log[k].op \in {"add", "revise", "amend"}
    BY <2>3, <2>4, <2>6, <1>1, <1>4 DEF Direct
  <2>7. \A k \in 1 .. MaxEvents : s[k] = "on" /\ k # i => t[k] = "on" /\ log[k].msg # log[i].msg
    BY <2>2, <2>4
  <2>8. \A j, k \in 1 .. MaxEvents :
          s[j] = "on" /\ s[k] = "on" /\ log[j].msg = log[k].msg => j = k
    BY <2>7, <1>1
  <2> QED
    BY <2>5, <2>6, <2>8 DEF TextsKnown, s
<1>5. CASE log[i].op # "retract" /\ ~Direct(i)
  BY <1>5 DEF Persisted
<1> QED
  BY <1>3, <1>4, <1>5

\* and so does a correction.
LEMMA ReviewedStep ==
    ASSUME LogKnown, NEW n \in 0 .. Len(log), Len(log) \in Nat, Len(log) <= MaxEvents, MaxEvents \in Nat,
           NEW i \in 1 .. n, NEW t, TextsKnown(t, n)
    PROVE  TextsKnown(Reviewed(t, i, n), n)
<1> DEFINE s == Reviewed(t, i, n)
<1>1. /\ t \in [1 .. MaxEvents -> {"none", "on", "off"}] /\ DOMAIN t = 1 .. MaxEvents
      /\ \A k \in 1 .. MaxEvents :
           t[k] # "none" => k <= n /\ log[k].op \in {"add", "revise", "amend"}
      /\ \A j, k \in 1 .. MaxEvents :
           t[j] = "on" /\ t[k] = "on" /\ log[j].msg = log[k].msg => j = k
  BY DEF TextsKnown
<1>2. CASE log[i].op \notin {"amend", "withdraw"}
  BY <1>2 DEF Reviewed
<1>4. CASE log[i].op = "withdraw"
  <2> DEFINE x == log[i].target
  <2>1. EventKnown(i) /\ i \in 1 .. Len(log)
    BY DEF LogKnown
  <2>2. x \in 1 .. MaxEvents /\ x <= n /\ log[x].op \in {"add", "revise", "amend"}
    BY <2>1, <1>4 DEF EventKnown
  <2>3. s = [t EXCEPT ![x] = "off"]
    BY <1>4 DEF Reviewed
  <2> HIDE DEF s, x
  <2>4. \A k \in 1 .. MaxEvents : s[k] = IF k = x THEN "off" ELSE t[k]
    BY <2>3, <1>1
  <2>5. s \in [1 .. MaxEvents -> {"none", "on", "off"}]
    BY <2>3, <1>1
  <2> QED
    BY <2>2, <2>4, <2>5, <1>1 DEF TextsKnown, s
<1>3. CASE log[i].op = "amend"
  <2>1. s = [k \in DOMAIN t |->
               IF k = i THEN "on"
               ELSE IF k <= n /\ log[k].msg = log[i].msg /\ t[k] = "on" THEN "off" ELSE t[k]]
    BY <1>3 DEF Reviewed
  <2> HIDE DEF s
  <2>2. \A k \in 1 .. MaxEvents : s[k] =
          IF k = i THEN "on"
          ELSE IF k <= n /\ log[k].msg = log[i].msg /\ t[k] = "on" THEN "off" ELSE t[k]
    BY <2>1, <1>1
  <2>3. s \in [1 .. MaxEvents -> {"none", "on", "off"}]
    BY <2>1, <1>1
  <2>4. \A k \in 1 .. MaxEvents :
          s[k] # "none" => k <= n /\ log[k].op \in {"add", "revise", "amend"}
    BY <2>2, <1>1, <1>3
  <2>5. \A k \in 1 .. MaxEvents : s[k] = "on" /\ k # i => t[k] = "on" /\ log[k].msg # log[i].msg
    BY <2>2, <1>1
  <2>6. \A j, k \in 1 .. MaxEvents :
          s[j] = "on" /\ s[k] = "on" /\ log[j].msg = log[k].msg => j = k
    BY <2>5, <1>1
  <2> QED
    BY <2>3, <2>4, <2>6 DEF TextsKnown, s
<1> QED
  BY <1>2, <1>3, <1>4

\* What a job stores: both walks, from the texts of an earlier one.
LEMMA StoredFacts ==
    ASSUME LogKnown, NEW n \in 0 .. Len(log), Len(log) \in Nat, Len(log) <= MaxEvents, MaxEvents \in Nat,
           NEW m \in 0 .. n, TextsKnown(texts, m)
    PROVE  TextsKnown(ApplyReviews(PersistDirect(texts, n), n), n)
<1>1. n \in Nat
  OBVIOUS
<1>2. TextsKnown(texts, n)
  BY DEF TextsKnown
<1>3. PICK f : Turns(f, "persist", texts, 0, n, n) /\ PersistDirect(texts, n) = f[n]
  BY <1>1, PersistTurns
<1>4. \A i \in 0 .. n : f[i] = IF i = 0 THEN texts ELSE Persisted(f[i - 1], i)
  BY <1>3 DEF Turns, Turn
<1>5. TextsKnown(f[n], n)
  <2> DEFINE T == {i \in 0 .. n : ~TextsKnown(f[i], n)}
  <2>1. SUFFICES ASSUME T # {} PROVE FALSE
    BY <1>1
  <2>2. T \in SUBSET Nat
    OBVIOUS
  <2>3. PICK i \in T : \A y \in T : i <= y
    BY <2>1, <2>2, LeastOf
  <2>4. CASE i = 0
    BY <2>3, <2>4, <1>2, <1>4
  <2>5. CASE i # 0
    <3>1. i \in 1 .. n /\ i - 1 \in 0 .. n /\ ~(i <= i - 1)
      BY <2>3, <2>5
    <3>2. TextsKnown(f[i - 1], n) /\ f[i] = Persisted(f[i - 1], i)
      BY <3>1, <2>3, <2>5, <1>4
    <3>3. TextsKnown(f[i], n)
      BY <3>1, <3>2, PersistedStep
    <3> QED
      BY <3>3, <2>3
  <2> QED
    BY <2>4, <2>5
<1> DEFINE s == PersistDirect(texts, n)
<1>6. TextsKnown(s, n)
  BY <1>3, <1>5
<1> HIDE DEF s
<1>7. PICK g : Turns(g, "review", s, 0, n, n) /\ ApplyReviews(s, n) = g[n]
  BY <1>1, ReviewTurns
<1>8. \A i \in 0 .. n : g[i] = IF i = 0 THEN s ELSE Reviewed(g[i - 1], i, n)
  BY <1>7 DEF Turns, Turn
<1>9. TextsKnown(g[n], n)
  <2> DEFINE T == {i \in 0 .. n : ~TextsKnown(g[i], n)}
  <2>1. SUFFICES ASSUME T # {} PROVE FALSE
    BY <1>1
  <2>2. T \in SUBSET Nat
    OBVIOUS
  <2>3. PICK i \in T : \A y \in T : i <= y
    BY <2>1, <2>2, LeastOf
  <2>4. CASE i = 0
    BY <2>3, <2>4, <1>6, <1>8
  <2>5. CASE i # 0
    <3>1. i \in 1 .. n /\ i - 1 \in 0 .. n /\ ~(i <= i - 1)
      BY <2>3, <2>5
    <3>2. TextsKnown(g[i - 1], n) /\ g[i] = Reviewed(g[i - 1], i, n)
      BY <3>1, <2>3, <2>5, <1>8
    <3>3. TextsKnown(g[i], n)
      BY <3>1, <3>2, ReviewedStep
    <3> QED
      BY <3>3, <2>3
  <2> QED
    BY <2>4, <2>5
<1> QED
  BY <1>7, <1>9 DEF s

\* No event has two corrections in force.
LEMMA CorrectedOnce ==
    ASSUME LogKnown, NEW n \in 0 .. Len(log), Len(log) <= MaxEvents, MaxEvents \in Nat,
           NEW m \in 0 .. n, TextsKnown(texts, m)
    PROVE  Unambiguous(n)
<1> DEFINE t == ApplyReviews(PersistDirect(texts, n), n)
<1>1. Len(log) \in Nat
  BY DEF LogKnown
<1>2. TextsKnown(t, n)
  BY <1>1, StoredFacts
<1> HIDE DEF t
<1>3. ASSUME NEW i \in 1 .. n
      PROVE  Cardinality(Corrections(i, t)) <= 1
  <2>1. ASSUME NEW k \in Corrections(i, t)
        PROVE  k \in 1 .. MaxEvents /\ t[k] = "on" /\ log[k].msg = log[i].msg
    <3>1. k \in 1 .. Len(log) /\ log[k].op = "amend" /\ t[k] = "on" /\ log[k].source = i
      BY DEF Corrections
    <3>2. log[i].msg = log[k].msg
      BY <3>1, EventFacts DEF EventKnown
    <3> QED
      BY <3>1, <3>2, <1>1
  <2>2. \A j, k \in Corrections(i, t) : j = k
    BY <2>1, <1>2 DEF TextsKnown
  <2>3. CASE Corrections(i, t) = {}
    BY <2>3, FS_EmptySet
  <2>4. CASE Corrections(i, t) # {}
    <3>1. PICK k \in Corrections(i, t) : TRUE
      BY <2>4
    <3>2. Corrections(i, t) = {k}
      BY <2>2, <3>1
    <3> QED
      BY <3>2, FS_Singleton, SMTT(30)
  <2> QED
    BY <2>3, <2>4
<1> QED
  BY <1>3 DEF Unambiguous, t

-----------------------------------------------------------------------------
(* What a job publishes.                                                   *)

\* Nothing hidden counts; with nothing hidden exactly the last versions do; an older
\* version counts only if a later one is hidden.
ExactFor(active, n) ==
    /\ active \cap Hidden(n) = {}
    /\ Hidden(n) = {} => active = LastVersions(n)
    /\ \A i \in active \ LastVersions(n) : \E k \in Hidden(n) : k > i /\ log[k].msg = log[i].msg

\* When nothing is late, what a job counts is exact.
LEMMA ExactWhenNothingLate ==
    ASSUME LogKnown, NEW n \in 0 .. Len(log), NEW kind, Project(n, kind).trace.late = {}
    PROVE  /\ ExactFor(Project(n, kind).trace.active, n)
           /\ Project(n, kind).trace.active \subseteq Said(n)
<1> DEFINE p == Project(n, kind)
           line == p.line
           A == p.trace.active
<1>1. ProjectorKnown(p, n, kind, n)
  BY ProjectFacts
<1>2. A = {line[m] : m \in Messages} \ {0} /\ LineKnown(line, n, n)
  BY <1>1 DEF ProjectorKnown, MapsKnown
<1>3. Len(log) \in Nat /\ n \in Nat
  BY DEF LogKnown
<1> HIDE DEF p
<1>4. ASSUME NEW m \in Messages, line[m] # 0
      PROVE  /\ line[m] \in 1 .. n /\ VersionOf(line[m], m) /\ log[line[m]].op \in {"add", "revise"}
             /\ line[m] \notin Hidden(n) /\ log[line[m]].msg = m
             /\ \A j \in 1 .. n : VersionOf(j, m) /\ j > line[m] => j \in Hidden(n)
             /\ Max(Latest(m, n)) \in 1 .. n /\ VersionOf(Max(Latest(m, n)), m)
             /\ Max(Latest(m, n)) >= line[m]
  <2>1. /\ line[m] \in 1 .. n /\ VersionOf(line[m], m) /\ log[line[m]].op # "retract"
        /\ line[m] \notin Hidden(n)
        /\ \A j \in 1 .. n : VersionOf(j, m) /\ j > line[m] => j \in Hidden(n)
    BY <1>2, <1>4 DEF LineKnown, LineOf
  <2>2. Latest(m, n) # {}
    BY <2>1 DEF Latest, VersionOf, Versions
  <2>3. /\ Max(Latest(m, n)) \in 1 .. n /\ VersionOf(Max(Latest(m, n)), m)
        /\ line[m] <= Max(Latest(m, n))
    BY <2>1, <2>2, LastVersion
  <2> QED
    BY <2>1, <2>3 DEF VersionOf, Versions
<1>5. A \cap Hidden(n) = {}
  BY <1>2, <1>4
<1>6. ASSUME NEW i \in A, i \notin LastVersions(n)
      PROVE  \E k \in Hidden(n) : k > i /\ log[k].msg = log[i].msg
  <2>1. PICK m \in Messages : i = line[m] /\ line[m] # 0
    BY <1>2, <1>6
  <2>2. i # Max(Latest(m, n)) /\ log[i].msg = m
    BY <2>1, <1>4, <1>6 DEF LastVersions, Said
  <2>3. Max(Latest(m, n)) > i
    BY <2>1, <2>2, <1>4
  <2>4. Max(Latest(m, n)) \in Hidden(n) /\ log[Max(Latest(m, n))].msg = m
    BY <2>1, <2>3, <1>4 DEF VersionOf
  <2> QED
    BY <2>2, <2>3, <2>4
<1>7. ASSUME Hidden(n) = {}, NEW i \in LastVersions(n)
      PROVE  i \in A
  <2> DEFINE m == log[i].msg
  <2>1. i \in 1 .. n /\ log[i].op \in {"add", "revise"} /\ i = Max(Latest(m, n))
    BY DEF LastVersions, Said
  <2>8. i \in 1 .. Len(log)
    BY <2>1, <1>3
  <2>2. m \in Messages /\ i \in Latest(m, n)
    BY <2>1, <2>8, EventFacts DEF Latest, Versions
  <2>3. Standing(m, n)
    BY <2>1, <2>2 DEF Standing
  <2>4. Alive(m, n)
    BY <2>3, StandingIsAlive
  <2>5. line[m] # 0
    BY <2>2, <2>4, <1>2, <1>7 DEF LineKnown
  <2>6. line[m] <= i /\ VersionOf(i, m) /\ line[m] \in 1 .. n
    BY <2>1, <2>2, <2>5, <1>4
  <2>7. line[m] = i
    BY <2>1, <2>2, <2>5, <2>6, <1>4, <1>7
  <2> QED
    BY <2>2, <2>5, <2>7, <1>2
<1>8. A \subseteq Said(n)
  BY <1>2, <1>4 DEF Said
<1> QED
  BY <1>5, <1>6, <1>7, <1>8 DEF ExactFor, p

\* The log keeps its events.
LogKept == Len(log) \in Nat /\ Len(log') \in Nat /\ Len(log) <= Len(log')
           /\ \A i \in 1 .. Len(log) : log'[i] = log[i]

\* What is read from the first n events stays as it is while the log grows.
LEMMA PrefixKept ==
    ASSUME LogKept, NEW n \in 0 .. Len(log)
    PROVE  /\ Hidden(n)' = Hidden(n) /\ LastVersions(n)' = LastVersions(n)
           /\ Approved(n)' = Approved(n) /\ ApprovedEdges(n)' = ApprovedEdges(n)
           /\ Said(n)' = Said(n) /\ Dropped(n)' = Dropped(n)
           /\ \A i \in 1 .. n : Time(i)' = Time(i)
<1>1. \A i \in 1 .. n : log'[i] = log[i] /\ i \in 1 .. Len(log)
  BY DEF LogKept
<1>2. Hidden(n)' = Hidden(n)
  BY <1>1 DEF Hidden
<1>3. \A m : Latest(m, n)' = Latest(m, n)
  BY <1>1 DEF Latest
<1>7. Said(n)' = Said(n) /\ Dropped(n)' = Dropped(n)
  BY <1>1 DEF Said, Dropped
<1>4. LastVersions(n)' = LastVersions(n)
  BY <1>1, <1>3, <1>7 DEF LastVersions, Said
<1>5. Approved(n)' = Approved(n) /\ ApprovedEdges(n)' = ApprovedEdges(n)
  <2>1. \A k \in 1 .. n : \A j \in k .. n : j \in 1 .. n
    OBVIOUS
  <2>2. Approved(n)' = Approved(n)
    BY <2>1, <1>1 DEF Approved
  <2>3. ApprovedEdges(n)' = ApprovedEdges(n)
    BY <2>1, <1>1 DEF ApprovedEdges
  <2> QED
    BY <2>2, <2>3
<1>6. \A i \in 1 .. n : Time(i)' = Time(i)
  BY <1>1 DEF Time
<1> QED
  BY <1>2, <1>4, <1>5, <1>6, <1>7

\* So does whether a projection of them is exact.
LEMMA ExactKept ==
    ASSUME LogKept, NEW n \in 0 .. Len(log), NEW A \in SUBSET (1 .. n), ExactFor(A, n),
           Hidden(n) \subseteq 1 .. n
    PROVE  ExactFor(A, n)'
<1>1. Hidden(n)' = Hidden(n) /\ LastVersions(n)' = LastVersions(n)
  BY PrefixKept
<1>2. \A i \in 1 .. n : log'[i] = log[i]
  BY DEF LogKept
<1> QED
  BY <1>1, <1>2 DEF ExactFor

\* CaughtUpIsExact, in these terms, in the next state.
LEMMA CaughtUpNext ==
    ASSUME NEW A, NEW n, A = shown'.echo, n = shown'.through, ~shown'.needs => ExactFor(A, n)'
    PROVE  CaughtUpIsExact'
  BY DEF CaughtUpIsExact, ExactFor

\* The recorded inputs still say what their events say.
LEMMA HistoryKept ==
    ASSUME LogKept, NEW h \in Seq(Input), NEW k \in 0 .. Len(log), HistoryKnown(h, k)
    PROVE  HistoryKnown(h, k)'
<1>1. ASSUME NEW x \in 1 .. Len(h)
      PROVE  ChatKnown(h[x].chat)'
  <2> DEFINE c == h[x].chat
  <2>0. h[x] \in Input
    BY ElementOfSeq
  <2>1. c \in Chat
    BY <2>0 DEF Input
  <2>2. ChatKnown(c) /\ c.id <= k
    BY DEF HistoryKnown
  <2> HIDE DEF c
  <2>3. /\ c.id \in 1 .. Len(log) /\ c.target \in Nat /\ c.target < c.id
        /\ (c.target # 0 => c.target \in 1 .. Len(log)) /\ c.id \in 1 .. Len(log')
    BY <2>1, <2>2 DEF ChatKnown, Chat, LogKept
  <2>4. log'[c.id] = log[c.id] /\ (c.target # 0 => log'[c.target] = log[c.target])
    BY <2>3 DEF LogKept
  <2>5. Time(c.id)' = Time(c.id)
    BY <2>4 DEF Time
  <2>6. ChatKnown(c)'
    BY <2>2, <2>3, <2>4, <2>5 DEF ChatKnown
  <2> QED
    BY <2>6 DEF c
<1> QED
  BY <1>1 DEF HistoryKnown

\* What the claims of a counted event are, when nothing beyond the first n has a text.
LEMMA ClaimKept ==
    ASSUME LogKept, NEW n \in 0 .. Len(log), NEW t, NEW i \in 1 .. n,
           \A k \in 1 .. Len(log') : t[k] = "on" => k <= n
    PROVE  ClaimOf(i, t)' = ClaimOf(i, t)
<1>1. \A k \in 1 .. n : log'[k] = log[k] /\ k \in 1 .. Len(log) /\ k \in 1 .. Len(log')
  BY DEF LogKept
<1>2. \A k \in 1 .. Len(log) : k \in 1 .. Len(log')
  BY DEF LogKept
<1>3. Corrections(i, t)' = Corrections(i, t)
  BY <1>1, <1>2 DEF Corrections
<1> QED
  BY <1>1, <1>3 DEF ClaimOf

\* Event i of the first n is alive, and claims c with the teacher's approval.
Bears(i, c, t, n) ==
    /\ ClaimOf(i, t) = c
    /\ i \in Approved(n) \/ c \in ApprovedEdges(n)
    /\ i \notin Hidden(n)
    /\ Hidden(n) = {} => i \in LastVersions(n)

\* Students see an edge of the first n events only on evidence that lives.
LiveFor(student, t, n) ==
    \A c \in student : c \notin Dropped(n) /\ \E i \in Said(n) : Bears(i, c, t, n)

\* That stays so while the log grows.
LEMMA LiveKept ==
    ASSUME LogKept, NEW n \in 0 .. Len(log), NEW student, NEW t, LiveFor(student, t, n),
           \A k \in 1 .. Len(log') : t[k] = "on" => k <= n
    PROVE  LiveFor(student, t, n)'
<1>1. /\ Hidden(n)' = Hidden(n) /\ LastVersions(n)' = LastVersions(n) /\ Approved(n)' = Approved(n)
      /\ ApprovedEdges(n)' = ApprovedEdges(n) /\ Said(n)' = Said(n) /\ Dropped(n)' = Dropped(n)
  BY PrefixKept
<1>2. \A i \in 1 .. n : ClaimOf(i, t)' = ClaimOf(i, t)
  BY ClaimKept
<1>3. \A i \in 1 .. n : \A c : Bears(i, c, t, n) => Bears(i, c, t, n)'
  BY <1>1, <1>2 DEF Bears
<1>4. ASSUME NEW c \in student
      PROVE  c \notin Dropped(n) /\ \E i \in Said(n) : Bears(i, c, t, n)'
  <2>1. c \notin Dropped(n)
    BY DEF LiveFor
  <2>2. PICK i \in Said(n) : Bears(i, c, t, n)
    BY DEF LiveFor
  <2>3. i \in 1 .. n
    BY DEF Said
  <2> QED
    BY <2>1, <2>2, <2>3, <1>3
<1> QED
  BY <1>1, <1>4 DEF LiveFor

\* StudentEvidenceLive, in these terms, in the next state.
LEMMA LiveNext ==
    ASSUME NEW s, NEW t, NEW n, s = shown'.student, t = texts', n = shown'.through,
           ~shown'.needs => LiveFor(s, t, n)'
    PROVE  StudentEvidenceLive'
  BY DEF StudentEvidenceLive, LiveFor, Bears

\* The texts' own invariant, too.
LEMMA TextsKept ==
    ASSUME LogKept, NEW n \in 0 .. Len(log), NEW t, TextsKnown(t, n), MaxEvents \in Nat
    PROVE  TextsKnown(t, n)'
<1>1. \A i \in 1 .. n : log'[i] = log[i]
  BY DEF LogKept
<1>2. \A k \in 1 .. MaxEvents : t[k] # "none" => k \in 1 .. n
  BY DEF TextsKnown
<1> QED
  BY <1>1, <1>2 DEF TextsKnown

\* Nor does it change what an event says of the events before it.
LEMMA EventKept ==
    ASSUME LogKept, log \in Seq(Event), NEW j \in 1 .. Len(log), EventKnown(j)
    PROVE  EventKnown(j)'
<1>1. /\ log'[j] = log[j] /\ j \in Nat
      /\ \A i \in 1 .. j - 1 : log'[i] = log[i]
  BY DEF LogKept
<1>2. \A i \in 1 .. j - 1 : \A m : VersionOf(i, m)' <=> VersionOf(i, m)
  BY <1>1 DEF VersionOf
<1>3. \A m : Alive(m, j - 1)' <=> Alive(m, j - 1)
  BY <1>1, <1>2 DEF Alive
<1>4. log[j].op \in {"hide", "withdraw", "amend"} => log[j].source \in 1 .. j - 1
  BY DEF EventKnown
<1>5. log[j].op = "withdraw" => log[j].target \in 1 .. j - 1
  BY DEF EventKnown
<1> QED
  BY <1>1, <1>2, <1>3, <1>4, <1>5 DEF EventKnown

-----------------------------------------------------------------------------
(* The invariant.                                                          *)

\* What is published is the network of some job over the first events.
ShownKnown ==
    /\ shown.through \in 0 .. Len(log) /\ shown.net \in NetState
    /\ shown.echo = shown.net.active /\ shown.echo \subseteq 1 .. shown.through
    /\ ~shown.needs => shown.net.late = {}
    /\ HistoryKnown(shown.net.history, shown.through) /\ NetExact(shown.net)

AInv ==
    /\ LogKnown /\ Len(log) <= MaxEvents
    /\ TextsKnown(texts, shown.through) /\ ShownKnown
    /\ CaughtUpIsExact /\ StudentEvidenceLive

\* It holds of a new room.
LEMMA AInit == Init => AInv
<1> SUFFICES ASSUME Init PROVE AInv
  OBVIOUS
<1>1. MaxEvents \in Nat
  BY AnalysisAssumption
<1>2. /\ log = << >> /\ Len(log) = 0 /\ log \in Seq(Event)
      /\ texts = [i \in 1 .. MaxEvents |-> "none"]
      /\ shown.through = 0 /\ shown.net = NewNet /\ shown.echo = {} /\ shown.student = {}
  BY DEF Init
<1>3. LogKnown
  BY <1>2 DEF LogKnown
<1>4. TextsKnown(texts, 0)
  BY <1>2 DEF TextsKnown
<1>5. NewNet \in NetState
  BY <1>2, <1>3, ProjectorFresh
<1>6. NewNet.active = {} /\ NewNet.late = {} /\ NewNet.history = << >> /\ Len(NewNet.history) = 0
  BY DEF NewNet
<1>7. HistoryKnown(NewNet.history, 0) /\ NetExact(NewNet)
  BY <1>6 DEF HistoryKnown, NetExact
<1>8. ShownKnown
  BY <1>2, <1>5, <1>6, <1>7 DEF ShownKnown
<1>9. LastVersions(0) = {} /\ Hidden(0) = {}
  BY DEF LastVersions, Said, Hidden
<1>10. CaughtUpIsExact /\ StudentEvidenceLive
  BY <1>2, <1>9 DEF CaughtUpIsExact, StudentEvidenceLive
<1> QED
  BY <1>1, <1>2, <1>3, <1>4, <1>8, <1>10 DEF AInv

\* A step of the room records an event that fits the log; the worker's part stays.
LEMMA RecordStep ==
    ASSUME AInv, NEW e \in Event, log' = Append(log, e), Len(log) < MaxEvents,
           NEW new, new = Len(log) + 1, EventKnown(new)', UNCHANGED <<texts, shown>>
    PROVE  AInv'
<1>1. log \in Seq(Event) /\ Len(log) \in Nat /\ MaxEvents \in Nat
  BY AnalysisAssumption DEF AInv, LogKnown
<1>2. /\ log' \in Seq(Event) /\ Len(log') = Len(log) + 1
      /\ \A i \in 1 .. Len(log) : log'[i] = log[i]
  BY <1>1, AppendProperties
<1>3. LogKept
  BY <1>1, <1>2 DEF LogKept
<1>4. \A j \in 1 .. Len(log) : EventKnown(j)'
  BY <1>1, <1>3, EventKept DEF AInv, LogKnown
<1>5. LogKnown' /\ Len(log') <= MaxEvents
  <2>1. \A j \in 1 .. Len(log') : j \in 1 .. Len(log) \/ j = new
    BY <1>1, <1>2
  <2> QED
    BY <1>1, <1>2, <1>4, <2>1 DEF LogKnown
<1>6. PICK n, t, A, net, s : n = shown.through /\ t = texts /\ A = shown.echo /\ net = shown.net
                               /\ s = shown.student
  OBVIOUS
<1>7. /\ n = shown'.through /\ t = texts' /\ A = shown'.echo /\ net = shown'.net
      /\ s = shown'.student /\ (shown'.needs <=> shown.needs)
  BY <1>6
<1>8. n \in 0 .. Len(log) /\ net \in NetState /\ A \in SUBSET (1 .. n) /\ A = net.active
  BY <1>6 DEF AInv, ShownKnown
<1>9. HistoryKnown(net.history, n) /\ NetExact(net) /\ (~shown.needs => net.late = {})
  BY <1>6 DEF AInv, ShownKnown
<1>10. TextsKnown(t, n)'
  <2>1. TextsKnown(t, n)
    BY <1>6 DEF AInv
  <2> QED
    BY <2>1, <1>1, <1>3, <1>8, TextsKept
<1>11. TextsKnown(texts, shown.through)'
  BY <1>10, <1>7 DEF TextsKnown
<1>12. HistoryKnown(net.history, n)'
  <2>1. net.history \in Seq(Input)
    BY <1>8 DEF NetState
  <2> QED
    BY <2>1, <1>3, <1>8, <1>9, HistoryKept
<1>13. ShownKnown'
  <2>1. n \in 0 .. Len(log')
    BY <1>1, <1>2, <1>8
  <2>2. HistoryKnown(shown.net.history, shown.through)'
    BY <1>7, <1>12, ZenonT(30) DEF HistoryKnown, ChatKnown
  <2>3. NetExact(shown'.net) /\ (~shown'.needs => shown'.net.late = {})
    BY <1>7, <1>9
  <2> QED
    BY <2>1, <2>2, <2>3, <1>7, <1>8 DEF ShownKnown, NetExact
<1>14. CaughtUpIsExact'
  <2>1. Hidden(n) \subseteq 1 .. n
    BY <1>8, HiddenIsWritten DEF AInv
  <2>2. ASSUME ~shown'.needs
        PROVE  ExactFor(A, n)'
    <3>1. ExactFor(A, n)
      BY <2>2, <1>6, <1>7 DEF AInv, CaughtUpIsExact, ExactFor
    <3> QED
      BY <3>1, <2>1, <1>3, <1>8, ExactKept
  <2> QED
    BY <2>2, <1>7, CaughtUpNext
<1>15. StudentEvidenceLive'
  <2>1. \A k \in 1 .. Len(log') : t[k] = "on" => k <= n
    BY <1>1, <1>2, <1>10 DEF TextsKnown
  <2>2. ASSUME ~shown'.needs
        PROVE  LiveFor(s, t, n)'
    <3>1. LiveFor(s, t, n)
      BY <2>2, <1>6, <1>7 DEF AInv, StudentEvidenceLive, LiveFor, Bears
    <3> QED
      BY <3>1, <2>1, <1>3, <1>8, LiveKept
  <2> QED
    BY <2>2, <1>7, LiveNext
<1> QED
  BY <1>5, <1>11, <1>13, <1>14, <1>15 DEF AInv

\* The versions of a message in a log that has grown by one event.
LEMMA GrownAlive ==
    ASSUME LogKept, NEW n, n = Len(log), NEW m
    PROVE  /\ Alive(m, n)' <=> Alive(m, n)
           /\ \A i \in 1 .. n : VersionOf(i, m)' <=> VersionOf(i, m)
<1>1. \A i \in 1 .. n : log'[i] = log[i]
  BY DEF LogKept
<1> QED
  BY <1>1 DEF Alive, VersionOf

\* What Record appends, and to which log.
Appended(e, op, m, a, r, i, c) ==
    /\ log' = Append(log, e) /\ Len(log) < MaxEvents /\ UNCHANGED <<texts, shown>>
    /\ e.op = op /\ e.msg = m /\ e.actor = a /\ e.offset = Clock[a] /\ e.reply = r
    /\ e.edge = c /\ e.target = i
    /\ e.source = IF i # 0 /\ log[i].op = "amend" THEN log[i].source ELSE i
    /\ log'[Len(log) + 1] = e /\ LogKept

\* Record appends just that.
LEMMA RecordedEvent ==
    ASSUME AInv, NEW op \in Versions \cup Reviews, NEW m \in Messages \cup {None}, NEW a \in Actors,
           NEW r \in Messages \cup {None}, NEW nova \in BOOLEAN, NEW i \in 0 .. Len(log),
           NEW c \in Links \cup {None}, Record(op, m, a, r, nova, i, c)
    PROVE  \E e \in Event : Appended(e, op, m, a, r, i, c)
<1>1. log \in Seq(Event) /\ Len(log) \in Nat
  BY DEF AInv, LogKnown
<1>2. Clock[a] \in Int
  BY AnalysisAssumption
<1> DEFINE src == IF i # 0 /\ log[i].op = "amend" THEN log[i].source ELSE i
           e == [op |-> op, msg |-> m, actor |-> a, offset |-> Clock[a],
                 reply |-> r, nova |-> nova, edge |-> c, target |-> i, source |-> src]
<1>3. src \in Nat
  <2>1. CASE i # 0 /\ log[i].op = "amend"
    <3>1. i \in 1 .. Len(log)
      BY <2>1, <1>1
    <3>2. log[i] \in Event
      BY <3>1, EventFacts DEF AInv
    <3> QED
      BY <2>1, <3>2 DEF Event
  <2> QED
    BY <2>1
<1>4. e \in Event
  BY <1>2, <1>3 DEF Event
<1>5. /\ log' = Append(log, e) /\ Len(log) < MaxEvents /\ UNCHANGED <<texts, shown>>
  BY DEF Record
<1>6. /\ e.op = op /\ e.msg = m /\ e.actor = a /\ e.offset = Clock[a] /\ e.reply = r
      /\ e.edge = c /\ e.target = i /\ e.source = src
  OBVIOUS
<1> HIDE DEF e
<1>7. log'[Len(log) + 1] = e /\ LogKept
  BY <1>1, <1>4, <1>5, AppendProperties DEF LogKept
<1> QED
  BY <1>4, <1>5, <1>6, <1>7 DEF Appended

\* message.add
LEMMA AddStep ==
    ASSUME AInv, NEW m \in Messages, NEW r \in Messages \cup {None}, NEW nova \in BOOLEAN,
           Add(m, r, nova)
    PROVE  AInv'
<1>1. PICK n : n = Len(log)
  OBVIOUS
<1>2. n \in Nat /\ n \in 0 .. Len(log) /\ LogKnown
  BY <1>1 DEF AInv, LogKnown
<1>3. Author[m] \in Actors /\ Clock[Agent] = 0
  BY AnalysisAssumption DEF Actors
<1>4. PICK e \in Event : Appended(e, "add", m, Author[m], r, 0, None)
  <2>1. Record("add", m, Author[m], r, nova, 0, None)
    BY DEF Add
  <2>2. "add" \in Versions \cup Reviews /\ 0 \in 0 .. Len(log)
    BY <1>1, <1>2 DEF Versions
  <2> QED
    BY <2>1, <2>2, <1>3, RecordedEvent
<1>5. \A i \in 1 .. n : ~VersionOf(i, m)
  BY <1>1, <1>2 DEF Add, Latest, VersionOf, Versions
<1>6. r # None => Alive(r, n)
  BY <1>1, <1>2, StandingIsAlive DEF Add
<1>7. \A i \in 1 .. n : ~VersionOf(i, m)'
  BY <1>1, <1>4, <1>5, GrownAlive DEF Appended
<1>8. r # None => Alive(r, n)'
  BY <1>1, <1>4, <1>6, GrownAlive DEF Appended
<1>9. PICK new : new = n + 1
  OBVIOUS
<1>10. log'[new] = e /\ new - 1 = n
  BY <1>1, <1>2, <1>4, <1>9 DEF Appended
<1>11. EventKnown(new)'
  BY <1>3, <1>4, <1>7, <1>8, <1>10 DEF EventKnown, Appended
<1> QED
  BY <1>1, <1>4, <1>9, <1>11, RecordStep DEF Appended

\* All versions of a message that is there reply to the same message as its last one.
LEMMA SameReply ==
    ASSUME LogKnown, NEW n \in 0 .. Len(log), NEW m, Standing(m, n),
           NEW i \in 1 .. n, log[i].msg = m, log[i].op \in {"add", "revise"}
    PROVE  log[i].reply = log[Max(Latest(m, n))].reply
<1>1. i \in Latest(m, n)
  BY DEF Latest
<1> DEFINE x == Max(Latest(m, n))
<1>2. /\ x \in 1 .. n /\ VersionOf(x, m)
      /\ \A j \in 1 .. n : VersionOf(j, m) => j <= x
  BY <1>1, LastVersion
<1>3. log[x].op # "retract"
  BY DEF Standing
<1> HIDE DEF x
<1>4. VersionOf(i, m) /\ i <= x /\ n <= Len(log) /\ Len(log) \in Nat /\ n \in Nat
  BY <1>2 DEF VersionOf, Versions, LogKnown
<1>5. x \in 1 .. Len(log) /\ log[x].msg = m /\ log[x].op \in {"add", "revise"}
  BY <1>2, <1>3, <1>4 DEF VersionOf, Versions
<1>6. EventKnown(x)
  BY <1>5 DEF LogKnown
<1>7. CASE i = x
  BY <1>7 DEF x
<1>8. CASE i # x
  <2>1. i \in 1 .. x - 1
    BY <1>8, <1>4, <1>5
  <2>2. log[x].op = "revise"
    BY <2>1, <1>4, <1>5, <1>6 DEF EventKnown
  <2>3. log[i].reply = log[x].reply
    BY <2>1, <2>2, <1>5, <1>6 DEF EventKnown
  <2> QED
    BY <2>3 DEF x
<1> QED
  BY <1>7, <1>8

\* message.revise
LEMMA ReviseStep ==
    ASSUME AInv, NEW m \in Messages, Revise(m)
    PROVE  AInv'
<1>1. PICK n : n = Len(log)
  OBVIOUS
<1>2. n \in Nat /\ n \in 0 .. Len(log) /\ LogKnown
  BY <1>1 DEF AInv, LogKnown
<1>3. Author[m] \in Actors /\ Author[m] # Agent
  BY AnalysisAssumption DEF Actors, Revise
<1>4. PICK x : x = Max(Latest(m, n))
  OBVIOUS
<1>5. Standing(m, n) /\ Latest(m, n) # {}
  BY <1>1 DEF Revise, Standing
<1>6. x \in 1 .. Len(log)
  BY <1>1, <1>2, <1>4, <1>5, LastVersion
<1>7. PICK r : r = log[x].reply
  OBVIOUS
<1>8. r \in Messages \cup {None} /\ log[x].nova \in BOOLEAN
  BY <1>2, <1>6, <1>7, EventFacts
<1>9. (r = None \/ Standing(r, n)) /\ Record("revise", m, Author[m], r, log[x].nova, 0, None)
  BY <1>1, <1>4, <1>7 DEF Revise
<1>10. PICK e \in Event : Appended(e, "revise", m, Author[m], r, 0, None)
  <2>1. "revise" \in Versions \cup Reviews /\ 0 \in 0 .. Len(log)
    BY <1>1, <1>2 DEF Versions
  <2>2. PICK nova : nova = log[x].nova
    OBVIOUS
  <2> QED
    BY <2>1, <2>2, <1>3, <1>8, <1>9, RecordedEvent
<1>11. Alive(m, n) /\ (r # None => Alive(r, n))
  BY <1>2, <1>5, <1>9, StandingIsAlive
<1>12. Alive(m, n)' /\ (r # None => Alive(r, n)')
  BY <1>1, <1>10, <1>11, GrownAlive DEF Appended
<1>13. \A i \in 1 .. n : log'[i].msg = m /\ log'[i].op \in {"add", "revise"} => log'[i].reply = r
  <2>1. \A i \in 1 .. n : log[i].msg = m /\ log[i].op \in {"add", "revise"} => log[i].reply = r
    BY <1>2, <1>4, <1>5, <1>7, SameReply
  <2> QED
    BY <2>1, <1>1, <1>10 DEF Appended, LogKept
<1>14. PICK new : new = n + 1
  OBVIOUS
<1>15. log'[new] = e /\ new - 1 = n
  BY <1>1, <1>2, <1>10, <1>14 DEF Appended
<1>16. EventKnown(new)'
  BY <1>3, <1>10, <1>12, <1>13, <1>15 DEF EventKnown, Appended
<1> QED
  BY <1>1, <1>10, <1>14, <1>16, RecordStep DEF Appended

\* message.retract
LEMMA RetractStep ==
    ASSUME AInv, NEW m \in Messages, NEW a \in Actors, Retract(m, a)
    PROVE  AInv'
<1>1. PICK n : n = Len(log)
  OBVIOUS
<1>2. n \in Nat /\ n \in 0 .. Len(log) /\ LogKnown
  BY <1>1 DEF AInv, LogKnown
<1>3. a # Agent /\ Standing(m, n) /\ Record("retract", m, a, None, FALSE, 0, None)
  BY <1>1 DEF Retract
<1>4. PICK e \in Event : Appended(e, "retract", m, a, None, 0, None)
  <2>1. "retract" \in Versions \cup Reviews /\ 0 \in 0 .. Len(log) /\ None \in Messages \cup {None}
        /\ FALSE \in BOOLEAN
    BY <1>1, <1>2 DEF Versions
  <2> QED
    BY <2>1, <1>3, RecordedEvent
<1>5. Alive(m, n)
  BY <1>2, <1>3, StandingIsAlive
<1>6. Alive(m, n)'
  BY <1>1, <1>4, <1>5, GrownAlive DEF Appended
<1>7. PICK new : new = n + 1
  OBVIOUS
<1>8. log'[new] = e /\ new - 1 = n
  BY <1>1, <1>2, <1>4, <1>7 DEF Appended
<1>9. EventKnown(new)'
  BY <1>3, <1>4, <1>6, <1>8 DEF EventKnown, Appended
<1> QED
  BY <1>1, <1>4, <1>7, <1>9, RecordStep DEF Appended

\* A review or a correction of evidence or of a text.
LEMMA ReviewStep ==
    ASSUME AInv, NEW op \in TextReviews, NEW i \in 1 .. Len(log), Review(op, i)
    PROVE  AInv'
<1>1. PICK n : n = Len(log)
  OBVIOUS
<1>2. n \in Nat /\ n \in 0 .. Len(log) /\ LogKnown /\ Len(log) <= MaxEvents /\ MaxEvents \in Nat
  BY <1>1, AnalysisAssumption DEF AInv, LogKnown
<1>3. /\ log[i].msg \in Messages \cup {None} /\ EventKnown(i)
      /\ i \in 0 .. Len(log) /\ i # 0 /\ Teacher \in Actors
  BY <1>1, <1>2, EventFacts DEF Actors
<1>4. PICK m : m = log[i].msg
  OBVIOUS
<1>5. PICK e \in Event : Appended(e, op, m, Teacher, None, i, None)
  <2>1. /\ op \in Versions \cup Reviews /\ None \in Messages \cup {None} /\ FALSE \in BOOLEAN
        /\ None \in Links \cup {None}
    BY DEF Reviews
  <2>2. Record(op, m, Teacher, None, FALSE, i, None)
    BY <1>4 DEF Review
  <2> QED
    BY <2>1, <2>2, <1>3, <1>4, RecordedEvent
<1>6. op \in {"hide", "withdraw", "amend"} => log[i].op \in {"add", "revise", "amend"}
  <2>1. texts[i] # "none" => log[i].op \in {"add", "revise", "amend"}
    BY <1>1, <1>2 DEF AInv, TextsKnown
  <2>2. TargetFound(op, i)
    BY DEF Review
  <2> QED
    BY <2>1, <2>2 DEF TargetFound
<1>7. log[i].op \in {"add", "revise", "amend"} =>
        e.source \in 1 .. n /\ log'[e.source].msg = m /\ log'[e.source].op \in {"add", "revise"}
  <2>1. CASE log[i].op = "amend"
    <3>1. /\ e.source = log[i].source /\ log[i].source \in 1 .. i - 1 /\ log[log[i].source].msg = m
          /\ log[log[i].source].op \in {"add", "revise"}
      BY <2>1, <1>3, <1>4, <1>5 DEF Appended, EventKnown
    <3>2. log[i].source \in 1 .. Len(log)
      BY <3>1, <1>1, <1>2
    <3> QED
      BY <3>1, <3>2, <1>1, <1>5 DEF Appended, LogKept
  <2>2. CASE log[i].op \in {"add", "revise"}
    <3>1. e.source = i
      BY <2>2, <1>3, <1>5 DEF Appended
    <3> QED
      BY <3>1, <2>2, <1>1, <1>4, <1>5 DEF Appended, LogKept
  <2> QED
    BY <2>1, <2>2
<1>8. PICK new : new = n + 1
  OBVIOUS
<1>9. log'[new] = e /\ new - 1 = n /\ log'[i] = log[i]
  BY <1>1, <1>2, <1>5, <1>8 DEF Appended, LogKept
<1>10. op \notin Versions
  BY DEF TextReviews, Versions
<1>11. EventKnown(new)'
  <2>1. /\ e.op = op /\ e.op \notin {"add", "revise", "retract"} /\ e.msg = m
        /\ e.target = i /\ i \in 1 .. n
    BY <1>1, <1>5, <1>10 DEF Appended, Versions
  <2>2. op \in {"hide", "withdraw", "amend"} =>
          /\ e.source \in 1 .. n /\ log'[e.source].op \in {"add", "revise"} /\ log'[e.source].msg = m
          /\ log'[i].op \in {"add", "revise", "amend"}
    BY <1>6, <1>7, <1>9
  <2> QED
    BY <2>1, <2>2, <1>9, <1>10 DEF EventKnown
<1> QED
  BY <1>1, <1>5, <1>8, <1>11, RecordStep DEF Appended

\* A review or a correction of an edge.
LEMMA ReviewEdgeStep ==
    ASSUME AInv, NEW op \in EdgeReviews, NEW c \in Links, ReviewEdge(op, c)
    PROVE  AInv'
<1>1. PICK n : n = Len(log)
  OBVIOUS
<1>2. n \in Nat /\ LogKnown /\ Teacher \in Actors
  BY <1>1 DEF AInv, LogKnown, Actors
<1>3. PICK e \in Event : Appended(e, op, None, Teacher, None, 0, c)
  <2>1. /\ op \in Versions \cup Reviews /\ None \in Messages \cup {None} /\ FALSE \in BOOLEAN
        /\ c \in Links \cup {None} /\ 0 \in 0 .. Len(log)
    BY <1>1, <1>2 DEF Reviews
  <2>2. Record(op, None, Teacher, None, FALSE, 0, c)
    BY DEF ReviewEdge
  <2> QED
    BY <2>1, <2>2, <1>2, RecordedEvent
<1>4. PICK new : new = n + 1
  OBVIOUS
<1>5. log'[new] = e /\ new - 1 = n
  BY <1>1, <1>2, <1>3, <1>4 DEF Appended
<1>6. e.op \notin Versions /\ e.op \notin {"hide", "withdraw", "amend"}
  BY <1>3 DEF Appended, EdgeReviews, Versions
<1>7. EventKnown(new)'
  BY <1>5, <1>6 DEF EventKnown, Versions
<1> QED
  BY <1>1, <1>3, <1>4, <1>7, RecordStep DEF Appended

\* Students are shown what was approved of what counts.
LEMMA StudentIsLive ==
    ASSUME NEW n, NEW t, NEW A, ExactFor(A, n), A \subseteq Said(n)
    PROVE  LiveFor(StudentEdges(A, t, n), t, n)
<1>1. ASSUME NEW i \in A
      PROVE  i \notin Hidden(n) /\ (Hidden(n) = {} => i \in LastVersions(n))
  BY DEF ExactFor
<1>2. ASSUME NEW c \in StudentEdges(A, t, n)
      PROVE  c \notin Dropped(n) /\ \E i \in A : Bears(i, c, t, n)
  <2>1. c \in Edges(A, t, n) /\ c \notin Dropped(n)
    BY DEF StudentEdges, TeacherEdges
  <2>2. PICK j \in A : ClaimOf(j, t) = c
    BY <2>1 DEF Edges
  <2>3. c \in ApprovedEdges(n) \/ \E i \in A \cap Approved(n) : ClaimOf(i, t) = c
    BY DEF StudentEdges
  <2> QED
    BY <2>1, <2>2, <2>3, <1>1 DEF Bears
<1> QED
  BY <1>2 DEF LiveFor

\* A job publishes a projection of the first n events, and stores their texts.
LEMMA MaterializeStep ==
    ASSUME AInv, NEW n \in 0 .. Len(log), shown.through <= n,
           NEW kind \in {"consume", "replay"}, Materialize(n, kind)
    PROVE  AInv'
<1>1. log \in Seq(Event) /\ Len(log) \in Nat /\ MaxEvents \in Nat /\ Len(log) <= MaxEvents /\ LogKnown
  BY AnalysisAssumption DEF AInv, LogKnown
<1>2. PICK net, A, t, s, m :
        /\ net = Project(n, kind).trace /\ A = Project(n, kind).echo.active
        /\ t = ApplyReviews(PersistDirect(texts, n), n)
        /\ s = StudentEdges(A, t, n) /\ m = shown.through
  OBVIOUS
<1>3. /\ net \in NetState /\ A = net.active /\ A \in SUBSET (1 .. n)
      /\ Project(n, kind).echo.late = net.late /\ (kind = "replay" => net.late = {})
      /\ HistoryKnown(net.history, n) /\ NetExact(net)
  BY <1>1, <1>2, ProjectFacts DEF ProjectorKnown, MapsKnown
<1>4. /\ log' = log /\ texts' = t
      /\ shown'.through = n /\ shown'.echo = A /\ shown'.net = net /\ shown'.student = s
      /\ shown'.needs <=> (kind = "consume" /\ Late(n, kind) # {})
  BY <1>2 DEF Materialize
<1>5. ~shown'.needs => net.late = {}
  BY <1>2, <1>3, <1>4 DEF Late
<1>6. LogKept
  BY <1>1, <1>4 DEF LogKept
<1>7. LogKnown' /\ Len(log') <= MaxEvents
  <2>1. \A j \in 1 .. Len(log) : EventKnown(j)'
    BY <1>1, <1>6, EventKept DEF LogKnown
  <2> QED
    BY <2>1, <1>1, <1>4 DEF LogKnown
<1>8. TextsKnown(t, n)
  <2>1. m \in 0 .. n /\ TextsKnown(texts, m)
    BY <1>1, <1>2 DEF AInv, ShownKnown
  <2> QED
    BY <2>1, <1>1, <1>2, StoredFacts
<1>9. TextsKnown(texts, shown.through)'
  <2>1. TextsKnown(t, n)'
    BY <1>1, <1>6, <1>8, TextsKept
  <2> QED
    BY <2>1, <1>4 DEF TextsKnown
<1>10. ShownKnown'
  <2>1. HistoryKnown(net.history, n)'
    <3>1. net.history \in Seq(Input)
      BY <1>3 DEF NetState
    <3> QED
      BY <3>1, <1>3, <1>6, HistoryKept
  <2>2. HistoryKnown(shown.net.history, shown.through)'
    BY <2>1, <1>4 DEF HistoryKnown, ChatKnown
  <2>3. NetExact(shown'.net) /\ (~shown'.needs => shown'.net.late = {})
    BY <1>3, <1>4, <1>5
  <2>4. n \in 0 .. Len(log')
    BY <1>4
  <2> QED
    BY <2>2, <2>3, <2>4, <1>3, <1>4 DEF ShownKnown, NetExact
<1>11. ASSUME ~shown'.needs
       PROVE  ExactFor(A, n) /\ A \subseteq Said(n)
  <2>1. Project(n, kind).trace.late = {}
    BY <1>2, <1>5, <1>11
  <2>2. /\ ExactFor(Project(n, kind).trace.active, n)
        /\ Project(n, kind).trace.active \subseteq Said(n)
    BY <2>1, <1>1, ExactWhenNothingLate
  <2> QED
    BY <2>2, <1>2, <1>3
<1>12. CaughtUpIsExact'
  <2>1. Hidden(n) \subseteq 1 .. n
    BY <1>1, HiddenIsWritten
  <2>2. ~shown'.needs => ExactFor(A, n)'
    BY <2>1, <1>3, <1>6, <1>11, ExactKept
  <2> QED
    BY <2>2, <1>4, CaughtUpNext
<1>13. StudentEvidenceLive'
  <2>1. \A k \in 1 .. Len(log') : t[k] = "on" => k <= n
    BY <1>1, <1>4, <1>8 DEF TextsKnown
  <2>2. ASSUME ~shown'.needs
        PROVE  LiveFor(s, t, n)'
    <3>1. LiveFor(s, t, n)
      BY <2>2, <1>2, <1>11, StudentIsLive
    <3> QED
      BY <3>1, <2>1, <1>6, LiveKept
  <2> QED
    BY <2>2, <1>4, LiveNext
<1> QED
  BY <1>7, <1>9, <1>10, <1>12, <1>13 DEF AInv

\* Every step keeps the invariant.
LEMMA ANext == AInv /\ [Next]_vars => AInv'
<1> SUFFICES ASSUME AInv, [Next]_vars PROVE AInv'
  OBVIOUS
<1>1. ASSUME NEW m \in Messages, NEW r \in Messages \cup {None}, NEW nova \in BOOLEAN, Add(m, r, nova)
      PROVE  AInv'
  BY <1>1, AddStep
<1>2. ASSUME NEW m \in Messages, Revise(m)
      PROVE  AInv'
  BY <1>2, ReviseStep
<1>3. ASSUME NEW m \in Messages, NEW a \in Actors, Retract(m, a)
      PROVE  AInv'
  BY <1>3, RetractStep
<1>4. ASSUME NEW op \in TextReviews, NEW i \in 1 .. Len(log), Review(op, i)
      PROVE  AInv'
  BY <1>4, ReviewStep
<1>10. ASSUME NEW op \in EdgeReviews, NEW c \in Links, ReviewEdge(op, c)
       PROVE  AInv'
  BY <1>10, ReviewEdgeStep
<1>5. PICK k : k = shown.through
  OBVIOUS
<1>6. k \in Nat /\ k \in 0 .. Len(log) /\ Len(log) \in Nat
  BY <1>5 DEF AInv, ShownKnown, LogKnown
<1>7. CASE Consume
  <2>1. PICK n : n = k + 1
    OBVIOUS
  <2>2. n \in 0 .. Len(log) /\ shown.through <= n /\ Materialize(n, "consume")
    BY <2>1, <1>5, <1>6, <1>7 DEF Consume
  <2> QED
    BY <2>2, MaterializeStep
<1>8. CASE Replay
  <2>1. shown.through <= k /\ Materialize(k, "replay")
    BY <1>5, <1>6, <1>8 DEF Replay
  <2> QED
    BY <2>1, <1>6, MaterializeStep
<1>9. CASE UNCHANGED vars
  <2>1. LogKnown' /\ Len(log') <= MaxEvents
    BY <1>9 DEF vars, AInv, LogKnown, EventKnown, Alive, VersionOf
  <2>2. TextsKnown(texts, shown.through)'
    BY <1>9 DEF vars, AInv, TextsKnown
  <2>3. HistoryKnown(shown.net.history, shown.through)'
    BY <1>9 DEF vars, AInv, ShownKnown, HistoryKnown, ChatKnown, Time
  <2>4. ShownKnown'
    BY <2>3, <1>9 DEF vars, AInv, ShownKnown, NetExact
  <2>5. CaughtUpIsExact' <=> CaughtUpIsExact
    <3>1. \A n : Hidden(n)' = Hidden(n) /\ LastVersions(n)' = LastVersions(n)
      BY <1>9 DEF vars, Hidden, LastVersions, Said, Latest
    <3>2. log' = log /\ shown' = shown
      BY <1>9 DEF vars
    <3> QED
      BY <3>1, <3>2 DEF CaughtUpIsExact
  <2>6. StudentEvidenceLive' <=> StudentEvidenceLive
    <3>1. \A n : /\ Hidden(n)' = Hidden(n) /\ LastVersions(n)' = LastVersions(n)
                 /\ Approved(n)' = Approved(n) /\ ApprovedEdges(n)' = ApprovedEdges(n)
                 /\ Said(n)' = Said(n) /\ Dropped(n)' = Dropped(n)
      BY <1>9 DEF vars, Hidden, LastVersions, Said, Latest, Approved, ApprovedEdges, Dropped
    <3>2. \A i, t : ClaimOf(i, t)' = ClaimOf(i, t)
      BY <1>9 DEF vars, ClaimOf, Corrections
    <3>3. texts' = texts /\ shown' = shown
      BY <1>9 DEF vars
    <3> QED
      BY <3>1, <3>2, <3>3 DEF StudentEvidenceLive
  <2> QED
    BY <2>1, <2>2, <2>4, <2>5, <2>6 DEF AInv
<1> QED
  BY <1>1, <1>2, <1>3, <1>4, <1>7, <1>8, <1>9, <1>10 DEF Next

\* The invariant says all that a run checks of what is published.
LEMMA AInvIsSafe == AInv => AnalysisSafe
<1> SUFFICES ASSUME AInv PROVE AnalysisSafe
  OBVIOUS
<1>1. PICK n, net : n = shown.through /\ net = shown.net
  OBVIOUS
<1>2. /\ LogKnown /\ Len(log) \in Nat /\ Len(log) <= MaxEvents /\ MaxEvents \in Nat
      /\ n \in 0 .. Len(log) /\ n \in Nat /\ TextsKnown(texts, n)
  BY <1>1, AnalysisAssumption DEF AInv, ShownKnown, LogKnown
<1>3. /\ net \in NetState /\ HistoryKnown(net.history, n) /\ NetExact(net)
      /\ ~shown.needs => net.late = {}
  BY <1>1 DEF AInv, ShownKnown
<1>4. MapsAgree
  BY DEF AInv, ShownKnown, MapsAgree
<1>5. WindowExplained
  <2>1. NewNet \in NetState
    BY <1>2, ProjectorFresh
  <2>2. \A from, to : WindowFits(net, from, to, n)
    BY <2>1, <1>2, <1>3, WindowFacts
  <2>3. PICK to : to = SessionEnd(n)
    OBVIOUS
  <2>4. ASSUME NEW from
        PROVE  LET w == Window(net, from, to)
               IN /\ \A i \in w.active \ net.active :
                       \/ i \in net.late
                       \/ \E k \in i + 1 .. n : log[k].msg = log[i].msg
                                                 /\ ~(from <= Time(k) /\ Time(k) <= to)
                  /\ ~shown.needs => \A i \in net.active :
                       from <= Time(i) /\ Time(i) <= to => i \in w.active
    BY <2>2, <1>3 DEF WindowFits, InWindow
  <2> QED
    BY <2>3, <2>4, <1>1 DEF WindowExplained
<1>6. FailuresKnown
  <2>1. ASSUME NEW k \in 0 .. Len(log), n <= k, NEW kind
        PROVE  \/ Dropped(k) # {} /\ ~TargetsThere(k, kind)
               \/ kind = "consume" /\ \E q \in requests : q.reason = "late_event"
               \/ Publishable(k, kind)
               \/ NovaUnheard(k, kind)
    <3>1. n \in 0 .. k
      BY <2>1, <1>2
    <3>2. Unambiguous(k) /\ (AllMapped(k, kind) \/ NovaUnheard(k, kind))
      BY <3>1, <1>2, CorrectedOnce, MappedUnlessUnheard
    <3>3. TargetsThere(k, kind) \/ Dropped(k) # {}
      BY DEF TargetsThere, Dropped
    <3>4. Conflicting(k, kind) => kind = "consume" /\ \E q \in requests : q.reason = "late_event"
      BY DEF Conflicting
    <3> QED
      BY <3>2, <3>3, <3>4 DEF Publishable
  <2>2. n < Len(log) => n + 1 \in 0 .. Len(log) /\ n <= n + 1
    BY <1>2
  <2>3. n < Len(log) =>
          \/ Dropped(n + 1) # {} /\ ~TargetsThere(n + 1, "consume")
          \/ "consume" = "consume" /\ \E q \in requests : q.reason = "late_event"
          \/ Publishable(n + 1, "consume")
          \/ NovaUnheard(n + 1, "consume")
    BY <2>1, <2>2
  <2>4. \/ Dropped(n) # {} /\ ~TargetsThere(n, "replay")
        \/ "replay" = "consume" /\ \E q \in requests : q.reason = "late_event"
        \/ Publishable(n, "replay")
        \/ NovaUnheard(n, "replay")
    BY <2>1, <1>2
  <2> QED
    BY <2>3, <2>4, <1>1 DEF FailuresKnown
<1>7. OneTextPerMessage
  <2>1. \A i \in 1 .. Len(log) : i \in 1 .. MaxEvents
    BY <1>2
  <2> QED
    BY <2>1, <1>2 DEF TextsKnown, OneTextPerMessage
<1>8. StudentEvidenceLive
  BY DEF AInv
<1> QED
  BY <1>4, <1>5, <1>6, <1>7, <1>8 DEF AnalysisSafe

\* A projection that does not ask for a replay counts the last version of every
\* message: whatever the clocks, revisions, retractions, corrections and hidden
\* evidence, what _materialize publishes is what the room's events say.
THEOREM AnalysisIsExact == Spec => []CaughtUpIsExact
<1>1. AInv => CaughtUpIsExact
  BY DEF AInv
<1> QED
  BY <1>1, AInit, ANext, PTL DEF Spec

\* The two algorithms agree, the windows differ from the network only for a reason,
\* a message has one text in force, students see only approved edges with live
\* evidence, and the worker fails for good only on a mention of Nova before she is
\* heard, a retracted edge that is not there, or an event after a late one.
THEOREM AnalysisIsSafe == Spec => []AnalysisSafe
  BY AInit, ANext, AInvIsSafe, PTL DEF Spec
===============================================================================

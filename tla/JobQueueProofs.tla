---------------------------- MODULE JobQueueProofs ----------------------------
(***************************************************************************)
(* Proofs about the job queue, for any number of jobs, workers, rooms and   *)
(* attempts.                                                               *)
(***************************************************************************)
EXTENDS JobQueue, TLAPS

\* A worker between claims holds none; any other holds one.
Attached == \A w \in Workers : phase[w] # "idle" => claim[w] \in Claims

\* TypeOK alone is not inductive: Send puts claim[w] in flight.
TInv == TypeOK /\ Attached

\* The empty queue is well typed.
LEMMA InitType == Init => TInv
  BY MaxAttemptsAssumption DEF Init, TInv, Attached, TypeOK, Status, Phase

\* Every step of the queue keeps the state well typed; in particular attempts
\* never exceeds max_attempts.
LEMMA NextType == TInv /\ [Next]_vars => TInv'
<1> USE DEF TInv, Attached, TypeOK, Claims, Status, Phase, workerVars, jobVars
<1> SUFFICES ASSUME TInv, [Next]_vars PROVE TInv'
  OBVIOUS
<1>1. ASSUME NEW j \in Jobs, QueueStep(j) PROVE TInv'
  BY <1>1 DEF QueueStep, Enqueue, BecomeReady, LeaseExpires
<1>2. ASSUME NEW r \in Rooms, CancelRoomJobs(r) PROVE TInv'
  BY <1>2 DEF CancelRoomJobs, CancelAll, CancelRows
<1>3. ASSUME NEW r \in Rooms, DeleteRoom(r) PROVE TInv'
  BY <1>3 DEF DeleteRoom, CancelAll, CancelRows
<1>4. ASSUME NEW j \in Jobs, CancelRun(j) PROVE TInv'
  BY <1>4 DEF CancelRun, CancelAll, CancelRows
<1>5. ASSUME NEW w \in Workers, NEW j \in Jobs, Claim(w, j) PROVE TInv'
  <2>1. CASE Recover(j)
    BY <2>1 DEF Recover
  <2>2. CASE Exhaust(j)
    BY <2>2 DEF Exhaust
  <2>3. CASE Pick(w, j)
    <3>1. attempts[j] + 1 \in 0 .. MaxAttempts
      BY <2>3, MaxAttemptsAssumption DEF Pick
    <3>2. <<j, generation[j] + 1>> \in Jobs \X Nat
      OBVIOUS
    <3> QED
      BY <2>3, <3>1, <3>2 DEF Pick
  <2> QED
    BY <1>5, <2>1, <2>2, <2>3 DEF Claim
<1>6. ASSUME NEW w \in Workers, AttemptStep(w) PROVE TInv'
  <2>1. CASE Send(w)
    <3>1. claim[w] \in Jobs \X Nat
      BY <2>1 DEF Send
    <3> QED BY <2>1, <3>1 DEF Send
  <2>2. CASE Timeout(w)
    BY <2>2 DEF Timeout
  <2>4. CASE Heartbeat(w)
    BY <2>4 DEF Heartbeat
  <2>5. CASE HeartbeatError(w)
    BY <2>5 DEF HeartbeatError
  <2>6. CASE Succeed(w)
    BY <2>6 DEF Succeed, Settle, EndAttempt
  <2>7. CASE Fail(w)
    BY <2>7, ZenonT(30) DEF Fail, Settle, EndAttempt
  <2>8. CASE LoseLease(w) \/ Crash(w)
    BY <2>8 DEF LoseLease, Crash, EndAttempt
  <2> QED
    BY <1>6, <2>1, <2>2, <2>4, <2>5, <2>6, <2>7, <2>8 DEF AttemptStep
<1>7. ASSUME NEW c \in inflight, RequestStep(c) PROVE TInv'
  <2>1. CASE Commit(c)
    BY <2>1 DEF Commit, CompleteBusiness, Answer
  <2>4. CASE CommitClosing(c)
    <3>1. status' \in [Jobs -> Status] /\ expired' \in [Jobs -> BOOLEAN]
      BY <2>4 DEF CommitClosing, CancelRows
    <3>2. effects' \in [Jobs -> Nat] /\ receipt' \in [Jobs -> SUBSET Nat]
      BY <2>4 DEF CommitClosing, CompleteBusiness
    <3>3. /\ phase' \in [Workers -> Phase]
          /\ \A w \in Workers : phase'[w] # "idle" => claim[w] \in Claims
      BY <2>4 DEF CommitClosing, CompleteBusiness, Answer
    <3> QED
      BY <2>4, <3>1, <3>2, <3>3 DEF CommitClosing, CompleteBusiness
  <2>2. CASE RejectStale(c)
    BY <2>2 DEF RejectStale, Answer
  <2>3. ASSUME NEW p \in {"failing", "refused"}, Refuse(c, p) PROVE TInv'
    BY <2>3 DEF Refuse, Answer
  <2> QED
    BY <1>7, <2>1, <2>2, <2>3, <2>4 DEF RequestStep
<1>8. CASE UNCHANGED vars
  BY <1>8 DEF vars
<1>9. ASSUME NEW w \in Workers, Skip(w) PROVE TInv'
  BY <1>9 DEF Skip
<1>10. ASSUME NEW w \in Workers, NEW p \in {"failing", "refused"}, HandlerError(w, p)
       PROVE  TInv'
  BY <1>10 DEF HandlerError
<1> QED
  BY <1>1, <1>2, <1>3, <1>4, <1>5, <1>6, <1>7, <1>8, <1>9, <1>10 DEF Next

\* Type correctness: attempts stays within max_attempts, and every claim and
\* every request in flight names a job.
THEOREM TypeCorrect == Spec => []TypeOK
<1>1. TInv => TypeOK
  BY DEF TInv
<1> QED
  BY <1>1, InitType, NextType, PTL DEF Spec

-----------------------------------------------------------------------------
(* The inductive invariant.                                                *)

\* Claims are drawn from claim_generation: none is newer than the row, and no
\* two workers hold the same one.
Drawn(c) == c[2] > 0 /\ c[2] <= generation[c[1]]

ClaimsDrawn ==
    /\ \A w \in Workers : claim[w] \in Claims => Drawn(claim[w])
    /\ \A c \in inflight : Drawn(c)
    /\ \A v, w \in Workers : claim[v] \in Claims /\ claim[v] = claim[w] => v = w

\* Only the latest claim can have a receipt, and a receipt is that of the
\* job's one effect.
ReceiptsMatch ==
    \A j \in Jobs :
        /\ receipt[j] \subseteq {generation[j]}
        /\ receipt[j] # {} => effects[j] = 1 /\ status[j] \in {"running", "cancelled"}

\* While the row is running, its receipt says whether the effect happened.
EffectsCounted ==
    \A j \in Jobs :
        /\ effects[j] \in {0, 1}
        /\ status[j] = "running" /\ effects[j] = 1 => generation[j] \in receipt[j]
        /\ status[j] = "succeeded" => effects[j] = 1
        /\ effects[j] = 1 => status[j] \in {"running", "succeeded", "cancelled"}

\* A claim makes one request: none is in flight or committed before Send, and a
\* request still in flight has not committed.
OneRequest ==
    /\ \A w \in Workers : phase[w] = "handling" =>
          /\ claim[w] \notin inflight
          /\ Current(claim[w]) => claim[w][2] \notin receipt[claim[w][1]]
    /\ \A c \in inflight : Current(c) => c[2] \notin receipt[c[1]]

\* An attempt is left to every row that waits for one.
AttemptsLeft ==
    \A j \in Jobs : status[j] \in {"absent", "queued", "retryable"} =>
                      attempts[j] < MaxAttempts

\* Work on j begins after the consume jobs before it have succeeded.
StreamOrdered ==
    \A j \in Jobs : \A p \in Prior(j) \cap Consume :
        /\ status[j] # "absent" => status[p] # "absent"
        /\ status[j] = "running" \/ effects[j] > 0 => status[p] = "succeeded"

Committing ==
    ClaimsDrawn /\ ReceiptsMatch /\ EffectsCounted /\ OneRequest /\ NoCompletionMissing

IInv == TInv /\ Committing /\ AttemptsLeft /\ StreamOrdered

-----------------------------------------------------------------------------

\* Two claims of the same job and generation are the same claim.
LEMMA SameClaim ==
  ASSUME NEW a \in Claims, NEW b \in Claims, a[1] = b[1], a[2] = b[2]
  PROVE  a = b
  BY DEF Claims

\* Every step keeps claims, receipts and effects consistent.
LEMMA NextCommitting ==
  ASSUME TInv, Committing, [Next]_vars, TInv' PROVE Committing'
<1> USE DEF TInv, Attached, TypeOK, Claims, Status, Phase, workerVars, jobVars,
            Committing, Current, Drawn, NoClaim,
            ClaimsDrawn, ReceiptsMatch, EffectsCounted, OneRequest,
            NoCompletionMissing
<1>1. ASSUME NEW j \in Jobs, QueueStep(j) PROVE Committing'
  <2>1. CASE Enqueue(j)
    BY <2>1 DEF Enqueue
  <2>2. CASE BecomeReady(j)
    BY <2>2 DEF BecomeReady
  <2>3. CASE LeaseExpires(j)
    BY <2>3 DEF LeaseExpires
  <2> QED
    BY <1>1, <2>1, <2>2, <2>3 DEF QueueStep
<1>2. ASSUME NEW r \in Rooms, CancelRoomJobs(r) PROVE Committing'
  BY <1>2 DEF CancelRoomJobs, CancelAll, CancelRows, Withdrawn, Live
<1>3. ASSUME NEW r \in Rooms, DeleteRoom(r) PROVE Committing'
  BY <1>3 DEF DeleteRoom, CancelAll, CancelRows, Live
<1>4. ASSUME NEW j \in Jobs, CancelRun(j) PROVE Committing'
  BY <1>4 DEF CancelRun, CancelAll, CancelRows
<1>5. ASSUME NEW w \in Workers, NEW j \in Jobs, Claim(w, j) PROVE Committing'
  <2>1. CASE Recover(j)
    <3>1. ClaimsDrawn'
      BY <2>1 DEF Recover
    <3>2. ReceiptsMatch'
      BY <2>1 DEF Recover
    <3>3. EffectsCounted'
      BY <2>1 DEF Recover
    <3>4. OneRequest'
      <4>1. ASSUME NEW v \in Workers, phase'[v] = "handling"
            PROVE  (/\ claim[v] \notin inflight
                    /\ Current(claim[v]) => claim[v][2] \notin receipt[claim[v][1]])'
        BY <2>1, <4>1 DEF Recover
      <4>2. ASSUME NEW e \in inflight', Current(e)'
            PROVE  (e[2] \notin receipt[e[1]])'
        BY <2>1, <4>2 DEF Recover
      <4> QED BY <4>1, <4>2
    <3>5. NoCompletionMissing'
      BY <2>1 DEF Recover
    <3> QED BY <3>1, <3>2, <3>3, <3>4, <3>5
  <2>2. CASE Exhaust(j)
    <3>1. ClaimsDrawn'
      BY <2>2 DEF Exhaust
    <3>2. ReceiptsMatch'
      BY <2>2 DEF Exhaust
    <3>3. EffectsCounted'
      BY <2>2 DEF Exhaust
    <3>4. OneRequest'
      <4>1. ASSUME NEW v \in Workers, phase'[v] = "handling"
            PROVE  (/\ claim[v] \notin inflight
                    /\ Current(claim[v]) => claim[v][2] \notin receipt[claim[v][1]])'
        BY <2>2, <4>1 DEF Exhaust
      <4>2. ASSUME NEW e \in inflight', Current(e)'
            PROVE  (e[2] \notin receipt[e[1]])'
        BY <2>2, <4>2 DEF Exhaust
      <4> QED BY <4>1, <4>2
    <3>5. NoCompletionMissing'
      BY <2>2 DEF Exhaust
    <3> QED BY <3>1, <3>2, <3>3, <3>4, <3>5
  <2>3. CASE Pick(w, j)
    <3>1. ClaimsDrawn'
      BY <2>3 DEF Pick
    <3>2. ReceiptsMatch' /\ EffectsCounted'
      BY <1>5, <2>3 DEF Pick, Claim, Candidate
    <3>3. OneRequest'
      BY <2>3 DEF Pick
    <3>4. NoCompletionMissing'
      BY <2>3 DEF Pick
    <3> QED BY <3>1, <3>2, <3>3, <3>4
  <2> QED
    BY <1>5, <2>1, <2>2, <2>3 DEF Claim
<1>6. ASSUME NEW w \in Workers, AttemptStep(w) PROVE Committing'
  <2>1. CASE Send(w)
    BY <2>1 DEF Send
  <2>2. CASE Timeout(w)
    BY <2>2 DEF Timeout
  <2>4. CASE Heartbeat(w) \/ HeartbeatError(w)
    BY <2>4 DEF Heartbeat, HeartbeatError
  <2>6. CASE Succeed(w)
    <3>1. ClaimsDrawn'
      BY <2>6 DEF Succeed, Settle, EndAttempt
    <3>2. ReceiptsMatch'
      BY <2>6 DEF Succeed, Settle, EndAttempt
    <3>3. EffectsCounted'
      BY <2>6 DEF Succeed, Settle, EndAttempt
    <3>4. OneRequest'
      BY <2>6 DEF Succeed, Settle, EndAttempt
    <3>5. NoCompletionMissing'
      BY <2>6 DEF Succeed, Settle, EndAttempt
    <3> QED BY <3>1, <3>2, <3>3, <3>4, <3>5
  <2>7. CASE Fail(w)
    <3>1. ClaimsDrawn'
      BY <2>7 DEF Fail, Settle, EndAttempt
    <3>2. ReceiptsMatch'
      BY <2>7 DEF Fail, Settle, EndAttempt
    <3>3. EffectsCounted'
      BY <2>7 DEF Fail, Settle, EndAttempt
    <3>4. OneRequest'
      <4>1. ASSUME NEW v \in Workers, phase'[v] = "handling"
            PROVE  (/\ claim[v] \notin inflight
                    /\ Current(claim[v]) => claim[v][2] \notin receipt[claim[v][1]])'
        <5>1. v # w /\ phase'[v] = phase[v] /\ claim'[v] = claim[v] /\ claim[v] \in Claims
          BY <2>7, <4>1 DEF Fail, Settle, EndAttempt
        <5> QED BY <2>7, <4>1, <5>1 DEF Fail, Settle, EndAttempt
      <4>2. ASSUME NEW e \in inflight', Current(e)'
            PROVE  (e[2] \notin receipt[e[1]])'
        BY <2>7, <4>2 DEF Fail, Settle, EndAttempt
      <4> QED BY <4>1, <4>2
    <3>5. NoCompletionMissing'
      <4>1. ASSUME NEW v \in Workers, (phase[v] = "completed" /\ Current(claim[v]))'
            PROVE  (claim[v][2] \in receipt[claim[v][1]])'
        <5>1. v # w /\ phase'[v] = phase[v] /\ claim'[v] = claim[v] /\ claim[v] \in Claims
          BY <2>7, <4>1 DEF Fail, Settle, EndAttempt
        <5> QED BY <2>7, <4>1, <5>1 DEF Fail, Settle, EndAttempt
      <4> QED BY <4>1
    <3> QED BY <3>1, <3>2, <3>3, <3>4, <3>5
  <2>8. CASE LoseLease(w) \/ Crash(w)
    <3>1. ClaimsDrawn'
      <4>1. \A v \in Workers : claim'[v] \in Claims => claim'[v] = claim[v]
        BY <2>8 DEF LoseLease, Crash, EndAttempt
      <4> QED BY <2>8, <4>1 DEF LoseLease, Crash, EndAttempt
    <3>2. ReceiptsMatch'
      BY <2>8 DEF LoseLease, Crash, EndAttempt
    <3>3. EffectsCounted'
      BY <2>8 DEF LoseLease, Crash, EndAttempt
    <3>4. OneRequest'
      <4>1. ASSUME NEW v \in Workers, phase'[v] = "handling"
            PROVE  (/\ claim[v] \notin inflight
                    /\ Current(claim[v]) => claim[v][2] \notin receipt[claim[v][1]])'
        <5>1. v # w /\ phase'[v] = phase[v] /\ claim'[v] = claim[v] /\ claim[v] \in Claims
          BY <2>8, <4>1 DEF LoseLease, Crash, EndAttempt
        <5> QED BY <2>8, <4>1, <5>1 DEF LoseLease, Crash, EndAttempt
      <4>2. ASSUME NEW e \in inflight', Current(e)'
            PROVE  (e[2] \notin receipt[e[1]])'
        BY <2>8, <4>2 DEF LoseLease, Crash, EndAttempt
      <4> QED BY <4>1, <4>2
    <3>5. NoCompletionMissing'
      <4>1. ASSUME NEW v \in Workers, (phase[v] = "completed" /\ Current(claim[v]))'
            PROVE  (claim[v][2] \in receipt[claim[v][1]])'
        <5>1. v # w /\ phase'[v] = phase[v] /\ claim'[v] = claim[v] /\ claim[v] \in Claims
          BY <2>8, <4>1 DEF LoseLease, Crash, EndAttempt
        <5> QED BY <2>8, <4>1, <5>1 DEF LoseLease, Crash, EndAttempt
      <4> QED BY <4>1
    <3> QED BY <3>1, <3>2, <3>3, <3>4, <3>5
  <2> QED
    BY <1>6, <2>1, <2>2, <2>4, <2>6, <2>7, <2>8 DEF AttemptStep
<1>7. ASSUME NEW c \in inflight, RequestStep(c) PROVE Committing'
  <2>1. CASE Commit(c) \/ CommitClosing(c)
    <3>0. CompleteBusiness(c)
      BY <2>1 DEF Commit, CommitClosing
    <3>w. ASSUME NEW j \in Jobs
          PROVE  \/ status'[j] = status[j]
                 \/ status'[j] = "cancelled" /\ Live(j) /\ j # c[1]
      <4>1. CASE Commit(c)
        BY <4>1 DEF Commit
      <4>2. CASE CommitClosing(c)
        BY <4>2 DEF CommitClosing, CancelRows, Withdrawn
      <4> QED BY <2>1, <4>1, <4>2
    <3> USE DEF Live
    <3>1. ClaimsDrawn'
      BY <3>0 DEF CompleteBusiness, Answer
    <3>2. ReceiptsMatch'
      BY <3>0, <3>w DEF CompleteBusiness, Answer
    <3>3. EffectsCounted'
      BY <3>0, <3>w DEF CompleteBusiness, Answer
    <3>4. OneRequest'
      <4>1. ASSUME NEW v \in Workers, phase'[v] = "handling"
            PROVE  (/\ claim[v] \notin inflight
                    /\ Current(claim[v]) => claim[v][2] \notin receipt[claim[v][1]])'
        <5>1. phase[v] = "handling" /\ claim'[v] = claim[v] /\ claim[v] \in Claims
          BY <3>0, <4>1 DEF CompleteBusiness, Answer
        <5>2. claim[v] # c
          BY <3>0, <5>1 DEF CompleteBusiness
        <5>3. claim[v][1] = c[1] => claim[v][2] # c[2]
          BY <5>1, <5>2, SameClaim
        <5>4. status'[claim[v][1]] = "running" => status[claim[v][1]] = "running"
          BY <3>w, <5>1
        <5> QED BY <3>0, <5>1, <5>3, <5>4 DEF CompleteBusiness
      <4>2. ASSUME NEW e \in inflight', Current(e)'
            PROVE  (e[2] \notin receipt[e[1]])'
        <5>1. e \in inflight /\ e # c /\ Current(e)
          BY <3>0, <3>w, <4>2 DEF CompleteBusiness
        <5>2. e[1] = c[1] => e[2] # c[2]
          BY <5>1, SameClaim
        <5> QED BY <3>0, <5>1, <5>2 DEF CompleteBusiness
      <4> QED BY <4>1, <4>2
    <3>5. NoCompletionMissing'
      <4>1. ASSUME NEW v \in Workers, (phase[v] = "completed" /\ Current(claim[v]))'
            PROVE  (claim[v][2] \in receipt[claim[v][1]])'
        <5>1. claim'[v] = claim[v] /\ claim[v] \in Claims
          BY <3>0, <4>1 DEF CompleteBusiness, Answer
        <5>2. Current(claim[v])
          BY <3>0, <3>w, <4>1, <5>1 DEF CompleteBusiness
        <5> QED BY <3>0, <4>1, <5>1, <5>2 DEF CompleteBusiness, Answer
      <4> QED BY <4>1
    <3> QED BY <3>1, <3>2, <3>3, <3>4, <3>5
  <2>2. CASE RejectStale(c)
    BY <2>2 DEF RejectStale, Answer
  <2>3. ASSUME NEW p \in {"failing", "refused"}, Refuse(c, p) PROVE Committing'
    BY <2>3 DEF Refuse, Answer
  <2> QED
    BY <1>7, <2>1, <2>2, <2>3, ZenonT(20) DEF RequestStep
<1>8. CASE UNCHANGED vars
  BY <1>8 DEF vars
<1>9. ASSUME NEW w \in Workers, Skip(w) PROVE Committing'
  BY <1>9 DEF Skip
<1>10. ASSUME NEW w \in Workers, NEW p \in {"failing", "refused"}, HandlerError(w, p)
       PROVE  Committing'
  BY <1>10 DEF HandlerError
<1> QED
  BY <1>1, <1>2, <1>3, <1>4, <1>5, <1>6, <1>7, <1>8, <1>9, <1>10, SMTT(30) DEF Next

\* Every step leaves an attempt to the rows that wait for one.
LEMMA NextAttempts ==
  ASSUME TInv, AttemptsLeft, [Next]_vars, TInv' PROVE AttemptsLeft'
<1> USE DEF TInv, Attached, TypeOK, AttemptsLeft, Claims, workerVars, jobVars
<1>1. ASSUME NEW j \in Jobs, QueueStep(j) PROVE AttemptsLeft'
  BY <1>1 DEF QueueStep, Enqueue, BecomeReady, LeaseExpires
<1>2. ASSUME NEW js, CancelAll(js) PROVE AttemptsLeft'
  BY <1>2 DEF CancelAll, CancelRows
<1>3. ASSUME NEW w \in Workers, NEW j \in Jobs, Claim(w, j) PROVE AttemptsLeft'
  BY <1>3 DEF Claim, Recover, Exhaust, Pick
<1>4. ASSUME NEW w \in Workers, AttemptStep(w) PROVE AttemptsLeft'
  <2>1. CASE Fail(w)
    BY <2>1, MaxAttemptsAssumption DEF Fail, Settle
  <2>2. CASE Succeed(w)
    BY <2>2 DEF Succeed, Settle
  <2> QED
    BY <1>4, <2>1, <2>2
    DEF AttemptStep, Send, Timeout, Heartbeat, HeartbeatError,
        LoseLease, Crash
<1>5. ASSUME NEW c \in inflight, RequestStep(c) PROVE AttemptsLeft'
  BY <1>5 DEF RequestStep, Commit, CommitClosing, CompleteBusiness, CancelRows,
              RejectStale, Refuse
<1>6. CASE UNCHANGED vars
  BY <1>6 DEF vars
<1> QED
  BY <1>1, <1>2, <1>3, <1>4, <1>5, <1>6
  DEF Next, CancelRoomJobs, DeleteRoom, CancelRun, Skip, HandlerError

\* How one step may change a row: succeeded and cancelled are final, a dead row
\* can only be relabelled cancelled when its Agent run is withdrawn, a row is
\* inserted once its predecessors are, starts to run once they have succeeded,
\* and has an effect only while it runs.
LEMMA RowStep ==
  ASSUME TInv, Committing, [Next]_vars, NEW j \in Jobs
  PROVE  /\ status[j] \in {"succeeded", "cancelled"} => status'[j] = status[j]
         /\ status[j] = "dead" =>
              status'[j] \in {"dead"} \cup (IF j \in Agent THEN {"cancelled"} ELSE {})
         /\ status[j] # "absent" => status'[j] # "absent"
         /\ status[j] = "absent" /\ status'[j] # "absent" =>
              \A p \in Prior(j) \cap Consume : status[p] # "absent"
         /\ status'[j] = "running" =>
              \/ status[j] = "running"
              \/ \A p \in Prior(j) : status[p] \in {"absent", "succeeded"}
         /\ effects'[j] # effects[j] => status[j] = "running"
<1> DEFINE OK ==
         /\ status[j] \in {"succeeded", "cancelled"} => status'[j] = status[j]
         /\ status[j] = "dead" =>
              status'[j] \in {"dead"} \cup (IF j \in Agent THEN {"cancelled"} ELSE {})
         /\ status[j] # "absent" => status'[j] # "absent"
         /\ status[j] = "absent" /\ status'[j] # "absent" =>
              \A p \in Prior(j) \cap Consume : status[p] # "absent"
         /\ status'[j] = "running" =>
              \/ status[j] = "running"
              \/ \A p \in Prior(j) : status[p] \in {"absent", "succeeded"}
         /\ effects'[j] # effects[j] => status[j] = "running"
<1> USE DEF TInv, Attached, TypeOK, Claims, workerVars, jobVars
<1>1. ASSUME NEW i \in Jobs, QueueStep(i) PROVE OK
  BY <1>1 DEF QueueStep, Enqueue, BecomeReady, LeaseExpires
<1>2. ASSUME NEW r \in Rooms, CancelRoomJobs(r) PROVE OK
  BY <1>2 DEF CancelRoomJobs, CancelAll, CancelRows, Withdrawn, Live
<1>3. ASSUME NEW r \in Rooms, DeleteRoom(r) PROVE OK
  BY <1>3 DEF DeleteRoom, CancelAll, CancelRows, Live
<1>4. ASSUME NEW i \in Jobs, CancelRun(i) PROVE OK
  BY <1>4 DEF CancelRun, CancelAll, CancelRows, Committing, EffectsCounted
<1>5. ASSUME NEW w \in Workers, NEW i \in Jobs, Claim(w, i) PROVE OK
  BY <1>5 DEF Claim, Candidate, Recover, Exhaust, Pick
<1>6. ASSUME NEW w \in Workers, AttemptStep(w) PROVE OK
  <2>1. CASE Fail(w)
    BY <2>1 DEF Fail, Settle, Current
  <2>2. CASE Succeed(w)
    BY <2>2 DEF Succeed, Settle, Current
  <2> QED
    BY <1>6, <2>1, <2>2
    DEF AttemptStep, Send, Timeout, Heartbeat, HeartbeatError,
        LoseLease, Crash
<1>7. ASSUME NEW c \in inflight, RequestStep(c) PROVE OK
  BY <1>7 DEF RequestStep, Commit, CommitClosing, CompleteBusiness, CancelRows,
              Withdrawn, Live, RejectStale, Refuse, Current
<1>8. CASE UNCHANGED vars
  BY <1>8 DEF vars
<1> QED
  BY <1>1, <1>2, <1>3, <1>4, <1>5, <1>6, <1>7, <1>8 DEF Next, Skip, HandlerError

\* Every step keeps the streams ordered.
LEMMA NextOrdered ==
  ASSUME TInv, Committing, StreamOrdered, [Next]_vars PROVE StreamOrdered'
<1> SUFFICES ASSUME NEW j \in Jobs, NEW p \in Prior(j) \cap Consume
             PROVE  /\ status'[j] # "absent" => status'[p] # "absent"
                    /\ status'[j] = "running" \/ effects'[j] > 0 =>
                         status'[p] = "succeeded"
  BY DEF StreamOrdered, Prior
<1>1. p \in Jobs
  BY FamilyAssumption
<1>2. status'[j] # "absent" => status'[p] # "absent"
  BY <1>1, RowStep DEF StreamOrdered
<1>3. status'[j] = "running" \/ effects'[j] > 0 => status[p] = "succeeded"
  <2>1. CASE status[j] = "running" \/ effects[j] > 0
    BY <2>1 DEF StreamOrdered
  <2>2. CASE ~(status[j] = "running" \/ effects[j] > 0) /\ status'[j] = "running"
    <3>1. status[p] \in {"absent", "succeeded"}
      BY <2>2, RowStep
    <3>2. status[p] # "absent"
      BY <2>2, RowStep DEF StreamOrdered
    <3> QED BY <3>1, <3>2
  <2>3. CASE ~(status[j] = "running" \/ effects[j] > 0) /\ effects'[j] > 0
    BY <2>3, RowStep
  <2> QED BY <2>1, <2>2, <2>3
<1> QED
  BY <1>1, <1>2, <1>3, RowStep

-----------------------------------------------------------------------------

\* The empty queue satisfies it ...
LEMMA InitIInv == Init => IInv
<1> SUFFICES ASSUME Init PROVE IInv
  OBVIOUS
<1>1. TInv
  BY InitType
<1>2. Committing /\ AttemptsLeft /\ StreamOrdered
  BY MaxAttemptsAssumption, FamilyAssumption
  DEF Init, Committing, ClaimsDrawn, ReceiptsMatch, EffectsCounted, OneRequest,
      NoCompletionMissing, AttemptsLeft, StreamOrdered, Claims, NoClaim
<1> QED BY <1>1, <1>2 DEF IInv

\* ... and every step keeps it.
LEMMA NextIInv == IInv /\ [Next]_vars => IInv'
  BY NextType, NextCommitting, NextAttempts, NextOrdered DEF IInv

\* The conjunction the safety theorems follow from holds in every state:
\* claims, receipts and effects stay in step, every waiting row has an attempt
\* left, and each stream is worked on in order.
THEOREM InductiveInvariant == Spec => []IInv
  BY InitIInv, NextIInv, PTL DEF Spec

\* No job's business transaction commits twice.
THEOREM CommitsAtMostOnce == Spec => []AtMostOnce
<1>1. IInv => AtMostOnce
  <2>1. IInv => \A j \in Jobs : effects[j] \in {0, 1}
    BY DEF IInv, Committing, EffectsCounted
  <2>2. \A j \in Jobs : effects[j] \in {0, 1} => effects[j] <= 1
    OBVIOUS
  <2> QED
    BY <2>1, <2>2 DEF AtMostOnce
<1> QED
  BY <1>1, InductiveInvariant, PTL

\* A row's status tells the truth about the committed work.
THEOREM StatusIsHonest == Spec => []HonestStatus
<1>1. IInv => HonestStatus
  <2>1. IInv => EffectsCounted
    BY DEF IInv, Committing
  <2>2. \A j \in Jobs : effects[j] \in {0, 1} => (effects[j] > 0 <=> effects[j] = 1)
    OBVIOUS
  <2> QED
    BY <2>1, <2>2 DEF EffectsCounted, HonestStatus
<1> QED
  BY <1>1, InductiveInvariant, PTL

\* succeed always finds the receipt of a current claim that reports success.
THEOREM CompletionIsThere == Spec => []NoCompletionMissing
<1>1. IInv => NoCompletionMissing
  BY DEF IInv, Committing
<1> QED
  BY <1>1, InductiveInvariant, PTL

\* The single row a claim looks at can always be settled or picked.
THEOREM HeadNeverStuck == Spec => []NoStuckHead
<1>1. IInv => NoStuckHead
  BY DEF IInv, AttemptsLeft, NoStuckHead, Candidate
<1> QED
  BY <1>1, InductiveInvariant, PTL

\* Each room's analytics stream commits in room order.
THEOREM StreamInOrder == Spec => []CommitInOrder
<1>1. IInv => CommitInOrder
  BY FamilyAssumption DEF IInv, StreamOrdered, CommitInOrder, Analytics
<1> QED
  BY <1>1, InductiveInvariant, PTL

\* Settled rows stay settled.
THEOREM SettledStays == Spec => SettledForGood
<1>1. IInv /\ [Next]_vars =>
        [\A j \in Jobs :
          /\ status[j] = "succeeded" => status'[j] = "succeeded"
          /\ status[j] = "cancelled" => status'[j] = "cancelled"
          /\ status[j] = "dead" =>
               status'[j] \in {"dead"} \cup (IF j \in Agent THEN {"cancelled"} ELSE {})]_vars
  BY RowStep DEF IInv
<1> QED
  BY <1>1, InductiveInvariant, PTL DEF Spec, SettledForGood

\* The queue's bookkeeping holds together (claim_worker_job.sql, jobs.py): every
\* part of QueueSound at once, for any number of workers, jobs and attempts.
THEOREM QueueIsSound == Spec => []QueueSound
<1>1. TypeOK /\ HonestStatus /\ NoCompletionMissing /\ NoStuckHead => QueueSound
  BY DEF QueueSound
<1> QED
  BY <1>1, TypeCorrect, StatusIsHonest, CompletionIsThere, HeadNeverStuck, PTL
===============================================================================

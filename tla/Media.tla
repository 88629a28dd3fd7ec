--------------------------------- MODULE Media ---------------------------------
(***************************************************************************)
(* Uploads of one room: the tables media_asset, media_upload_grant and     *)
(* media_derivative, the private object store, the two server calls that   *)
(* hold the room's session lock across several transactions                *)
(* (createUploadGrant and finalizeUpload), the reconcile and process jobs  *)
(* and the staging janitor.                                                *)
(*                                                                         *)
(* An action that touches rows is one transaction under the room lock, so  *)
(* it waits while a call holds that lock; the store, the browser, the      *)
(* worker's own reading and writing and the clock do not.  The store binds *)
(* what is written to the declared checksum, so an object is modelled by   *)
(* its presence alone.                                                     *)
(***************************************************************************)
EXTENDS Naturals, Sequences, FiniteSets

CONSTANTS
    Media,        \* media_id; each has one grant
    Calls,        \* correlation ids of finalize requests
    NoCall,       \* no finalize has recorded its intent; no call is running
    MaxAttempts,  \* worker_job.max_attempts
    BatchSize     \* grants the janitor takes up per sweep

ASSUME MediaAttemptsAssumption == MaxAttempts \in Nat \ {0}
ASSUME BatchAssumption == BatchSize \in Nat \ {0}

\* A server call in progress.
ServerCalls == [op : {"grant", "finalize"}, medium : Media,
                step : {"sign", "intent", "fence", "copy", "wait", "commit"},
                correlation : Calls \cup {NoCall}]

ASSUME NoCallAssumption == NoCall \notin Calls \cup ServerCalls

VARIABLES
    room,      \* open, overdue (past closes_at), closed (or being deleted)
    asset,     \* media_asset.state; "abandoned" is failed/PROMOTION_ABANDONED
    named,     \* media with media_asset.object_key set
    grant,     \* media_upload_grant.state
    fenced,    \* media with now < effectiveWriteNotAfter(grant)
    intent,    \* promotion_correlation_id, set with the destination key
    recorded,  \* media with a media_derivative row
    bound,     \* media with a media_attachment_binding row
    queue,     \* media in the order of their grants' reserved_at
    url,       \* the signed PUT: none, valid, expired
    puts,      \* browser PUTs under way
    copies,    \* promotion PUTs under way at the store
    store,     \* objects of each medium
    job,       \* worker_job of each medium's two families
    tries,     \* worker_job.attempts
    worker,    \* what each attempt at processing a medium is doing
    call,      \* the server call that holds the room's session lock
    batch,     \* the janitor's remaining candidates
    sweep      \* where the janitor is with the first of them

rowVars == <<asset, named, grant, intent, recorded, bound, queue>>
storeVars == <<url, puts, copies, store>>
jobVars == <<job, tries>>
janitorVars == <<batch, sweep>>
mediaVars == <<room, rowVars, fenced, storeVars, jobVars, worker, call, janitorVars>>

AssetState == {"none", "upload_pending", "uploaded", "ready", "quarantined",
               "failed", "abandoned", "gone"}
GrantState == {"none", "issuing", "active", "revoked", "promoted", "closed"}
Objects == {"staging", "original", "derivative"}
Family == {"reconcile", "process"}
JobState == {"absent", "queued", "running", "committed", "succeeded", "dead",
             "cancelled"}
LiveJob == {"queued", "running", "committed"}

Attempts == 1 .. MaxAttempts
Running(op, m, step, c) == [op |-> op, medium |-> m, step |-> step, correlation |-> c]

MediaTypeOK ==
    /\ room \in {"open", "overdue", "closed"}
    /\ asset \in [Media -> AssetState]
    /\ named \subseteq Media /\ fenced \subseteq Media /\ recorded \subseteq Media
    /\ bound \subseteq Media /\ puts \subseteq Media /\ copies \subseteq Media
    /\ grant \in [Media -> GrantState]
    /\ intent \in [Media -> Calls \cup {NoCall}]
    /\ queue \in Seq(Media) /\ batch \in Seq(Media)
    /\ url \in [Media -> {"none", "valid", "expired"}]
    /\ store \in [Media -> SUBSET Objects]
    /\ job \in [Family -> [Media -> JobState]]
    /\ tries \in [Family -> [Media -> 0 .. MaxAttempts]]
    /\ worker \in [Media -> [Attempts -> {"idle", "scanning", "reporting"}]]
    /\ call \in ServerCalls \cup {NoCall}
    /\ sweep \in {"staging", "close", "object", "retire"}

MediaInit ==
    /\ room = "open"
    /\ asset = [m \in Media |-> "none"]
    /\ grant = [m \in Media |-> "none"]
    /\ intent = [m \in Media |-> NoCall]
    /\ named = {} /\ fenced = {} /\ recorded = {} /\ bound = {}
    /\ queue = <<>> /\ batch = <<>> /\ sweep = "staging"
    /\ url = [m \in Media |-> "none"]
    /\ puts = {} /\ copies = {}
    /\ store = [m \in Media |-> {}]
    /\ job = [f \in Family |-> [m \in Media |-> "absent"]]
    /\ tries = [f \in Family |-> [m \in Media |-> 0]]
    /\ worker = [m \in Media |-> [t \in Attempts |-> "idle"]]
    /\ call = NoCall

Put(m, o) == store' = [store EXCEPT ![m] = @ \cup {o}]
Erase(m, os) == store' = [store EXCEPT ![m] = @ \ os]
Rows(m) == asset[m] \notin {"none", "gone"}

\* INSERT ... ON CONFLICT (dedupe_key) DO NOTHING, on top of the statuses js.
Enqueued(js, f, m) == IF js[f][m] = "absent" THEN [js EXCEPT ![f][m] = "queued"] ELSE js

-----------------------------------------------------------------------------
(* createUploadGrant: reserve the rows, sign, activate.                    *)

\* The gate and the handler's own check of the room, under the lock.
Writable == room = "open"

Reserve(m) ==
    /\ call = NoCall
    /\ Writable
    /\ asset[m] = "none"
    /\ asset' = [asset EXCEPT ![m] = "upload_pending"]
    /\ grant' = [grant EXCEPT ![m] = "issuing"]
    /\ fenced' = fenced \cup {m}
    /\ queue' = Append(queue, m)
    /\ call' = Running("grant", m, "sign", NoCall)
    /\ UNCHANGED <<room, named, intent, recorded, bound, storeVars, jobVars, worker,
                   janitorVars>>

Activate(m) ==
    /\ call = Running("grant", m, "sign", NoCall)
    /\ Writable
    /\ grant' = [grant EXCEPT ![m] = "active"]
    /\ fenced' = fenced \cup {m}
    /\ url' = [url EXCEPT ![m] = "valid"]
    /\ call' = NoCall
    /\ UNCHANGED <<room, asset, named, intent, recorded, bound, queue, puts, copies,
                   store, jobVars, worker, janitorVars>>

\* Signing or activation fails, and the grant is revoked in its own transaction.
Revoke(m) ==
    /\ call = Running("grant", m, "sign", NoCall)
    /\ grant' = [grant EXCEPT ![m] = "revoked"]
    /\ call' = NoCall
    /\ UNCHANGED <<room, asset, named, fenced, intent, recorded, bound, queue, storeVars,
                   jobVars, worker, janitorVars>>

-----------------------------------------------------------------------------
(* The browser, the clock and the store.                                   *)

StartPut(m) ==
    /\ url[m] = "valid"
    /\ m \notin puts
    /\ puts' = puts \cup {m}
    /\ UNCHANGED <<room, rowVars, fenced, url, copies, store, jobVars, worker, call,
                   janitorVars>>

PutEnds(m) ==
    /\ m \in puts
    /\ puts' = puts \ {m}
    /\ Put(m, "staging") \/ UNCHANGED store
    /\ UNCHANGED <<room, rowVars, fenced, url, copies, jobVars, worker, call,
                   janitorVars>>

\* The promotion's conditional PUT: it writes once, and may outlive its caller.
CopyEnds(m) ==
    /\ m \in copies
    /\ copies' = copies \ {m}
    /\ Put(m, "original") \/ UNCHANGED store
    /\ UNCHANGED <<room, rowVars, fenced, url, puts, jobVars, worker, call,
                   janitorVars>>

UrlExpires(m) ==
    /\ url[m] = "valid"
    /\ url' = [url EXCEPT ![m] = "expired"]
    /\ UNCHANGED <<room, rowVars, fenced, puts, copies, store, jobVars, worker, call,
                   janitorVars>>

\* m's copy is the next thing its finalize does.
CopyDue(m) == call # NoCall /\ call.medium = m /\ call.step = "copy"

\* The fence is the signature's lifetime, or the copy's, plus the longest request
\* and the clock skew: nothing that was started under it is still under way, and
\* the copy that is due under it has been started (or its server is gone).
FencePasses(m) ==
    /\ m \in fenced
    /\ url[m] # "valid"
    /\ m \notin puts \cup copies
    /\ ~CopyDue(m)
    /\ fenced' = fenced \ {m}
    /\ UNCHANGED <<room, rowVars, storeVars, jobVars, worker, call, janitorVars>>

-----------------------------------------------------------------------------
(* finalizeUpload: record the intent, copy, commit.                        *)

\* A refused call changes nothing.  Past the fence an upload may still be
\* finalized; within it, only while its URL is valid.
FinalizeBegin(m, c) ==
    /\ call = NoCall
    /\ Writable
    /\ asset[m] = "upload_pending"
    /\ grant[m] = "active"
    /\ ~(m \in fenced /\ url[m] = "expired")
    /\ "staging" \in store[m]
    /\ call' = Running("finalize", m, "intent", c)
    /\ UNCHANGED <<room, rowVars, fenced, storeVars, jobVars, worker, janitorVars>>

\* recordPromotionIntent: the first finalize fixes the correlation.
FinalizeIntent(m, c) ==
    /\ call = Running("finalize", m, "intent", c)
    /\ Writable
    /\ intent[m] \in {NoCall, c}
    /\ intent' = [intent EXCEPT ![m] = c]
    /\ fenced' = fenced \cup {m}
    /\ job' = Enqueued(job, "reconcile", m)
    /\ call' = [call EXCEPT !.step = "fence"]
    /\ UNCHANGED <<room, asset, named, grant, recorded, bound, queue, storeVars, tries,
                   worker, janitorVars>>

\* A faulty step: the copy follows under the fence the intent has left.
FinalizeFenceKept(m, c) ==
    /\ call = Running("finalize", m, "fence", c)
    /\ call' = [call EXCEPT !.step = "copy"]
    /\ UNCHANGED <<room, rowVars, fenced, storeVars, jobVars, worker, janitorVars>>

\* extendPromotionWriteFenceFromDbTime: the fence is moved once more.
FinalizeFence(m, c) ==
    /\ call = Running("finalize", m, "fence", c)
    /\ fenced' = fenced \cup {m}
    /\ call' = [call EXCEPT !.step = "copy"]
    /\ UNCHANGED <<room, rowVars, storeVars, jobVars, worker, janitorVars>>

\* promoteStagingObject accepts a destination that is there, or reads staging and
\* writes the copy.
FinalizeCopy(m, c) ==
    /\ call = Running("finalize", m, "copy", c)
    /\ \/ "original" \in store[m] /\ UNCHANGED copies
       \/ "original" \notin store[m] /\ "staging" \in store[m] /\ copies' = copies \cup {m}
    /\ call' = [call EXCEPT !.step = "wait"]
    /\ UNCHANGED <<room, rowVars, fenced, url, puts, store, jobVars, worker, janitorVars>>

\* The copy is confirmed by a HEAD of the destination.
FinalizeConfirm(m, c) ==
    /\ call = Running("finalize", m, "wait", c)
    /\ "original" \in store[m]
    /\ call' = [call EXCEPT !.step = "commit"]
    /\ UNCHANGED <<room, rowVars, fenced, storeVars, jobVars, worker, janitorVars>>

\* commitPromotionAndEnqueue, for an asset that is still upload_pending.
FinalizeCommit(m, c) ==
    /\ call = Running("finalize", m, "commit", c)
    /\ Writable
    /\ asset' = [asset EXCEPT ![m] = "uploaded"]
    /\ named' = named \cup {m}
    /\ grant' = [grant EXCEPT ![m] = "promoted"]
    /\ job' = Enqueued(job, "process", m)
    /\ call' = NoCall
    /\ UNCHANGED <<room, fenced, intent, recorded, bound, queue, storeVars, tries, worker,
                   janitorVars>>

\* A store error, a closed gate, a foreign correlation, a lost connection or a
\* crash ends the call where it is; the session lock is released.
CallFails ==
    /\ call # NoCall
    /\ call' = NoCall
    /\ UNCHANGED <<room, rowVars, fenced, storeVars, jobVars, worker, janitorVars>>

-----------------------------------------------------------------------------
(* The two job families, as JobQueue describes them.                       *)

\* A claim, and its end: a receipt settles it, anything else is a retry.
ClaimJob(f, m) ==
    /\ job[f][m] = "queued"
    /\ job' = [job EXCEPT ![f][m] = "running"]
    /\ tries' = [tries EXCEPT ![f][m] = @ + 1]
    /\ UNCHANGED <<room, rowVars, fenced, storeVars, worker, call, janitorVars>>

FailJob(f, m) ==
    /\ job[f][m] = "running"
    /\ job' = [job EXCEPT ![f][m] = IF tries[f][m] >= MaxAttempts THEN "dead" ELSE "queued"]
    /\ UNCHANGED <<room, rowVars, fenced, storeVars, tries, worker, call, janitorVars>>

SettleJob(f, m) ==
    /\ job[f][m] = "committed"
    /\ job' = [job EXCEPT ![f][m] = "succeeded"]
    /\ UNCHANGED <<room, rowVars, fenced, storeVars, tries, worker, call, janitorVars>>

-----------------------------------------------------------------------------
(* media.reconcile-upload.v1: one transaction, store calls included.        *)

\* A faulty test: it forgets the media whose processing has already ended.
PromotedUnprocessed(m) == m \in named /\ asset[m] = "uploaded"

Promoted(m) == m \in named /\ asset[m] \in {"uploaded", "ready"}

ReconcileDone(m) ==
    /\ call = NoCall
    /\ job["reconcile"][m] = "running"
    /\ Promoted(m)
    /\ job' = [job EXCEPT !["reconcile"][m] = "committed"]
    /\ UNCHANGED <<room, rowVars, fenced, storeVars, tries, worker, call, janitorVars>>

\* The destination is there: the promotion is committed on finalize's behalf.
ReconcileCommit(m) ==
    /\ call = NoCall
    /\ job["reconcile"][m] = "running"
    /\ ~Promoted(m)
    /\ "original" \in store[m]
    /\ asset' = [asset EXCEPT ![m] = "uploaded"]
    /\ named' = named \cup {m}
    /\ grant' = [grant EXCEPT ![m] = "promoted"]
    /\ job' = [Enqueued(job, "process", m) EXCEPT !["reconcile"][m] = "committed"]
    /\ UNCHANGED <<room, fenced, intent, recorded, bound, queue, storeVars, tries, worker,
                   call, janitorVars>>

\* At the settlement fence the HEAD did not find it, or did not answer.
ReconcileAbandon(m) ==
    /\ call = NoCall
    /\ job["reconcile"][m] = "running"
    /\ ~Promoted(m)
    /\ m \notin fenced
    /\ Erase(m, {"staging"})
    /\ asset' = [asset EXCEPT ![m] = "abandoned"]
    /\ grant' = [grant EXCEPT ![m] = "closed"]
    /\ job' = [job EXCEPT !["reconcile"][m] = "committed"]
    /\ UNCHANGED <<room, named, fenced, intent, recorded, bound, queue, url, puts, copies,
                   tries, worker, call, janitorVars>>

-----------------------------------------------------------------------------
(* media.process.v1: the worker reads, scans and writes on its own, then    *)
(* reports under the claim it was given.                                    *)

ProcessStart(m) ==
    /\ job["process"][m] = "running"
    /\ m \in named
    /\ worker[m][tries["process"][m]] = "idle"
    /\ worker' = [worker EXCEPT ![m][tries["process"][m]] = "scanning"]
    /\ UNCHANGED <<room, rowVars, fenced, storeVars, jobVars, call, janitorVars>>

\* Clean and sanitized: the copy is written once, under a key of its own.
WriteDerivative(m, t) ==
    /\ worker[m][t] = "scanning"
    /\ "original" \in store[m]
    /\ Put(m, "derivative")
    /\ worker' = [worker EXCEPT ![m][t] = "reporting"]
    /\ UNCHANGED <<room, rowVars, fenced, url, puts, copies, jobVars, call, janitorVars>>

\* requireCurrent, then a medium that awaits its outcome.
Reportable(m, t) ==
    /\ job["process"][m] = "running" /\ tries["process"][m] = t
    /\ asset[m] = "uploaded"

\* The outcome route; quarantined and failed are decided while scanning.
Report(m, t, s) ==
    /\ call = NoCall
    /\ worker[m][t] = IF s = "ready" THEN "reporting" ELSE "scanning"
    /\ Reportable(m, t)
    /\ asset' = [asset EXCEPT ![m] = s]
    /\ recorded' = IF s = "ready" THEN recorded \cup {m} ELSE recorded
    /\ job' = [job EXCEPT !["process"][m] = "committed"]
    /\ worker' = [worker EXCEPT ![m][t] = "idle"]
    /\ UNCHANGED <<room, named, grant, intent, bound, queue, fenced, storeVars, tries,
                   call, janitorVars>>

\* A refused report, a store that fails, an absent scanner or a crash.
AttemptEnds(m, t) ==
    /\ worker[m][t] # "idle"
    /\ worker' = [worker EXCEPT ![m][t] = "idle"]
    /\ UNCHANGED <<room, rowVars, fenced, storeVars, jobVars, call, janitorVars>>

-----------------------------------------------------------------------------
(* The room.                                                               *)

\* A message binds the medium (assertAttachable and bind, in its transaction).
Attach(m) ==
    /\ call = NoCall
    /\ Writable
    /\ asset[m] \in {"uploaded", "ready"}
    /\ m \notin bound
    /\ bound' = bound \cup {m}
    /\ UNCHANGED <<room, asset, named, grant, intent, recorded, queue, fenced, storeVars,
                   jobVars, worker, call, janitorVars>>

\* The clock passes closes_at, whoever holds the lock.
Overdue ==
    /\ room = "open"
    /\ room' = "overdue"
    /\ UNCHANGED <<rowVars, fenced, storeVars, jobVars, worker, call, janitorVars>>

\* A close, or a deletion request: the room's jobs are cancelled with it.
EndRoom ==
    /\ call = NoCall
    /\ room # "closed"
    /\ room' = "closed"
    /\ job' = [f \in Family |-> [m \in Media |->
                  IF job[f][m] \in LiveJob THEN "cancelled" ELSE job[f][m]]]
    /\ UNCHANGED <<rowVars, fenced, storeVars, tries, worker, call, janitorVars>>

-----------------------------------------------------------------------------
(* The staging janitor: one sweep is a batch of grants past their fence.   *)

\* A faulty selection: uploads nobody finalized are left out.
PastFenceSettled == {m \in Media : grant[m] \notin {"none", "active"} /\ m \notin fenced}

PastFence == {m \in Media : grant[m] # "none" /\ m \notin fenced}

Earlier(k, m) == \E i, j \in DOMAIN queue : i < j /\ queue[i] = k /\ queue[j] = m

\* ORDER BY reserved_at LIMIT BatchSize.
Batches ==
    {b \in UNION {[1 .. n -> PastFence] : n \in 1 .. BatchSize} :
        /\ \A i \in DOMAIN b : \A k \in PastFence :
              Earlier(k, b[i]) <=> \E j \in 1 .. (i - 1) : b[j] = k
        /\ \/ Len(b) = BatchSize
           \/ \A k \in PastFence : \E i \in DOMAIN b : b[i] = k}

JanitorSelect ==
    /\ batch = <<>>
    /\ batch' \in Batches
    /\ UNCHANGED <<room, rowVars, fenced, storeVars, jobVars, worker, call, sweep>>

NextCandidate ==
    /\ batch' = Tail(batch)
    /\ sweep' = "staging"

\* The staging object goes first, outside any lock.
JanitorStaging ==
    /\ batch # <<>> /\ sweep = "staging"
    /\ Erase(Head(batch), {"staging"})
    /\ sweep' = "close"
    /\ UNCHANGED <<room, rowVars, fenced, url, puts, copies, jobVars, worker, call, batch>>

\* #abandonVerdict answers "object": given up, claimed by no asset, and with no
\* reconcile job that could still commit it.
Abandoned(m) ==
    /\ asset[m] = "abandoned"
    /\ m \notin named
    /\ job["reconcile"][m] \notin LiveJob

\* Lock 1: close the grant and decide, on the rows as they are now.
JanitorClose ==
    /\ call = NoCall
    /\ batch # <<>> /\ sweep = "close"
    /\ LET m == Head(batch) IN
         /\ m \notin fenced /\ Rows(m)
         /\ grant' = [grant EXCEPT ![m] = "closed"]
         /\ IF Abandoned(m) THEN sweep' = "object" /\ UNCHANGED batch ELSE NextCandidate
    /\ UNCHANGED <<room, asset, named, intent, recorded, bound, queue, fenced, storeVars,
                   jobVars, worker, call>>

\* The destination is erased between the two locks.
JanitorErase ==
    /\ batch # <<>> /\ sweep = "object"
    /\ Erase(Head(batch), {"original"})
    /\ sweep' = "retire"
    /\ UNCHANGED <<room, rowVars, fenced, url, puts, copies, jobVars, worker, call, batch>>

\* Lock 2: the same question again, then both rows go.
JanitorRetire ==
    /\ call = NoCall
    /\ batch # <<>> /\ sweep = "retire"
    /\ LET m == Head(batch) IN
         /\ m \notin fenced /\ Abandoned(m)
         /\ asset' = [asset EXCEPT ![m] = "gone"]
         /\ grant' = [grant EXCEPT ![m] = "none"]
    /\ NextCandidate
    /\ UNCHANGED <<room, queue, named, intent, recorded, bound, fenced, storeVars, jobVars, worker,
                   call>>

\* A store error, a moved fence, changed rows or a lost transaction: deferred.
JanitorDefers ==
    /\ batch # <<>>
    /\ NextCandidate
    /\ UNCHANGED <<room, rowVars, fenced, storeVars, jobVars, worker, call>>

-----------------------------------------------------------------------------
MediaNext ==
    \/ \E m \in Media : Reserve(m) \/ Activate(m) \/ Revoke(m) \/ StartPut(m)
                         \/ PutEnds(m) \/ CopyEnds(m) \/ UrlExpires(m) \/ FencePasses(m)
    \/ \E m \in Media, c \in Calls :
          FinalizeBegin(m, c) \/ FinalizeIntent(m, c) \/ FinalizeFence(m, c)
          \/ FinalizeCopy(m, c) \/ FinalizeConfirm(m, c) \/ FinalizeCommit(m, c)
    \/ CallFails
    \/ \E m \in Media, f \in Family : ClaimJob(f, m) \/ FailJob(f, m) \/ SettleJob(f, m)
    \/ \E m \in Media : ReconcileDone(m) \/ ReconcileCommit(m) \/ ReconcileAbandon(m)
    \/ \E m \in Media : ProcessStart(m) \/ Attach(m)
    \/ \E m \in Media, t \in Attempts : WriteDerivative(m, t) \/ AttemptEnds(m, t)
    \/ \E m \in Media, t \in Attempts, s \in {"ready", "quarantined", "failed"} :
          Report(m, t, s)
    \/ Overdue \/ EndRoom
    \/ JanitorSelect \/ JanitorStaging \/ JanitorClose \/ JanitorErase \/ JanitorRetire
    \/ JanitorDefers

MediaSpec == MediaInit /\ [][MediaNext]_mediaVars

-----------------------------------------------------------------------------
(* What the upload pipeline promises.                                      *)

\* "Rows may outlive the object, the object may never outlive the rows": every
\* staging object and every copy, one in flight included, is named by a row that
\* a room deletion would find (the ordering of the janitor's two locks, the fence
\* of finalize and the reconcile job's settlement).
ObjectsHaveRows ==
    \A m \in Media :
      /\ ("staging" \in store[m] \/ m \in puts \/ url[m] = "valid") => Rows(m)
      /\ ("original" \in store[m] \/ m \in copies) =>
           Rows(m) /\ (m \in named \/ intent[m] # NoCall)

\* An asset that names its original finds it in the store, whatever finalize,
\* reconcile, a late copy and the janitor did in between.
OriginalKept == \A m \in named : Rows(m) /\ "original" \in store[m]

\* What a student may download is there: a medium that is ready has the derivative
\* its row names, and no retry, late report or reconcile takes the state back.
ReadyStays ==
    [][\A m \in Media : asset[m] = "ready" =>
         /\ asset'[m] = "ready"
         /\ m \in recorded' /\ "derivative" \in store'[m]]_mediaVars

\* A medium that was rejected is not brought back ("stable terminal rejections").
\* The code does not keep this: see the observations in README.md.
TerminalStays ==
    [][\A m \in Media : asset[m] \in {"quarantined", "failed"} =>
         asset'[m] = asset[m]]_mediaVars

\* BatchSize older grants past their fence stand before m's.  The selection does not
\* leave out the grants that are already closed, so unless one of them is retired m
\* is out of the janitor's reach for good: see the observations in README.md.
Crowded(m) ==
    Cardinality({k \in Media : grant[k] # "none" /\ k \notin fenced /\ Earlier(k, m)})
        >= BatchSize

\* A staging object that is the janitor's to remove, now or past its fence.
Unswept == \E m \in Media : "staging" \in store[m] /\ ~Crowded(m)

\* No object without its rows, and no named original lost.
MediaSafe == MediaTypeOK /\ ObjectsHaveRows /\ OriginalKept
===============================================================================

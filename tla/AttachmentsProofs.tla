-------------------------- MODULE AttachmentsProofs --------------------------
(***************************************************************************)
(* Proofs about attachments, from the upload to the card.  For any media,   *)
(* finalize calls, attempts and batches the upload pipeline keeps its       *)
(* objects and its rows together; for any number of events, disconnects and *)
(* downloads a card's bytes and draft belong to what the card shows; for    *)
(* any number of uploads, messages, slots, requests and status changes the  *)
(* dock's microphone, slots and submissions are what its trays show.        *)
(***************************************************************************)
EXTENDS Media, Dock, Transcript, FiniteSetTheorems, SequenceTheorems, TLAPS

-----------------------------------------------------------------------------
(* The upload pipeline.                                                    *)

\* The call that holds the room's session lock is about an upload that is still
\* pending; a finalize has its intent recorded before it copies, copies under the
\* fence and commits what is there.
CallIsPending ==
    call # NoCall =>
        /\ asset[call.medium] = "upload_pending"
        /\ call.step \in {"fence", "copy", "wait", "commit"} => intent[call.medium] # NoCall
        /\ call.step = "copy" => call.medium \in fenced
        /\ call.step = "commit" => "original" \in store[call.medium]

\* Whatever may still write an object does so under the fence.
FenceCovers ==
    \A m \in Media : url[m] = "valid" \/ m \in puts \/ m \in copies => m \in fenced

\* What was never reserved has no reconcile job; what was given up has had its
\* last one, has no staging object and is never fenced again.
GivenUp ==
    \A m \in Media :
        /\ asset[m] = "none" => job["reconcile"][m] = "absent"
        /\ asset[m] \in {"abandoned", "gone"} =>
              /\ job["reconcile"][m] \in {"committed", "succeeded", "cancelled"}
              /\ m \notin fenced /\ "staging" \notin store[m]

\* Between its two locks the janitor is at a medium that stays given up.
SweepIsRight ==
    /\ batch = <<>> => sweep = "staging"
    /\ batch # <<>> =>
        /\ sweep \in {"object", "retire"} => Abandoned(Head(batch))
        /\ sweep = "retire" => "original" \notin store[Head(batch)]

\* A medium has an outcome only after it was promoted, and is ready only with the
\* derivative that an attempt has written.
OutcomeFollows ==
    \A m \in Media :
        /\ asset[m] \in {"uploaded", "ready", "quarantined", "failed"} => m \in named
        /\ \A t \in Attempts : worker[m][t] = "reporting" => "derivative" \in store[m]
        /\ asset[m] = "ready" => m \in recorded /\ "derivative" \in store[m]

\* A job that may be claimed has an attempt left.
TriesBounded ==
    \A f \in Family, m \in Media :
        /\ job[f][m] = "absent" => tries[f][m] = 0
        /\ job[f][m] = "queued" => tries[f][m] < MaxAttempts

MInv ==
    /\ MediaTypeOK
    /\ CallIsPending /\ FenceCovers /\ GivenUp /\ SweepIsRight
    /\ OutcomeFollows /\ TriesBounded
    /\ ObjectsHaveRows /\ OriginalKept

-----------------------------------------------------------------------------
(* Types.                                                                  *)

\* Every step keeps the state well typed; attempts stay within max_attempts.
LEMMA MediaType == MInv /\ [MediaNext]_mediaVars => MediaTypeOK'
<1> SUFFICES ASSUME MInv, [MediaNext]_mediaVars PROVE MediaTypeOK'
  OBVIOUS
<1> USE DEF MInv, MediaTypeOK, rowVars, storeVars, jobVars, janitorVars
<1>1. ASSUME NEW m \in Media, Reserve(m) PROVE MediaTypeOK'
  BY <1>1, NoCallAssumption DEF Reserve, Writable, Running, AssetState, GrantState, ServerCalls
<1>2. ASSUME NEW m \in Media, Activate(m) PROVE MediaTypeOK'
  BY <1>2, NoCallAssumption DEF Activate, Writable, Running, GrantState
<1>3. ASSUME NEW m \in Media, Revoke(m) PROVE MediaTypeOK'
  BY <1>3, NoCallAssumption DEF Revoke, Running, GrantState
<1>4. ASSUME NEW m \in Media, StartPut(m) PROVE MediaTypeOK'
  BY <1>4 DEF StartPut
<1>5. ASSUME NEW m \in Media, UrlExpires(m) PROVE MediaTypeOK'
  BY <1>5 DEF UrlExpires
<1>6. ASSUME NEW m \in Media, FencePasses(m) PROVE MediaTypeOK'
  BY <1>6 DEF FencePasses
<1>7. ASSUME NEW m \in Media, PutEnds(m) PROVE MediaTypeOK'
  <2>1. store[m] \cup {"staging"} \in SUBSET Objects
    BY DEF Objects
  <2>2. store' \in [Media -> SUBSET Objects]
    BY <1>7, <2>1 DEF PutEnds, Put
  <2> QED
    BY <1>7, <2>2 DEF PutEnds
<1>8. ASSUME NEW m \in Media, CopyEnds(m) PROVE MediaTypeOK'
  <2>1. store[m] \cup {"original"} \in SUBSET Objects
    BY DEF Objects
  <2>2. store' \in [Media -> SUBSET Objects]
    BY <1>8, <2>1 DEF CopyEnds, Put
  <2> QED
    BY <1>8, <2>2 DEF CopyEnds
<1>9. ASSUME NEW m \in Media, NEW c \in Calls, FinalizeBegin(m, c) PROVE MediaTypeOK'
  BY <1>9, NoCallAssumption DEF FinalizeBegin, Writable, Running, ServerCalls
<1>10. ASSUME NEW m \in Media, NEW c \in Calls, FinalizeIntent(m, c) PROVE MediaTypeOK'
  BY <1>10, NoCallAssumption DEF FinalizeIntent, Writable, Running, Enqueued, ServerCalls, Family,
     JobState
<1>11. ASSUME NEW m \in Media, NEW c \in Calls, FinalizeCopy(m, c) PROVE MediaTypeOK'
  BY <1>11, NoCallAssumption DEF FinalizeCopy, Running, ServerCalls
<1>12. ASSUME NEW m \in Media, NEW c \in Calls, FinalizeConfirm(m, c) PROVE MediaTypeOK'
  BY <1>12, NoCallAssumption DEF FinalizeConfirm, Running, ServerCalls
<1>13. ASSUME NEW m \in Media, NEW c \in Calls, FinalizeCommit(m, c) PROVE MediaTypeOK'
  BY <1>13, NoCallAssumption DEF FinalizeCommit, Writable, Running, Enqueued, AssetState,
     GrantState, Family, JobState
<1>14. CASE CallFails
  BY <1>14 DEF CallFails
<1>15. ASSUME NEW m \in Media, NEW f \in Family, ClaimJob(f, m) PROVE MediaTypeOK'
  <2>1. tries[f][m] + 1 \in 0 .. MaxAttempts
    BY <1>15, MediaAttemptsAssumption DEF ClaimJob, TriesBounded
  <2>2. "running" \in JobState
    BY DEF JobState
  <2> QED
    BY <1>15, <2>1, <2>2 DEF ClaimJob
<1>16. ASSUME NEW m \in Media, NEW f \in Family, FailJob(f, m) PROVE MediaTypeOK'
  BY <1>16 DEF FailJob, JobState
<1>17. ASSUME NEW m \in Media, NEW f \in Family, SettleJob(f, m) PROVE MediaTypeOK'
  BY <1>17 DEF SettleJob, JobState
<1>18. ASSUME NEW m \in Media, ReconcileDone(m) PROVE MediaTypeOK'
  BY <1>18 DEF ReconcileDone, Family, JobState
<1>19. ASSUME NEW m \in Media, ReconcileCommit(m) PROVE MediaTypeOK'
  BY <1>19 DEF ReconcileCommit, Enqueued, Promoted, AssetState, GrantState, Family, JobState
<1>20. ASSUME NEW m \in Media, ReconcileAbandon(m) PROVE MediaTypeOK'
  BY <1>20 DEF ReconcileAbandon, Erase, Promoted, AssetState, GrantState, Family, JobState, Objects
<1>21. ASSUME NEW m \in Media, ProcessStart(m) PROVE MediaTypeOK'
  BY <1>21 DEF ProcessStart
<1>22. ASSUME NEW m \in Media, Attach(m) PROVE MediaTypeOK'
  BY <1>22 DEF Attach
<1>23. ASSUME NEW m \in Media, NEW t \in Attempts, WriteDerivative(m, t) PROVE MediaTypeOK'
  BY <1>23 DEF WriteDerivative, Put, Objects
<1>24. ASSUME NEW m \in Media, NEW t \in Attempts, AttemptEnds(m, t) PROVE MediaTypeOK'
  BY <1>24 DEF AttemptEnds
<1>25. ASSUME NEW m \in Media, NEW t \in Attempts,
             NEW s \in {"ready", "quarantined", "failed"}, Report(m, t, s) PROVE MediaTypeOK'
  BY <1>25 DEF Report, Reportable, AssetState, Family, JobState
<1>26. CASE Overdue
  BY <1>26 DEF Overdue
<1>27. CASE EndRoom
  BY <1>27 DEF EndRoom, JobState
<1>28. CASE JanitorSelect
  <2>1. PICK n \in 1 .. BatchSize : batch' \in [1 .. n -> PastFence]
    BY <1>28 DEF JanitorSelect, Batches
  <2>2. n \in Nat /\ PastFence \subseteq Media
    BY BatchAssumption DEF PastFence
  <2>3. batch' \in Seq(Media)
    BY <2>1, <2>2
  <2> QED
    BY <1>28, <2>3 DEF JanitorSelect
<1>29. CASE JanitorStaging
  BY <1>29 DEF JanitorStaging, Erase, Objects
<1>30. CASE JanitorClose
  <2>1. Head(batch) \in Media /\ Tail(batch) \in Seq(Media)
    BY <1>30, HeadTailProperties DEF JanitorClose
  <2>2. CASE Abandoned(Head(batch))
    BY <1>30, <2>1, <2>2 DEF JanitorClose, GrantState
  <2>3. CASE ~Abandoned(Head(batch))
    BY <1>30, <2>1, <2>3 DEF JanitorClose, NextCandidate, GrantState
  <2> QED
    BY <2>2, <2>3
<1>31. CASE JanitorErase
  BY <1>31 DEF JanitorErase, Erase, Objects
<1>32. CASE JanitorRetire
  BY <1>32 DEF JanitorRetire, NextCandidate, AssetState, GrantState
<1>33. CASE JanitorDefers
  BY <1>33 DEF JanitorDefers, NextCandidate
<1>34. CASE UNCHANGED mediaVars
  BY <1>34 DEF mediaVars
<1>35. ASSUME NEW m \in Media, NEW c \in Calls, FinalizeFence(m, c) PROVE MediaTypeOK'
  BY <1>35, NoCallAssumption DEF FinalizeFence, Running, ServerCalls
<1> QED
  BY <1>1, <1>2, <1>3, <1>4, <1>5, <1>6, <1>7, <1>8, <1>9, <1>10, <1>11, <1>12, <1>13, <1>14,
     <1>15, <1>16, <1>17, <1>18, <1>19, <1>20, <1>21, <1>22, <1>23, <1>24, <1>25, <1>26, <1>27,
     <1>35, <1>28, <1>29, <1>30, <1>31, <1>32, <1>33, <1>34 DEF MediaNext

-----------------------------------------------------------------------------
(* Every step keeps the invariant.                                         *)

\* A grant is reserved, activated or revoked, and its URL used until it expires.
LEMMA ReservationStep ==
    ASSUME MInv, MediaTypeOK',
           \/ \E m \in Media :
                Reserve(m) \/ Activate(m) \/ Revoke(m) \/ StartPut(m) \/ UrlExpires(m)
                \/ FencePasses(m)
    PROVE  MInv'
<1> USE DEF MInv, MediaTypeOK, rowVars, storeVars, jobVars, janitorVars
<1>1. ASSUME NEW m \in Media, Reserve(m) PROVE MInv'
  <2>1. CallIsPending'
    BY <1>1 DEF Reserve, Writable, Running, CallIsPending
  <2>2. FenceCovers'
    BY <1>1 DEF Reserve, Writable, Running, FenceCovers
  <2>3. GivenUp'
    BY <1>1 DEF Reserve, Writable, Running, GivenUp
  <2>4. SweepIsRight'
    BY <1>1 DEF Reserve, Writable, Running, SweepIsRight, Abandoned
  <2>5. OutcomeFollows'
    BY <1>1 DEF Reserve, Writable, Running, OutcomeFollows
  <2>6. ObjectsHaveRows'
    BY <1>1 DEF Reserve, Writable, Running, ObjectsHaveRows, Rows
  <2>7. OriginalKept'
    BY <1>1 DEF Reserve, Writable, Running, OriginalKept, Rows
  <2>8. TriesBounded'
    BY <1>1 DEF Reserve, Writable, Running, TriesBounded
  <2> QED
    BY <2>1, <2>2, <2>3, <2>4, <2>5, <2>6, <2>7, <2>8
<1>2. ASSUME NEW m \in Media, Activate(m) PROVE MInv'
  <2>1. CallIsPending'
    BY <1>2 DEF Activate, Writable, Running, CallIsPending
  <2>2. FenceCovers'
    BY <1>2 DEF Activate, Writable, Running, FenceCovers
  <2>3. GivenUp'
    BY <1>2, NoCallAssumption DEF Activate, Writable, Running, GivenUp, Abandoned, CallIsPending,
       FenceCovers, ServerCalls, LiveJob, Family
  <2>4. ObjectsHaveRows'
    BY <1>2, NoCallAssumption DEF Activate, Writable, Running, ObjectsHaveRows, Rows,
       CallIsPending, FenceCovers, ServerCalls, GivenUp, SweepIsRight, Abandoned, Family
  <2>5. SweepIsRight' /\ OutcomeFollows' /\ TriesBounded' /\ OriginalKept'
    BY <1>2 DEF Activate, Writable, Running, SweepIsRight, OutcomeFollows, TriesBounded,
       OriginalKept, Abandoned, Rows
  <2> QED
    BY <2>1, <2>2, <2>3, <2>4, <2>5
<1>3. ASSUME NEW m \in Media, Revoke(m) PROVE MInv'
  <2>1. CallIsPending'
    BY <1>3 DEF Revoke, Running, CallIsPending
  <2>2. FenceCovers' /\ GivenUp' /\ SweepIsRight' /\ OutcomeFollows' /\ TriesBounded' /\ ObjectsHaveRows' /\ OriginalKept'
    BY <1>3 DEF Revoke, Running, FenceCovers, GivenUp, SweepIsRight, OutcomeFollows, TriesBounded,
       ObjectsHaveRows, OriginalKept, Abandoned, Rows
  <2> QED
    BY <2>1, <2>2
<1>4. ASSUME NEW m \in Media, StartPut(m) PROVE MInv'
  <2>1. FenceCovers'
    BY <1>4 DEF StartPut, FenceCovers
  <2>2. ObjectsHaveRows'
    BY <1>4 DEF StartPut, ObjectsHaveRows, Rows
  <2>3. CallIsPending' /\ GivenUp' /\ SweepIsRight' /\ OutcomeFollows' /\ TriesBounded' /\ OriginalKept'
    BY <1>4 DEF StartPut, CallIsPending, GivenUp, SweepIsRight, OutcomeFollows, TriesBounded,
       OriginalKept, Abandoned, Rows
  <2> QED
    BY <2>1, <2>2, <2>3
<1>5. ASSUME NEW m \in Media, UrlExpires(m) PROVE MInv'
  <2>1. FenceCovers'
    BY <1>5 DEF UrlExpires, FenceCovers
  <2>2. ObjectsHaveRows'
    BY <1>5 DEF UrlExpires, ObjectsHaveRows, Rows
  <2>3. CallIsPending' /\ GivenUp' /\ SweepIsRight' /\ OutcomeFollows' /\ TriesBounded' /\ OriginalKept'
    BY <1>5 DEF UrlExpires, CallIsPending, GivenUp, SweepIsRight, OutcomeFollows, TriesBounded,
       OriginalKept, Abandoned, Rows
  <2> QED
    BY <2>1, <2>2, <2>3
<1>6. ASSUME NEW m \in Media, FencePasses(m) PROVE MInv'
  <2>1. FenceCovers'
    BY <1>6 DEF FencePasses, FenceCovers
  <2>2. GivenUp'
    BY <1>6 DEF FencePasses, GivenUp
  <2>3. CallIsPending' /\ SweepIsRight' /\ OutcomeFollows' /\ TriesBounded' /\ ObjectsHaveRows' /\ OriginalKept'
    BY <1>6 DEF FencePasses, CopyDue, CallIsPending, SweepIsRight, OutcomeFollows, TriesBounded,
       ObjectsHaveRows, OriginalKept, Abandoned, Rows
  <2> QED
    BY <2>1, <2>2, <2>3
<1> HIDE DEF MInv, MediaTypeOK
<1> QED
  BY <1>1, <1>2, <1>3, <1>4, <1>5, <1>6

\* The store answers a PUT or a copy.
LEMMA StoredStep ==
    ASSUME MInv, MediaTypeOK',
           \/ \E m \in Media :
                PutEnds(m) \/ CopyEnds(m)
    PROVE  MInv'
<1> USE DEF MInv, MediaTypeOK, rowVars, storeVars, jobVars, janitorVars
<1>1. ASSUME NEW m \in Media, PutEnds(m) PROVE MInv'
  <2>1. \A k \in Media : /\ store[k] \subseteq store'[k]
                         /\ \A x \in store'[k] \ store[k] : k = m /\ x = "staging"
    BY <1>1 DEF PutEnds, Put
  <2>2. m \in puts /\ puts' = puts \ {m}
    BY <1>1 DEF PutEnds
  <2>3. UNCHANGED <<asset, named, fenced, intent, recorded, url, copies, job, tries, worker, call,
                    batch, sweep>>
    BY <1>1 DEF PutEnds
  <2>4. CallIsPending'
    BY <2>1, <2>2, <2>3, NoCallAssumption DEF CallIsPending, ServerCalls, SweepIsRight, Abandoned
  <2>5. FenceCovers'
    BY <2>1, <2>2, <2>3 DEF FenceCovers
  <2>6. GivenUp'
    BY <2>1, <2>2, <2>3, NoCallAssumption DEF GivenUp, Abandoned, CallIsPending, FenceCovers,
       ServerCalls, LiveJob, Family
  <2>7. SweepIsRight'
    BY <2>1, <2>2, <2>3 DEF SweepIsRight, Abandoned
  <2>8. OutcomeFollows'
    BY <2>1, <2>2, <2>3 DEF OutcomeFollows
  <2>9. ObjectsHaveRows'
    BY <2>1, <2>2, <2>3 DEF ObjectsHaveRows, Rows
  <2>10. OriginalKept'
    BY <2>1, <2>2, <2>3 DEF OriginalKept, Rows
  <2>11. TriesBounded'
    BY <2>1, <2>2, <2>3 DEF TriesBounded
  <2> QED
    BY <2>4, <2>5, <2>6, <2>7, <2>8, <2>9, <2>10, <2>11
<1>2. ASSUME NEW m \in Media, CopyEnds(m) PROVE MInv'
  <2>1. \A k \in Media : /\ store[k] \subseteq store'[k]
                         /\ \A x \in store'[k] \ store[k] : k = m /\ x = "original"
    BY <1>2 DEF CopyEnds, Put
  <2>2. m \in copies /\ copies' = copies \ {m}
    BY <1>2 DEF CopyEnds
  <2>3. UNCHANGED <<asset, named, fenced, intent, recorded, url, puts, job, tries, worker, call,
                    batch, sweep>>
    BY <1>2 DEF CopyEnds
  <2>4. CallIsPending'
    BY <2>1, <2>2, <2>3, NoCallAssumption DEF CallIsPending, ServerCalls, SweepIsRight, Abandoned
  <2>5. FenceCovers'
    BY <2>1, <2>2, <2>3 DEF FenceCovers
  <2>6. GivenUp'
    BY <2>1, <2>2, <2>3 DEF GivenUp
  <2>7. SweepIsRight'
    BY <2>1, <2>2, <2>3, NoCallAssumption DEF SweepIsRight, Abandoned, GivenUp, CallIsPending,
       FenceCovers, ServerCalls, LiveJob, Family
  <2>8. OutcomeFollows'
    BY <2>1, <2>2, <2>3 DEF OutcomeFollows
  <2>9. ObjectsHaveRows'
    BY <2>1, <2>2, <2>3 DEF ObjectsHaveRows, Rows
  <2>10. OriginalKept'
    BY <2>1, <2>2, <2>3 DEF OriginalKept, Rows
  <2>11. TriesBounded'
    BY <2>1, <2>2, <2>3 DEF TriesBounded
  <2> QED
    BY <2>4, <2>5, <2>6, <2>7, <2>8, <2>9, <2>10, <2>11
<1> HIDE DEF MInv, MediaTypeOK
<1> QED
  BY <1>1, <1>2

\* A finalize records its intent, copies under the fence and commits what it has seen.
LEMMA FinalizeStep ==
    ASSUME MInv, MediaTypeOK',
           \/ \E m \in Media, c \in Calls :
                FinalizeBegin(m, c) \/ FinalizeIntent(m, c) \/ FinalizeFence(m, c)
                \/ FinalizeCopy(m, c) \/ FinalizeConfirm(m, c) \/ FinalizeCommit(m, c)
           \/ CallFails
    PROVE  MInv'
<1> USE DEF MInv, MediaTypeOK, rowVars, storeVars, jobVars, janitorVars
<1>1. ASSUME NEW m \in Media, NEW c \in Calls, FinalizeBegin(m, c) PROVE MInv'
  <2>1. CallIsPending'
    BY <1>1 DEF FinalizeBegin, Writable, Running, CallIsPending
  <2>2. FenceCovers' /\ GivenUp' /\ SweepIsRight' /\ OutcomeFollows' /\ TriesBounded' /\ ObjectsHaveRows' /\ OriginalKept'
    BY <1>1 DEF FinalizeBegin, Writable, Running, FenceCovers, GivenUp, SweepIsRight,
       OutcomeFollows, TriesBounded, ObjectsHaveRows, OriginalKept, Abandoned, Rows
  <2> QED
    BY <2>1, <2>2
<1>2. ASSUME NEW m \in Media, NEW c \in Calls, FinalizeIntent(m, c) PROVE MInv'
  <2>1. CallIsPending'
    BY <1>2, NoCallAssumption DEF FinalizeIntent, Writable, Running, Enqueued, CallIsPending,
       ServerCalls, SweepIsRight, Abandoned
  <2>2. FenceCovers'
    BY <1>2 DEF FinalizeIntent, Writable, Running, Enqueued, FenceCovers
  <2>3. GivenUp'
    BY <1>2, NoCallAssumption DEF FinalizeIntent, Writable, Running, Enqueued, GivenUp, Abandoned,
       CallIsPending, FenceCovers, ServerCalls, LiveJob, Family
  <2>4. SweepIsRight'
    BY <1>2, NoCallAssumption DEF FinalizeIntent, Writable, Running, Enqueued, SweepIsRight,
       Abandoned, GivenUp, CallIsPending, FenceCovers, ServerCalls, LiveJob, Family
  <2>5. TriesBounded'
    BY <1>2, MediaAttemptsAssumption DEF FinalizeIntent, Writable, Running, Enqueued,
       TriesBounded, Family
  <2>6. ObjectsHaveRows'
    BY <1>2 DEF FinalizeIntent, Writable, Running, Enqueued, ObjectsHaveRows, Rows
  <2>7. OutcomeFollows' /\ OriginalKept'
    BY <1>2 DEF FinalizeIntent, Writable, Running, Enqueued, OutcomeFollows, OriginalKept, Rows
  <2> QED
    BY <2>1, <2>2, <2>3, <2>4, <2>5, <2>6, <2>7
<1>3. ASSUME NEW m \in Media, NEW c \in Calls, FinalizeCopy(m, c) PROVE MInv'
  <2>1. CallIsPending'
    BY <1>3, NoCallAssumption DEF FinalizeCopy, Running, CallIsPending, ServerCalls, SweepIsRight,
       Abandoned
  <2>2. FenceCovers'
    BY <1>3, NoCallAssumption DEF FinalizeCopy, Running, FenceCovers, CallIsPending, ServerCalls
  <2>3. GivenUp'
    BY <1>3, NoCallAssumption DEF FinalizeCopy, Running, GivenUp, Abandoned, CallIsPending,
       FenceCovers, ServerCalls, LiveJob, Family
  <2>4. ObjectsHaveRows'
    BY <1>3, NoCallAssumption DEF FinalizeCopy, Running, ObjectsHaveRows, Rows, CallIsPending,
       FenceCovers, ServerCalls, GivenUp, SweepIsRight, Abandoned, Family
  <2>5. SweepIsRight' /\ OutcomeFollows' /\ TriesBounded' /\ OriginalKept'
    BY <1>3 DEF FinalizeCopy, Running, SweepIsRight, OutcomeFollows, TriesBounded, OriginalKept,
       Abandoned, Rows
  <2> QED
    BY <2>1, <2>2, <2>3, <2>4, <2>5
<1>4. ASSUME NEW m \in Media, NEW c \in Calls, FinalizeConfirm(m, c) PROVE MInv'
  <2>1. CallIsPending'
    BY <1>4, NoCallAssumption DEF FinalizeConfirm, Running, CallIsPending, ServerCalls,
       SweepIsRight, Abandoned
  <2>2. FenceCovers' /\ GivenUp' /\ SweepIsRight' /\ OutcomeFollows' /\ TriesBounded' /\ ObjectsHaveRows' /\ OriginalKept'
    BY <1>4 DEF FinalizeConfirm, Running, FenceCovers, GivenUp, SweepIsRight, OutcomeFollows,
       TriesBounded, ObjectsHaveRows, OriginalKept, Abandoned, Rows
  <2> QED
    BY <2>1, <2>2
<1>5. ASSUME NEW m \in Media, NEW c \in Calls, FinalizeCommit(m, c) PROVE MInv'
  <2>1. CallIsPending'
    BY <1>5 DEF FinalizeCommit, Writable, Running, Enqueued, CallIsPending
  <2>2. GivenUp'
    BY <1>5 DEF FinalizeCommit, Writable, Running, Enqueued, GivenUp
  <2>3. SweepIsRight'
    BY <1>5, NoCallAssumption DEF FinalizeCommit, Writable, Running, Enqueued, SweepIsRight,
       Abandoned, GivenUp, CallIsPending, FenceCovers, ServerCalls, LiveJob, Family
  <2>4. OutcomeFollows'
    BY <1>5 DEF FinalizeCommit, Writable, Running, Enqueued, OutcomeFollows
  <2>5. TriesBounded'
    BY <1>5, MediaAttemptsAssumption DEF FinalizeCommit, Writable, Running, Enqueued,
       TriesBounded, Family
  <2>6. ObjectsHaveRows'
    BY <1>5 DEF FinalizeCommit, Writable, Running, Enqueued, ObjectsHaveRows, Rows
  <2>7. OriginalKept'
    BY <1>5, NoCallAssumption DEF FinalizeCommit, Writable, Running, Enqueued, OriginalKept, Rows,
       CallIsPending, ServerCalls, GivenUp, SweepIsRight, Abandoned, Family
  <2>8. FenceCovers'
    BY <1>5 DEF FinalizeCommit, Writable, Running, Enqueued, FenceCovers
  <2> QED
    BY <2>1, <2>2, <2>3, <2>4, <2>5, <2>6, <2>7, <2>8
<1>6. CASE CallFails
  <2>1. CallIsPending'
    BY <1>6 DEF CallFails, CallIsPending
  <2>2. FenceCovers' /\ GivenUp' /\ SweepIsRight' /\ OutcomeFollows' /\ TriesBounded' /\ ObjectsHaveRows' /\ OriginalKept'
    BY <1>6 DEF CallFails, FenceCovers, GivenUp, SweepIsRight, OutcomeFollows, TriesBounded,
       ObjectsHaveRows, OriginalKept, Abandoned, Rows
  <2> QED
    BY <2>1, <2>2
<1>7. ASSUME NEW m \in Media, NEW c \in Calls, FinalizeFence(m, c) PROVE MInv'
  <2>1. CallIsPending'
    BY <1>7, NoCallAssumption DEF FinalizeFence, Running, CallIsPending, ServerCalls
  <2>2. FenceCovers'
    BY <1>7 DEF FinalizeFence, Running, FenceCovers
  <2>3. GivenUp'
    BY <1>7, NoCallAssumption DEF FinalizeFence, Running, GivenUp, CallIsPending, ServerCalls
  <2>4. SweepIsRight' /\ OutcomeFollows' /\ TriesBounded' /\ ObjectsHaveRows' /\ OriginalKept'
    BY <1>7 DEF FinalizeFence, Running, SweepIsRight, OutcomeFollows, TriesBounded,
       ObjectsHaveRows, OriginalKept, Abandoned, Rows
  <2> QED
    BY <2>1, <2>2, <2>3, <2>4
<1> HIDE DEF MInv, MediaTypeOK
<1> QED
  BY <1>1, <1>2, <1>3, <1>4, <1>5, <1>6, <1>7

\* Jobs are claimed, retried and settled.
LEMMA JobStep ==
    ASSUME MInv, MediaTypeOK',
           \/ \E m \in Media, f \in Family :
                ClaimJob(f, m) \/ FailJob(f, m) \/ SettleJob(f, m)
    PROVE  MInv'
<1> USE DEF MInv, MediaTypeOK, rowVars, storeVars, jobVars, janitorVars
<1>1. ASSUME NEW m \in Media, NEW f \in Family, ClaimJob(f, m) PROVE MInv'
  <2>1. GivenUp'
    BY <1>1 DEF ClaimJob, GivenUp
  <2>2. SweepIsRight'
    BY <1>1, NoCallAssumption DEF ClaimJob, SweepIsRight, Abandoned, GivenUp, CallIsPending,
       FenceCovers, ServerCalls, LiveJob, Family
  <2>3. TriesBounded'
    BY <1>1 DEF ClaimJob, TriesBounded
  <2>4. CallIsPending' /\ FenceCovers' /\ OutcomeFollows' /\ ObjectsHaveRows' /\ OriginalKept'
    BY <1>1 DEF ClaimJob, CallIsPending, FenceCovers, OutcomeFollows, ObjectsHaveRows,
       OriginalKept, Rows
  <2> QED
    BY <2>1, <2>2, <2>3, <2>4
<1>2. ASSUME NEW m \in Media, NEW f \in Family, FailJob(f, m) PROVE MInv'
  <2>1. GivenUp'
    BY <1>2 DEF FailJob, GivenUp
  <2>2. SweepIsRight'
    BY <1>2, NoCallAssumption DEF FailJob, SweepIsRight, Abandoned, GivenUp, CallIsPending,
       FenceCovers, ServerCalls, LiveJob, Family
  <2>3. TriesBounded'
    BY <1>2, MediaAttemptsAssumption DEF FailJob, TriesBounded, Family
  <2>4. CallIsPending' /\ FenceCovers' /\ OutcomeFollows' /\ ObjectsHaveRows' /\ OriginalKept'
    BY <1>2 DEF FailJob, CallIsPending, FenceCovers, OutcomeFollows, ObjectsHaveRows,
       OriginalKept, Rows
  <2> QED
    BY <2>1, <2>2, <2>3, <2>4
<1>3. ASSUME NEW m \in Media, NEW f \in Family, SettleJob(f, m) PROVE MInv'
  <2>1. GivenUp'
    BY <1>3 DEF SettleJob, GivenUp
  <2>2. SweepIsRight'
    BY <1>3, NoCallAssumption DEF SettleJob, SweepIsRight, Abandoned, GivenUp, CallIsPending,
       FenceCovers, ServerCalls, LiveJob, Family
  <2>3. TriesBounded'
    BY <1>3 DEF SettleJob, TriesBounded
  <2>4. CallIsPending' /\ FenceCovers' /\ OutcomeFollows' /\ ObjectsHaveRows' /\ OriginalKept'
    BY <1>3 DEF SettleJob, CallIsPending, FenceCovers, OutcomeFollows, ObjectsHaveRows,
       OriginalKept, Rows
  <2> QED
    BY <2>1, <2>2, <2>3, <2>4
<1> HIDE DEF MInv, MediaTypeOK
<1> QED
  BY <1>1, <1>2, <1>3

\* The reconcile job commits what finalize left, or gives it up.
LEMMA ReconcileStep ==
    ASSUME MInv, MediaTypeOK',
           \/ \E m \in Media :
                ReconcileDone(m) \/ ReconcileCommit(m) \/ ReconcileAbandon(m)
    PROVE  MInv'
<1> USE DEF MInv, MediaTypeOK, rowVars, storeVars, jobVars, janitorVars
<1>1. ASSUME NEW m \in Media, ReconcileDone(m) PROVE MInv'
  <2>1. GivenUp'
    BY <1>1 DEF ReconcileDone, GivenUp
  <2>2. SweepIsRight'
    BY <1>1, NoCallAssumption DEF ReconcileDone, SweepIsRight, Abandoned, GivenUp, CallIsPending,
       FenceCovers, ServerCalls, LiveJob, Family
  <2>3. TriesBounded'
    BY <1>1 DEF ReconcileDone, TriesBounded
  <2>4. CallIsPending' /\ FenceCovers' /\ OutcomeFollows' /\ ObjectsHaveRows' /\ OriginalKept'
    BY <1>1 DEF ReconcileDone, CallIsPending, FenceCovers, OutcomeFollows, ObjectsHaveRows,
       OriginalKept, Rows
  <2> QED
    BY <2>1, <2>2, <2>3, <2>4
<1>2. ASSUME NEW m \in Media, ReconcileCommit(m) PROVE MInv'
  <2>1. CallIsPending'
    BY <1>2 DEF ReconcileCommit, Enqueued, Promoted, CallIsPending
  <2>2. GivenUp'
    BY <1>2 DEF ReconcileCommit, Enqueued, Promoted, GivenUp
  <2>3. SweepIsRight'
    BY <1>2, NoCallAssumption DEF ReconcileCommit, Enqueued, Promoted, SweepIsRight, Abandoned,
       GivenUp, CallIsPending, FenceCovers, ServerCalls, LiveJob, Family
  <2>4. OutcomeFollows'
    BY <1>2 DEF ReconcileCommit, Enqueued, Promoted, OutcomeFollows
  <2>5. TriesBounded'
    BY <1>2, MediaAttemptsAssumption DEF ReconcileCommit, Enqueued, Promoted, TriesBounded, Family
  <2>6. ObjectsHaveRows'
    BY <1>2 DEF ReconcileCommit, Enqueued, Promoted, ObjectsHaveRows, Rows
  <2>7. OriginalKept'
    BY <1>2 DEF ReconcileCommit, Enqueued, Promoted, OriginalKept, Rows
  <2>8. FenceCovers'
    BY <1>2 DEF ReconcileCommit, Enqueued, Promoted, FenceCovers
  <2> QED
    BY <2>1, <2>2, <2>3, <2>4, <2>5, <2>6, <2>7, <2>8
<1>3. ASSUME NEW m \in Media, ReconcileAbandon(m) PROVE MInv'
  <2>1. CallIsPending'
    BY <1>3 DEF ReconcileAbandon, Erase, Promoted, CallIsPending
  <2>2. GivenUp'
    BY <1>3 DEF ReconcileAbandon, Erase, Promoted, GivenUp
  <2>3. SweepIsRight'
    BY <1>3, NoCallAssumption, SMTT(30) DEF ReconcileAbandon, Erase, Promoted, SweepIsRight, Abandoned,
       GivenUp, CallIsPending, FenceCovers, ServerCalls, LiveJob, Family
  <2>4. OutcomeFollows'
    BY <1>3, SMTT(30) DEF ReconcileAbandon, Erase, Promoted, OutcomeFollows
  <2>5. TriesBounded'
    BY <1>3, SMTT(30) DEF ReconcileAbandon, Erase, Promoted, TriesBounded
  <2>6. ObjectsHaveRows'
    <3>1. \A k \in Media : store'[k] \subseteq store[k] /\ (Rows(k) => Rows(k)')
      BY <1>3 DEF ReconcileAbandon, Erase, Rows
    <3> QED
      BY <1>3, <3>1 DEF ReconcileAbandon, ObjectsHaveRows
  <2>7. OriginalKept'
    BY <1>3 DEF ReconcileAbandon, Erase, Promoted, OriginalKept, Rows
  <2>8. FenceCovers'
    BY <1>3 DEF ReconcileAbandon, Erase, Promoted, FenceCovers
  <2> QED
    BY <2>1, <2>2, <2>3, <2>4, <2>5, <2>6, <2>7, <2>8
<1> HIDE DEF MInv, MediaTypeOK
<1> QED
  BY <1>1, <1>2, <1>3

\* A medium is scanned, sanitized and reported; a message binds it; the room ends.
LEMMA ProcessStep ==
    ASSUME MInv, MediaTypeOK',
           \/ \E m \in Media :
                ProcessStart(m) \/ Attach(m)
           \/ \E m \in Media, t \in Attempts :
                WriteDerivative(m, t) \/ AttemptEnds(m, t)
           \/ \E m \in Media, t \in Attempts, s \in {"ready", "quarantined", "failed"} :
                Report(m, t, s)
           \/ Overdue \/ EndRoom
    PROVE  MInv'
<1> USE DEF MInv, MediaTypeOK, rowVars, storeVars, jobVars, janitorVars
<1>1. ASSUME NEW m \in Media, ProcessStart(m) PROVE MInv'
  <2>1. OutcomeFollows'
    BY <1>1 DEF ProcessStart, OutcomeFollows
  <2>2. CallIsPending' /\ FenceCovers' /\ GivenUp' /\ SweepIsRight' /\ TriesBounded' /\ ObjectsHaveRows' /\ OriginalKept'
    BY <1>1 DEF ProcessStart, CallIsPending, FenceCovers, GivenUp, SweepIsRight, TriesBounded,
       ObjectsHaveRows, OriginalKept, Abandoned, Rows
  <2> QED
    BY <2>1, <2>2
<1>2. ASSUME NEW m \in Media, Attach(m) PROVE MInv'
  BY <1>2 DEF Attach, CallIsPending, FenceCovers, GivenUp, SweepIsRight, OutcomeFollows,
     TriesBounded, ObjectsHaveRows, OriginalKept, Rows, Abandoned
<1>3. ASSUME NEW m \in Media, NEW t \in Attempts, WriteDerivative(m, t) PROVE MInv'
  <2>1. CallIsPending'
    BY <1>3 DEF WriteDerivative, Put, CallIsPending
  <2>2. GivenUp'
    BY <1>3 DEF WriteDerivative, Put, GivenUp
  <2>3. SweepIsRight'
    BY <1>3 DEF WriteDerivative, Put, SweepIsRight, Abandoned
  <2>4. OutcomeFollows'
    BY <1>3 DEF WriteDerivative, Put, OutcomeFollows
  <2>5. ObjectsHaveRows'
    BY <1>3 DEF WriteDerivative, Put, ObjectsHaveRows, Rows
  <2>6. OriginalKept'
    BY <1>3 DEF WriteDerivative, Put, OriginalKept, Rows
  <2>7. FenceCovers' /\ TriesBounded'
    BY <1>3 DEF WriteDerivative, Put, FenceCovers, TriesBounded
  <2> QED
    BY <2>1, <2>2, <2>3, <2>4, <2>5, <2>6, <2>7
<1>4. ASSUME NEW m \in Media, NEW t \in Attempts, AttemptEnds(m, t) PROVE MInv'
  <2>1. OutcomeFollows'
    BY <1>4 DEF AttemptEnds, OutcomeFollows
  <2>2. CallIsPending' /\ FenceCovers' /\ GivenUp' /\ SweepIsRight' /\ TriesBounded' /\ ObjectsHaveRows' /\ OriginalKept'
    BY <1>4 DEF AttemptEnds, CallIsPending, FenceCovers, GivenUp, SweepIsRight, TriesBounded,
       ObjectsHaveRows, OriginalKept, Abandoned, Rows
  <2> QED
    BY <2>1, <2>2
<1>5. ASSUME NEW m \in Media, NEW t \in Attempts,
             NEW s \in {"ready", "quarantined", "failed"}, Report(m, t, s) PROVE MInv'
  <2>1. CallIsPending'
    BY <1>5 DEF Report, Reportable, CallIsPending
  <2>2. GivenUp'
    BY <1>5 DEF Report, Reportable, GivenUp
  <2>3. SweepIsRight'
    BY <1>5 DEF Report, Reportable, SweepIsRight, Abandoned
  <2>4. OutcomeFollows'
    BY <1>5 DEF Report, Reportable, OutcomeFollows
  <2>5. TriesBounded'
    BY <1>5 DEF Report, Reportable, TriesBounded
  <2>6. ObjectsHaveRows'
    BY <1>5 DEF Report, Reportable, ObjectsHaveRows, Rows
  <2>7. OriginalKept'
    BY <1>5 DEF Report, Reportable, OriginalKept, Rows
  <2>8. FenceCovers'
    BY <1>5 DEF Report, Reportable, FenceCovers
  <2> QED
    BY <2>1, <2>2, <2>3, <2>4, <2>5, <2>6, <2>7, <2>8
<1>6. CASE Overdue
  BY <1>6 DEF Overdue, CallIsPending, FenceCovers, GivenUp, SweepIsRight, OutcomeFollows,
     TriesBounded, ObjectsHaveRows, OriginalKept, Rows, Abandoned
<1>7. CASE EndRoom
  <2>1. GivenUp'
    BY <1>7, NoCallAssumption DEF EndRoom, GivenUp, Abandoned, CallIsPending, FenceCovers,
       ServerCalls, LiveJob, Family
  <2>2. SweepIsRight'
    BY <1>7, NoCallAssumption DEF EndRoom, SweepIsRight, Abandoned, GivenUp, CallIsPending,
       FenceCovers, ServerCalls, LiveJob, Family
  <2>3. TriesBounded'
    BY <1>7 DEF EndRoom, TriesBounded
  <2>4. CallIsPending' /\ FenceCovers' /\ OutcomeFollows' /\ ObjectsHaveRows' /\ OriginalKept'
    BY <1>7 DEF EndRoom, CallIsPending, FenceCovers, OutcomeFollows, ObjectsHaveRows,
       OriginalKept, Rows
  <2> QED
    BY <2>1, <2>2, <2>3, <2>4
<1> HIDE DEF MInv, MediaTypeOK
<1> QED
  BY <1>1, <1>2, <1>3, <1>4, <1>5, <1>6, <1>7

\* The janitor erases staging objects, closes grants and retires what was given up.
LEMMA JanitorStep ==
    ASSUME MInv, MediaTypeOK',
           \/ JanitorSelect \/ JanitorStaging \/ JanitorClose \/ JanitorErase \/ JanitorRetire
           \/ JanitorDefers
    PROVE  MInv'
<1> USE DEF MInv, MediaTypeOK, rowVars, storeVars, jobVars, janitorVars
<1>1. CASE JanitorSelect
  <2>1. SweepIsRight'
    BY <1>1 DEF JanitorSelect, SweepIsRight, Abandoned
  <2>2. CallIsPending' /\ FenceCovers' /\ GivenUp' /\ OutcomeFollows' /\ TriesBounded' /\ ObjectsHaveRows' /\ OriginalKept'
    BY <1>1 DEF JanitorSelect, CallIsPending, FenceCovers, GivenUp, OutcomeFollows, TriesBounded,
       ObjectsHaveRows, OriginalKept, Rows
  <2> QED
    BY <2>1, <2>2
<1>2. CASE JanitorStaging
  <2>1. CallIsPending'
    BY <1>2 DEF JanitorStaging, Erase, CallIsPending
  <2>2. GivenUp'
    BY <1>2 DEF JanitorStaging, Erase, GivenUp
  <2>3. SweepIsRight'
    BY <1>2 DEF JanitorStaging, Erase, SweepIsRight, Abandoned
  <2>4. OutcomeFollows'
    BY <1>2 DEF JanitorStaging, Erase, OutcomeFollows
  <2>5. ObjectsHaveRows'
    BY <1>2 DEF JanitorStaging, Erase, ObjectsHaveRows, Rows
  <2>6. OriginalKept'
    BY <1>2 DEF JanitorStaging, Erase, OriginalKept, Rows
  <2>7. FenceCovers' /\ TriesBounded'
    BY <1>2 DEF JanitorStaging, Erase, FenceCovers, TriesBounded
  <2> QED
    BY <2>1, <2>2, <2>3, <2>4, <2>5, <2>6, <2>7
<1>3. CASE JanitorClose
  <2>1. SweepIsRight'
    BY <1>3 DEF JanitorClose, NextCandidate, SweepIsRight, Abandoned
  <2>2. CallIsPending' /\ FenceCovers' /\ GivenUp' /\ OutcomeFollows' /\ TriesBounded' /\ ObjectsHaveRows' /\ OriginalKept'
    BY <1>3 DEF JanitorClose, NextCandidate, CallIsPending, FenceCovers, GivenUp, OutcomeFollows,
       TriesBounded, ObjectsHaveRows, OriginalKept, Rows
  <2> QED
    BY <2>1, <2>2
<1>4. CASE JanitorErase
  <2>1. CallIsPending'
    BY <1>4, NoCallAssumption DEF JanitorErase, Erase, CallIsPending, ServerCalls, SweepIsRight,
       Abandoned
  <2>2. GivenUp'
    BY <1>4 DEF JanitorErase, Erase, GivenUp
  <2>3. SweepIsRight'
    BY <1>4 DEF JanitorErase, Erase, SweepIsRight, Abandoned
  <2>4. OutcomeFollows'
    BY <1>4 DEF JanitorErase, Erase, OutcomeFollows
  <2>5. ObjectsHaveRows'
    BY <1>4 DEF JanitorErase, Erase, ObjectsHaveRows, Rows
  <2>6. OriginalKept'
    BY <1>4, NoCallAssumption DEF JanitorErase, Erase, OriginalKept, Rows, CallIsPending,
       ServerCalls, GivenUp, SweepIsRight, Abandoned, Family
  <2>7. FenceCovers' /\ TriesBounded'
    BY <1>4 DEF JanitorErase, Erase, FenceCovers, TriesBounded
  <2> QED
    BY <2>1, <2>2, <2>3, <2>4, <2>5, <2>6, <2>7
<1>5. CASE JanitorRetire
  <2>1. CallIsPending'
    BY <1>5 DEF JanitorRetire, NextCandidate, CallIsPending
  <2>2. GivenUp'
    BY <1>5, NoCallAssumption DEF JanitorRetire, NextCandidate, GivenUp, Abandoned, CallIsPending,
       FenceCovers, ServerCalls, LiveJob, Family
  <2>3. SweepIsRight'
    BY <1>5 DEF JanitorRetire, NextCandidate, SweepIsRight, Abandoned
  <2>4. OutcomeFollows'
    BY <1>5 DEF JanitorRetire, NextCandidate, OutcomeFollows
  <2>5. ObjectsHaveRows'
    BY <1>5, NoCallAssumption DEF JanitorRetire, NextCandidate, ObjectsHaveRows, Rows,
       CallIsPending, FenceCovers, ServerCalls, GivenUp, SweepIsRight, Abandoned, Family
  <2>6. OriginalKept'
    BY <1>5, NoCallAssumption DEF JanitorRetire, NextCandidate, OriginalKept, Rows, CallIsPending,
       ServerCalls, GivenUp, SweepIsRight, Abandoned, Family
  <2>7. FenceCovers' /\ TriesBounded'
    BY <1>5 DEF JanitorRetire, NextCandidate, FenceCovers, TriesBounded
  <2> QED
    BY <2>1, <2>2, <2>3, <2>4, <2>5, <2>6, <2>7
<1>6. CASE JanitorDefers
  <2>1. SweepIsRight'
    BY <1>6 DEF JanitorDefers, NextCandidate, SweepIsRight, Abandoned
  <2>2. CallIsPending' /\ FenceCovers' /\ GivenUp' /\ OutcomeFollows' /\ TriesBounded' /\ ObjectsHaveRows' /\ OriginalKept'
    BY <1>6 DEF JanitorDefers, NextCandidate, CallIsPending, FenceCovers, GivenUp, OutcomeFollows,
       TriesBounded, ObjectsHaveRows, OriginalKept, Rows
  <2> QED
    BY <2>1, <2>2
<1> HIDE DEF MInv, MediaTypeOK
<1> QED
  BY <1>1, <1>2, <1>3, <1>4, <1>5, <1>6

\* The empty room satisfies the invariant.
LEMMA InitMInv == MediaInit => MInv
<1> SUFFICES ASSUME MediaInit PROVE MInv
  OBVIOUS
<1> USE DEF MediaInit
<1>1. MediaTypeOK
  BY MediaAttemptsAssumption DEF MediaTypeOK, AssetState, GrantState, JobState
<1>2. CallIsPending /\ FenceCovers /\ SweepIsRight
  BY DEF CallIsPending, FenceCovers, SweepIsRight
<1>3. GivenUp /\ OutcomeFollows
  BY DEF GivenUp, OutcomeFollows, Family
<1>4. TriesBounded
  BY MediaAttemptsAssumption DEF TriesBounded
<1>5. ObjectsHaveRows /\ OriginalKept
  BY DEF ObjectsHaveRows, OriginalKept
<1> QED
  BY <1>1, <1>2, <1>3, <1>4, <1>5 DEF MInv

\* Every step of the pipeline keeps it.
LEMMA NextMInv == MInv /\ [MediaNext]_mediaVars => MInv'
<1> SUFFICES ASSUME MInv, [MediaNext]_mediaVars PROVE MInv'
  OBVIOUS
<1>1. MediaTypeOK'
  BY MediaType
<1>2. CASE MediaNext
  BY <1>1, <1>2, ReservationStep, StoredStep, FinalizeStep, JobStep, ReconcileStep, ProcessStep,
     JanitorStep DEF MediaNext
<1>3. CASE UNCHANGED mediaVars
  <2> USE <1>3 DEF mediaVars, rowVars, storeVars, jobVars, janitorVars, MInv
  <2>1. CallIsPending' /\ FenceCovers'
    BY DEF CallIsPending, FenceCovers
  <2>2. GivenUp' /\ SweepIsRight'
    BY DEF GivenUp, SweepIsRight, Abandoned
  <2>3. OutcomeFollows' /\ TriesBounded'
    BY DEF OutcomeFollows, TriesBounded
  <2>4. ObjectsHaveRows' /\ OriginalKept'
    BY DEF ObjectsHaveRows, OriginalKept, Rows
  <2> QED
    BY <1>1, <2>1, <2>2, <2>3, <2>4
<1> QED
  BY <1>2, <1>3

-----------------------------------------------------------------------------

\* An object never outlives the rows that name it, and an asset that names its
\* original finds it, for any number of uploads, finalize calls, retries and sweeps
\* (MediaStagingJanitor, finalizeUpload, the reconcile route).
THEOREM MediaIsSafe == MediaSpec => []MediaSafe
<1>1. MInv => MediaSafe
  BY DEF MInv, MediaSafe
<1> QED
  BY <1>1, InitMInv, NextMInv, PTL DEF MediaSpec

\* What is ready stays ready and keeps its derivative, whatever is retried or reported
\* late (the outcome route's admission, the reconcile route's "already promoted").
THEOREM ReadyForGood == MediaSpec => ReadyStays
<1> DEFINE Stays == \A m \in Media : asset[m] = "ready" =>
                       /\ asset'[m] = "ready"
                       /\ m \in recorded' /\ "derivative" \in store'[m]
<1>1. MInv /\ MInv' /\ [MediaNext]_mediaVars => [Stays]_mediaVars
  <2> SUFFICES ASSUME MInv, MInv', MediaNext, NEW k \in Media, asset[k] = "ready"
               PROVE  asset'[k] = "ready"
    BY DEF MInv, OutcomeFollows
  <2>1. asset \in [Media -> AssetState] /\ k \in named
    BY DEF MInv, MediaTypeOK, OutcomeFollows
  <2>2. CASE asset' = asset
    BY <2>2
  <2>3. ASSUME NEW m \in Media, Reserve(m) PROVE asset'[k] = "ready"
    BY <2>1, <2>3 DEF Reserve
  <2>4. ASSUME NEW m \in Media, NEW c \in Calls, FinalizeCommit(m, c) PROVE asset'[k] = "ready"
    <3>1. asset[m] = "upload_pending"
      <4>1. call.medium = m /\ call \in ServerCalls
        BY <2>4 DEF FinalizeCommit, Running, ServerCalls
      <4> QED
        BY <4>1, NoCallAssumption DEF MInv, CallIsPending
    <3> QED
      BY <2>1, <2>4, <3>1 DEF FinalizeCommit
  <2>5. ASSUME NEW m \in Media, ReconcileCommit(m) \/ ReconcileAbandon(m)
        PROVE  asset'[k] = "ready"
    <3>1. m # k
      BY <2>1, <2>5 DEF ReconcileCommit, ReconcileAbandon, Promoted
    <3> QED
      BY <2>1, <2>5, <3>1 DEF ReconcileCommit, ReconcileAbandon
  <2>6. ASSUME NEW m \in Media, NEW t \in Attempts, NEW s \in {"ready", "quarantined", "failed"},
               Report(m, t, s)
        PROVE  asset'[k] = "ready"
    BY <2>1, <2>6 DEF Report, Reportable
  <2>7. CASE JanitorRetire
    BY <2>1, <2>7 DEF JanitorRetire, Abandoned
  <2>8. ASSUME NEW m \in Media,
               \/ Activate(m) \/ Revoke(m) \/ StartPut(m) \/ PutEnds(m) \/ CopyEnds(m)
               \/ UrlExpires(m) \/ FencePasses(m) \/ ReconcileDone(m) \/ ProcessStart(m)
               \/ Attach(m)
        PROVE  asset' = asset
    BY <2>8 DEF Activate, Revoke, StartPut, PutEnds, CopyEnds, UrlExpires, FencePasses,
                ReconcileDone, ProcessStart, Attach, rowVars
  <2>9. ASSUME NEW m \in Media, NEW c \in Calls,
               \/ FinalizeBegin(m, c) \/ FinalizeIntent(m, c) \/ FinalizeFence(m, c)
               \/ FinalizeCopy(m, c) \/ FinalizeConfirm(m, c)
        PROVE  asset' = asset
    BY <2>9 DEF FinalizeBegin, FinalizeIntent, FinalizeFence, FinalizeCopy, FinalizeConfirm,
                rowVars
  <2>10. ASSUME NEW m \in Media, NEW f \in Family, ClaimJob(f, m) \/ FailJob(f, m)
  \/ SettleJob(f, m)
         PROVE  asset' = asset
    BY <2>10 DEF ClaimJob, FailJob, SettleJob, rowVars
  <2>11. ASSUME NEW m \in Media, NEW t \in Attempts, WriteDerivative(m, t) \/ AttemptEnds(m, t)
         PROVE  asset' = asset
    BY <2>11 DEF WriteDerivative, AttemptEnds, rowVars
  <2>12. CallFails \/ Overdue \/ EndRoom => asset' = asset
    BY DEF CallFails, Overdue, EndRoom, rowVars
  <2>13. JanitorSelect \/ JanitorStaging \/ JanitorClose \/ JanitorErase
  \/ JanitorDefers => asset' = asset
    BY DEF JanitorSelect, JanitorStaging, JanitorClose, JanitorErase, JanitorDefers, rowVars
  <2> QED
    BY <2>2, <2>3, <2>4, <2>5, <2>6, <2>7, <2>8, <2>9, <2>10, <2>11, <2>12, <2>13 DEF MediaNext
<1>2. MediaSpec => []MInv
  BY InitMInv, NextMInv, PTL DEF MediaSpec
<1> QED
  BY <1>1, <1>2, PTL DEF MediaSpec, ReadyStays

-----------------------------------------------------------------------------
(* The student's page.                                                     *)

MediaStates == Outcomes \cup {"processing"}

TranscriptTypes ==
    /\ media \in MediaStates /\ statuses \subseteq Outcomes /\ known \subseteq Outcomes
    /\ versions \in Seq({"added", "revised", "retracted"}) /\ shown \in 0 .. Len(versions)
    /\ phase \in MediaStates \cup {"none", "loading", "unavailable"}
    /\ gets \subseteq [by : Nat, read : SUBSET MediaStates] /\ asked \in Nat
    /\ loads \in Nat /\ loading \subseteq [by : Nat, signed : BOOLEAN]
    /\ urls \in Nat /\ mine \in BOOLEAN

\* The message begins with its addition, and nothing follows its retraction.
RetractedLast ==
    /\ Len(versions) > 0 /\ versions[1] = "added"
    /\ \A i \in 1 .. Len(versions) : i < Len(versions) => versions[i] # "retracted"

\* The attachment is mounted exactly while the message is shown.
MountedWithMessage == phase # "none" <=> ActiveMedia

\* A download is named by its token; the one with the current token was begun by
\* an attachment that is still mounted and holds no bytes, and what was signed is
\* ready for good.
DownloadsInTurn ==
    /\ \A d \in loading : d.by <= loads /\ (d.signed => media = "ready")
    /\ \A d \in loading : d.by = loads => ~mine /\ phase \in {"ready", "loading"}
    /\ \A c, d \in loading : c.by = d.by => c = d

TInv ==
    /\ TranscriptTypes /\ RetractedLast /\ MountedWithMessage /\ DownloadsInTurn
    /\ BytesOwned /\ DraftOnWhatIsShown

-----------------------------------------------------------------------------

\* releaseLocalUrl leaves no object URL, and no download has the new token.
LEMMA ReleaseTakesAll ==
    ASSUME TInv, Released
    PROVE  /\ urls' = 0 /\ ~mine' /\ mine' \in BOOLEAN /\ loads' \in Nat /\ loading' = loading
           /\ \A d \in loading : d.by < loads'
<1>1. urls = IF mine THEN 1 ELSE 0
  BY DEF TInv, BytesOwned
<1>2. urls' = 0
  <2>1. CASE mine
    BY <1>1, <2>1 DEF Released
  <2>2. CASE ~mine
    BY <1>1, <2>2 DEF Released
  <2>3. QED BY <2>1, <2>2
<1>3. ~mine' /\ mine' \in BOOLEAN /\ loads' = loads + 1 /\ loading' = loading
  BY DEF Released
<1>4. loads \in Nat /\ \A d \in loading : d.by \in Nat /\ d.by <= loads
  BY DEF TInv, TranscriptTypes, DownloadsInTurn
<1>5. QED BY <1>2, <1>3, <1>4

\* A released attachment may be in any phase: what is left to show of the bytes.
LEMMA ReleaseIsSafe ==
    ASSUME TInv, Released, media' = media
    PROVE  DownloadsInTurn' /\ BytesOwned'
<1>1. \A d \in loading' : d.by \in Nat /\ d.by < loads' /\ (d.signed => media' = "ready")
  BY ReleaseTakesAll DEF TInv, TranscriptTypes, DownloadsInTurn
<1>2. \A c, d \in loading' : c.by = d.by => c = d
  BY ReleaseTakesAll DEF TInv, DownloadsInTurn
<1>3. loads' \in Nat /\ urls' = 0 /\ ~mine'
  BY ReleaseTakesAll
<1>4. \A d \in loading' : d.by <= loads' /\ d.by # loads'
  BY <1>1, <1>3
<1>5. DownloadsInTurn'
  BY <1>1, <1>2, <1>4 DEF DownloadsInTurn
<1>6. BytesOwned'
  BY <1>3 DEF BytesOwned
<1>7. QED BY <1>5, <1>6

\* What the server does without the page, and the socket, leave the card alone.
LEMMA ServerSteps ==
    ASSUME TInv,
           \/ \E s \in Outcomes : CommitOutcome(s)
           \/ \E op \in {"revised", "retracted"} : CommitVersion(op)
           \/ LoseSocket \/ Rejoin \/ Bar \/ CloseRoom
    PROVE  TInv'
<1> USE DEF TInv
<1>1. ASSUME NEW s \in Outcomes, CommitOutcome(s) PROVE TInv'
  BY <1>1 DEF CommitOutcome, TranscriptTypes, RetractedLast, MountedWithMessage, DownloadsInTurn,
     BytesOwned, DraftOnWhatIsShown, ActiveMedia, Retracted, Shows, Outcomes, MediaStates,
     transcriptBytes
<1>2. ASSUME NEW op \in {"revised", "retracted"}, CommitVersion(op) PROVE TInv'
  <2>1. /\ versions' = Append(versions, op)
        /\ UNCHANGED <<media, statuses, roomShown, shown, known, phase, asked, gets, transcriptBytes,
                       draft>>
        /\ versions[Len(versions)] # "retracted"
    BY <1>2 DEF CommitVersion, transcriptSocket
  <2>2. /\ Len(versions') = Len(versions) + 1
        /\ \A i \in 1 .. Len(versions) : versions'[i] = versions[i]
        /\ versions'[Len(versions) + 1] = op
    BY <2>1 DEF TranscriptTypes
  <2>3. ActiveMedia' <=> ActiveMedia
    BY <2>1, <2>2 DEF ActiveMedia, Retracted, Shows, TranscriptTypes
  <2>4. TranscriptTypes'
    BY <2>1, <2>2 DEF TranscriptTypes, transcriptBytes
  <2>5. RetractedLast'
    BY <2>1, <2>2 DEF RetractedLast, TranscriptTypes
  <2>6. QED
    BY <2>1, <2>3, <2>4, <2>5
       DEF MountedWithMessage, DownloadsInTurn, BytesOwned, DraftOnWhatIsShown, transcriptBytes
<1>3. CASE LoseSocket \/ Rejoin \/ Bar \/ CloseRoom
  BY <1>3 DEF LoseSocket, Rejoin, Bar, CloseRoom, TranscriptTypes, RetractedLast,
     MountedWithMessage, DownloadsInTurn, BytesOwned, DraftOnWhatIsShown, ActiveMedia, Retracted,
     Shows, transcriptServer, transcriptSocket, transcriptBytes
<1>4. QED BY <1>1, <1>2, <1>3

\* Events, the end of the room and the author's own revisions.
LEMMA MessageSteps ==
    ASSUME TInv, ApplyEvent \/ ApplyClosed \/ ClearState \/ StartRevision \/ SendRevision
    PROVE  TInv'
<1> USE DEF TInv
<1>1. CASE ApplyEvent
  <2>1. /\ shown' = shown + 1 /\ shown < Len(versions) /\ versions' = versions /\ media' = media
        /\ UNCHANGED <<statuses, roomShown>> /\ draft' = DraftKept(roomShown)
    BY <1>1 DEF ApplyEvent, transcriptServer, transcriptSocket
  <2>2. draft' = {}
    BY <2>1 DEF DraftKept, DraftOnWhatIsShown, TranscriptTypes
  <2>3. RetractedLast' /\ DraftOnWhatIsShown'
    BY <2>1, <2>2 DEF RetractedLast, DraftOnWhatIsShown
  <2>4. ActiveMedia' <=> Shows(versions[shown + 1])
    BY <2>1 DEF ActiveMedia, Retracted, Shows, TranscriptTypes
  <2>5. CASE shown = 0
    <3>1. /\ Shows(versions[1]) /\ AskMetadata /\ UNCHANGED <<known, transcriptBytes>>
          /\ ActiveMedia' /\ phase = "none"
      BY <1>1, <2>4, <2>5
         DEF ApplyEvent, RetractedLast, Shows, MountedWithMessage, ActiveMedia, Retracted
    <3>2. ~mine /\ \A d \in loading : d.by # loads
      BY <3>1 DEF BytesOwned, DownloadsInTurn
    <3>3. TranscriptTypes' /\ MountedWithMessage'
      BY <2>1, <3>1 DEF TranscriptTypes, MountedWithMessage, AskMetadata, transcriptBytes
    <3>4. DownloadsInTurn' /\ BytesOwned'
      BY <2>1, <3>1, <3>2 DEF DownloadsInTurn, BytesOwned, transcriptBytes
    <3>5. QED BY <2>3, <3>3, <3>4
  <2>6. CASE shown # 0 /\ ~Shows(versions[shown + 1])
    <3>1. known' = {} /\ phase' = "none" /\ asked' = asked + 1 /\ Released /\ gets' = gets
      BY <1>1, <2>6 DEF ApplyEvent
    <3>2. TranscriptTypes' /\ MountedWithMessage'
      BY <2>1, <2>4, <2>6, <3>1, ReleaseTakesAll DEF TranscriptTypes, MountedWithMessage
    <3>3. QED BY <2>1, <2>3, <3>1, <3>2, ReleaseIsSafe
  <2>7. CASE shown # 0 /\ Shows(versions[shown + 1])
    <3>1. UNCHANGED <<known, phase, asked, gets, transcriptBytes>>
      BY <1>1, <2>7 DEF ApplyEvent
    <3>2. ActiveMedia /\ ActiveMedia'
      BY <2>1, <2>4, <2>7 DEF ActiveMedia, Retracted, Shows, RetractedLast, TranscriptTypes
    <3>3. QED
      BY <2>1, <2>3, <3>1, <3>2
         DEF TranscriptTypes, MountedWithMessage, DownloadsInTurn, BytesOwned, transcriptBytes
  <2>8. QED BY <2>5, <2>6, <2>7
<1>2. CASE ClearState
  <2>1. /\ shown' = 0 /\ known' = {} /\ draft' = {} /\ phase' = "none" /\ asked' = asked + 1
        /\ Released /\ UNCHANGED <<media, versions, statuses, gets>>
    BY <1>2 DEF ClearState, transcriptServer, transcriptSocket
  <2>2. TranscriptTypes' /\ MountedWithMessage'
    BY <2>1, ReleaseTakesAll
       DEF TranscriptTypes, RetractedLast, MountedWithMessage, ActiveMedia, Retracted
  <2>3. RetractedLast' /\ DraftOnWhatIsShown'
    BY <2>1 DEF RetractedLast, DraftOnWhatIsShown
  <2>4. QED BY <2>1, <2>2, <2>3, ReleaseIsSafe
<1>3. CASE ApplyClosed \/ StartRevision
  BY <1>3 DEF ApplyClosed, StartRevision, DraftKept, TranscriptTypes, RetractedLast,
     MountedWithMessage, DownloadsInTurn, BytesOwned, DraftOnWhatIsShown, ActiveMedia, Retracted,
     Shows, transcriptServer, transcriptSocket, transcriptBytes
<1>4. CASE SendRevision
  <2>1. /\ draft' = {} /\ draft = {shown} /\ ActiveMedia
        /\ UNCHANGED <<media, statuses, roomShown, shown, known, phase, asked, gets, transcriptBytes>>
        /\ \/ versions' = versions
           \/ versions' = Append(versions, "revised") /\ shown = Len(versions)
    BY <1>4 DEF SendRevision, DraftOnWhatIsShown, TranscriptTypes, transcriptSocket
  <2>2. CASE versions' = versions
    BY <2>1, <2>2 DEF TranscriptTypes, RetractedLast, MountedWithMessage, DownloadsInTurn, BytesOwned,
       DraftOnWhatIsShown, ActiveMedia, Retracted, Shows, transcriptBytes
  <2>3. CASE versions' = Append(versions, "revised") /\ shown = Len(versions)
    <3>1. /\ Len(versions') = Len(versions) + 1
          /\ \A i \in 1 .. Len(versions) : versions'[i] = versions[i]
          /\ versions'[Len(versions) + 1] = "revised"
      BY <2>3 DEF TranscriptTypes
    <3>2. versions[Len(versions)] # "retracted" /\ ActiveMedia'
      BY <2>1, <2>3, <3>1 DEF ActiveMedia, Retracted, Shows, TranscriptTypes
    <3>3. TranscriptTypes'
      BY <2>1, <2>3, <3>1 DEF TranscriptTypes, transcriptBytes
    <3>4. RetractedLast'
      BY <2>3, <3>1, <3>2 DEF RetractedLast, TranscriptTypes
    <3>5. QED
      BY <2>1, <3>2, <3>3, <3>4
         DEF MountedWithMessage, DownloadsInTurn, BytesOwned, DraftOnWhatIsShown, transcriptBytes
  <2>4. QED BY <2>1, <2>2, <2>3
<1>5. QED BY <1>1, <1>2, <1>3, <1>4

\* Status frames and metadata answers: they may take the bytes away.
LEMMA MetadataSteps ==
    ASSUME TInv,
           \/ \E s \in statuses : ReceiveStatus(s)
           \/ \E g \in gets : ReadMetadata(g) \/ ReceiveMetadata(g) \/ MetadataFails(g)
    PROVE  TInv'
<1> USE DEF TInv
<1>1. ASSUME NEW s \in statuses, ReceiveStatus(s) PROVE TInv'
  <2>1. /\ UNCHANGED <<media, versions, roomShown, shown, draft>>
        /\ statuses' \subseteq statuses
    BY <1>1 DEF ReceiveStatus, transcriptServer
  <2>2. RetractedLast' /\ DraftOnWhatIsShown' /\ (ActiveMedia' <=> ActiveMedia)
    BY <2>1 DEF RetractedLast, DraftOnWhatIsShown, ActiveMedia, Retracted, Shows
  <2>3. CASE ~ActiveMedia
    <3>1. UNCHANGED <<known, phase, asked, gets, transcriptBytes>>
      BY <1>1, <2>3 DEF ReceiveStatus
    <3>2. QED
      BY <2>1, <2>2, <3>1
         DEF TranscriptTypes, MountedWithMessage, DownloadsInTurn, BytesOwned, transcriptBytes
  <2>4. CASE ActiveMedia
    <3>1. /\ known' = {s} /\ AskMetadata
          /\ s \in TerminalMedia => Released
          /\ s \notin TerminalMedia => UNCHANGED transcriptBytes
      BY <1>1, <2>4 DEF ReceiveStatus
    <3>2. phase' = "loading" /\ MountedWithMessage'
      BY <2>2, <2>4, <3>1 DEF AskMetadata, MountedWithMessage
    <3>3. /\ media' \in MediaStates /\ statuses' \subseteq Outcomes /\ known' \subseteq Outcomes
          /\ versions' \in Seq({"added", "revised", "retracted"}) /\ shown' \in 0 .. Len(versions')
          /\ gets' \subseteq [by : Nat, read : SUBSET MediaStates] /\ asked' \in Nat
      BY <2>1, <3>1 DEF TranscriptTypes, AskMetadata
    <3>4. CASE s \in TerminalMedia
      <4>1. TranscriptTypes'
        BY <3>1, <3>2, <3>3, <3>4, ReleaseTakesAll DEF TranscriptTypes
      <4>2. QED BY <2>1, <2>2, <3>1, <3>2, <3>4, <4>1, ReleaseIsSafe
    <3>5. CASE s \notin TerminalMedia
      <4>1. TranscriptTypes'
        BY <3>1, <3>2, <3>3, <3>5 DEF TranscriptTypes, transcriptBytes
      <4>2. DownloadsInTurn' /\ BytesOwned'
        BY <2>1, <2>2, <3>1, <3>2, <3>5 DEF DownloadsInTurn, BytesOwned, transcriptBytes
      <4>3. QED BY <2>2, <3>2, <4>1, <4>2
    <3>6. QED BY <3>4, <3>5
  <2>5. QED BY <2>3, <2>4
<1>2. ASSUME NEW g \in gets, ReadMetadata(g) PROVE TInv'
  BY <1>2 DEF ReadMetadata, TranscriptTypes, RetractedLast, MountedWithMessage, DownloadsInTurn,
     BytesOwned, DraftOnWhatIsShown, ActiveMedia, Retracted, Shows, transcriptServer,
     transcriptSocket, transcriptBytes
<1>3. ASSUME NEW g \in gets, ReceiveMetadata(g) \/ MetadataFails(g) PROVE TInv'
  <2> DEFINE view == Merged(CHOOSE s \in g.read : TRUE)
  <2>1. /\ UNCHANGED <<media, versions, roomShown, shown, draft, statuses, known, asked>>
        /\ gets' \subseteq gets
    BY <1>3 DEF ReceiveMetadata, MetadataFails, transcriptServer, transcriptSocket
  <2>2. RetractedLast' /\ DraftOnWhatIsShown' /\ (ActiveMedia' <=> ActiveMedia)
    BY <2>1 DEF RetractedLast, DraftOnWhatIsShown, ActiveMedia, Retracted, Shows
  <2>3. \/ UNCHANGED <<phase, transcriptBytes>>
        \/ phase # "none" /\ phase' = "ready" /\ UNCHANGED transcriptBytes
        \/ phase # "none" /\ phase' \in MediaStates \cup {"unavailable"} /\ Released
    <3>1. CASE MetadataFails(g)
      BY <3>1 DEF MetadataFails
    <3>2. CASE ReceiveMetadata(g)
      <4>1. view \in MediaStates
        <5>1. g.read # {} /\ g.read \subseteq MediaStates
          BY <3>2 DEF ReceiveMetadata, TranscriptTypes
        <5>2. (CHOOSE s \in g.read : TRUE) \in g.read
          BY <5>1
        <5>3. known # {} => (CHOOSE s \in known : TRUE) \in known
          OBVIOUS
        <5>4. QED BY <5>1, <5>2, <5>3 DEF Merged, TranscriptTypes, MediaStates
      <4>2. IF phase # "none" /\ g.by = asked
            THEN /\ phase' = view
                 /\ IF view = "ready" THEN UNCHANGED transcriptBytes ELSE Released
            ELSE UNCHANGED <<phase, transcriptBytes>>
        BY <3>2 DEF ReceiveMetadata
      <4>3. QED BY <4>1, <4>2
    <3>3. QED BY <1>3, <3>1, <3>2
  <2>4. CASE UNCHANGED <<phase, transcriptBytes>>
    BY <2>1, <2>2, <2>4
       DEF TranscriptTypes, MountedWithMessage, DownloadsInTurn, BytesOwned, transcriptBytes
  <2>5. CASE phase # "none" /\ phase' = "ready" /\ UNCHANGED transcriptBytes
    BY <2>1, <2>2, <2>5
       DEF TranscriptTypes, MountedWithMessage, DownloadsInTurn, BytesOwned, transcriptBytes,
           MediaStates, Outcomes
  <2>6. CASE phase # "none" /\ phase' \in MediaStates \cup {"unavailable"} /\ Released
    <3>1. TranscriptTypes'
      BY <2>1, <2>6, ReleaseTakesAll DEF TranscriptTypes
    <3>2. MountedWithMessage'
      BY <2>2, <2>6 DEF MountedWithMessage, MediaStates, Outcomes
    <3>3. QED BY <2>1, <2>2, <2>6, <3>1, <3>2, ReleaseIsSafe
  <2>7. QED BY <2>3, <2>4, <2>5, <2>6
<1>4. QED BY <1>1, <1>2, <1>3

\* The steps of a download: the token it carries names it.
LEMMA DownloadSteps ==
    ASSUME TInv,
           \/ BeginLoad
           \/ \E d \in loading : GrantDownload(d) \/ BytesArrive(d) \/ LoadFails(d)
    PROVE  TInv'
<1> USE DEF TInv
<1>1. UNCHANGED <<media, versions, roomShown, shown, draft, statuses, known, asked, phase, gets>>
  BY DEF BeginLoad, GrantDownload, BytesArrive, LoadFails, transcriptServer, transcriptSocket
<1>2. /\ RetractedLast' /\ DraftOnWhatIsShown' /\ MountedWithMessage'
      /\ (ActiveMedia' <=> ActiveMedia)
  BY <1>1 DEF RetractedLast, DraftOnWhatIsShown, MountedWithMessage, ActiveMedia, Retracted, Shows
<1>3. ASSUME urls' \in Nat, mine' \in BOOLEAN, loads' \in Nat,
             loading' \subseteq [by : Nat, signed : BOOLEAN]
      PROVE  TranscriptTypes'
  BY <1>1, <1>3 DEF TranscriptTypes
<1>4. /\ urls \in Nat /\ mine \in BOOLEAN /\ loads \in Nat
      /\ loading \subseteq [by : Nat, signed : BOOLEAN]
  BY DEF TranscriptTypes
<1>5. CASE BeginLoad
  <2> DEFINE new == [by |-> loads + 1, signed |-> FALSE]
  <2>1. /\ loads' = loads + 1 /\ loading' = loading \cup {new} /\ urls' = urls /\ mine' = mine
        /\ ~mine /\ phase = "ready"
    BY <1>5 DEF BeginLoad
  <2>2. new \in [by : Nat, signed : BOOLEAN] /\ new.by = loads + 1 /\ ~new.signed
    BY <1>4
  <2>3. \A d \in loading : d.by \in Nat /\ d.by <= loads /\ d.by # loads + 1
    BY <1>4 DEF DownloadsInTurn
  <2> HIDE DEF new
  <2>4. TranscriptTypes'
    BY <1>3, <1>4, <2>1, <2>2
  <2>5. DownloadsInTurn'
    <3>1. \A d \in loading' : d.by <= loads' /\ (d.signed => media' = "ready")
      BY <1>1, <1>4, <2>1, <2>2, <2>3 DEF DownloadsInTurn
    <3>2. \A d \in loading' : d.by = loads' => ~mine' /\ phase' \in {"ready", "loading"}
      BY <1>1, <2>1
    <3>3. \A c, d \in loading' : c.by = d.by => c = d
      BY <2>1, <2>2, <2>3 DEF DownloadsInTurn
    <3>4. QED BY <3>1, <3>2, <3>3 DEF DownloadsInTurn
  <2>6. BytesOwned'
    BY <2>1 DEF BytesOwned
  <2>7. QED BY <1>2, <2>4, <2>5, <2>6
<1>6. ASSUME NEW d \in loading, GrantDownload(d) PROVE TInv'
  <2> DEFINE new == [d EXCEPT !.signed = TRUE]
  <2>1. /\ loading' = (loading \ {d}) \cup {new} /\ media = "ready"
        /\ urls' = urls /\ mine' = mine /\ loads' = loads
    BY <1>6 DEF GrantDownload, Servable, SafeDerivative
  <2>2. new \in [by : Nat, signed : BOOLEAN] /\ new.by = d.by
    BY <1>4
  <2> HIDE DEF new
  <2>3. TranscriptTypes'
    BY <1>3, <1>4, <2>1, <2>2
  <2>4. DownloadsInTurn'
    <3>1. \A e \in loading' : e.by <= loads' /\ (e.signed => media' = "ready")
      BY <1>1, <2>1, <2>2 DEF DownloadsInTurn
    <3>2. \A e \in loading' : e.by = loads' => ~mine' /\ phase' \in {"ready", "loading"}
      BY <1>1, <2>1, <2>2 DEF DownloadsInTurn
    <3>3. \A c, e \in loading' : c.by = e.by => c = e
      BY <2>1, <2>2 DEF DownloadsInTurn
    <3>4. QED BY <3>1, <3>2, <3>3 DEF DownloadsInTurn
  <2>5. BytesOwned'
    BY <1>1, <1>2, <2>1 DEF BytesOwned
  <2>6. QED BY <1>2, <2>3, <2>4, <2>5
<1>7. ASSUME NEW d \in loading, BytesArrive(d), d.by = loads PROVE TInv'
  <2>1. /\ loading' = loading \ {d} /\ loads' = loads /\ urls' = urls + 1
        /\ mine' = TRUE /\ d.signed
    BY <1>7 DEF BytesArrive
  <2>2. ~mine /\ phase \in {"ready", "loading"} /\ media = "ready"
    BY <1>7, <2>1 DEF DownloadsInTurn
  <2>3. urls' = 1 /\ mine' /\ mine' \in BOOLEAN
    BY <2>1, <2>2 DEF BytesOwned
  <2>4. ActiveMedia
    BY <2>2 DEF MountedWithMessage
  <2>5. TranscriptTypes'
    BY <1>3, <1>4, <2>1, <2>3
  <2>6. \A e \in loading' : e.by # loads'
    BY <1>7, <2>1 DEF DownloadsInTurn
  <2>7. DownloadsInTurn'
    BY <1>1, <2>1, <2>6 DEF DownloadsInTurn
  <2>8. BytesOwned'
    BY <1>1, <1>2, <2>2, <2>3, <2>4 DEF BytesOwned
  <2>9. QED BY <1>2, <2>5, <2>7, <2>8
<1>8. ASSUME NEW d \in loading, (BytesArrive(d) /\ d.by # loads) \/ LoadFails(d) PROVE TInv'
  <2>1. /\ loading' = loading \ {d} /\ loads' = loads /\ urls' = urls /\ mine' = mine
    BY <1>8 DEF BytesArrive, LoadFails
  <2>2. TranscriptTypes'
    BY <1>3, <1>4, <2>1
  <2>3. DownloadsInTurn'
    BY <1>1, <2>1 DEF DownloadsInTurn
  <2>4. BytesOwned'
    BY <1>1, <1>2, <2>1 DEF BytesOwned
  <2>5. QED BY <1>2, <2>2, <2>3, <2>4
<1>9. QED BY <1>5, <1>6, <1>7, <1>8

\* The invariant of the card holds throughout (MessageCard, MediaAttachment).
THEOREM CardInvariant == TranscriptSpec => []TInv
<1>1. ASSUME TranscriptInit PROVE TInv
  <2>1. ~mine /\ mine \in BOOLEAN
    BY <1>1 DEF TranscriptInit
  <2>2. TranscriptTypes /\ RetractedLast
    BY <1>1, <2>1 DEF TranscriptInit, TranscriptTypes, RetractedLast, MediaStates
  <2>3. MountedWithMessage /\ DownloadsInTurn
    BY <1>1 DEF TranscriptInit, MountedWithMessage, DownloadsInTurn, ActiveMedia
  <2>4. BytesOwned /\ DraftOnWhatIsShown
    BY <1>1, <2>1 DEF TranscriptInit, BytesOwned, DraftOnWhatIsShown
  <2>5. QED BY <2>2, <2>3, <2>4 DEF TInv
<1>2. TInv /\ [TranscriptNext]_transcriptVars => TInv'
  <2>1. ASSUME TInv, UNCHANGED transcriptVars PROVE TInv'
    BY <2>1 DEF TInv, TranscriptTypes, RetractedLast, MountedWithMessage, DownloadsInTurn,
       BytesOwned, DraftOnWhatIsShown, ActiveMedia, Retracted, Shows, transcriptVars,
       transcriptServer, transcriptSocket, transcriptBytes
  <2>2. ASSUME TInv, TranscriptNext PROVE TInv'
    BY <2>2, ServerSteps, MessageSteps, MetadataSteps, DownloadSteps DEF TranscriptNext
  <2>3. QED BY <2>1, <2>2
<1>3. QED BY <1>1, <1>2, PTL DEF TranscriptSpec

\* However downloads, retractions, status frames, metadata answers, revisions and
\* the loss of the room overlap, every object URL belongs to the attachment of a
\* message that is shown, and a draft is open only on the revision that is shown
\* (loadReadyAttachment, releaseLocalUrl, the cleanup effects of MessageCard).
THEOREM CardHoldsWhatItShows == TranscriptSpec => []TranscriptSafe
<1>1. TInv => TranscriptSafe
  BY DEF TInv, TranscriptSafe
<1>2. QED BY <1>1, CardInvariant, PTL

-----------------------------------------------------------------------------
(* The dock.                                                               *)

\* Uploads of the recorder that it has not let go of.
MicUploads == {m \in Uploads : up[m].by = "mic" /\ ~up[m].aborted}

\* The recorder's phase tells its session, its tray, its clip and its upload.
RecorderShown ==
    /\ recording <=> mic \in {"recording", "stopping"}
    /\ mic # "off" <=> "mic" \in trays
    /\ mic \in {"requesting", "recording", "stopping"} => status = "open" /\ ~clip
    /\ mic = "off" => ~clip
    /\ MicUploads # {} => mic = "uploading"
    /\ \A m, n \in MicUploads : m = n

\* A command that may still be, or was, accepted, or whose media have not
\* returned to the draft.
Standing(c) == cmd[c] \in {"sent", "confirmed"} \/ \E s \in subs : s[1] = c

\* Standing commands share no media with each other, with the draft or with the
\* uploads under way.
MediaApart ==
    /\ \A c \in Commands : Standing(c) => cmd[c] # "unused" /\ carried[c] \cap draftMedia = {}
    /\ \A c, d \in Commands : Standing(c) /\ Standing(d) /\ c # d => carried[c] \cap carried[d] = {}
    /\ \A m \in Uploads : up[m].step # "over" =>
          m \notin draftMedia /\ \A c \in Commands : m \notin carried[c]

DockInv ==
    /\ DockTypeOK /\ RecorderShown /\ MediaApart
    /\ MicrophoneHonest /\ MediaAccounted

UploadRecords == [by : Trays \cup {"none"}, step : {"unused", "running", "over"}, aborted : BOOLEAN]

\* Aborting a tray's uploads changes nothing else about them.
LEMMA AbortedShape ==
    ASSUME DockTypeOK, NEW tray \in Trays
    PROVE  /\ Aborted(tray) \in [Uploads -> UploadRecords]
           /\ \A m \in Uploads :
                 /\ Aborted(tray)[m].step = up[m].step /\ Aborted(tray)[m].by = up[m].by
                 /\ up[m].by = tray => Aborted(tray)[m].aborted
                 /\ up[m].by # tray => Aborted(tray)[m] = up[m]
<1>1. \A m \in Uploads : up[m] \in UploadRecords
  BY DEF DockTypeOK, UploadRecords
<1>2. ASSUME NEW m \in Uploads
      PROVE  /\ Aborted(tray)[m] \in UploadRecords
             /\ Aborted(tray)[m].step = up[m].step /\ Aborted(tray)[m].by = up[m].by
             /\ up[m].by = tray => Aborted(tray)[m].aborted
             /\ up[m].by # tray => Aborted(tray)[m] = up[m]
  <2>1. CASE up[m].by = tray
    BY <1>1, <2>1 DEF Aborted, UploadRecords
  <2>2. CASE up[m].by # tray
    BY <1>1, <2>2 DEF Aborted
  <2>3. QED BY <2>1, <2>2
<1>3. Aborted(tray) = [m \in Uploads |-> Aborted(tray)[m]]
  BY DEF Aborted
<1>4. QED BY <1>2, <1>3

\* What discardSession leaves: no session and no stream.
LEMMA DiscardedIsOff ==
    ASSUME MicrophoneHonest, Discarded, recording \in BOOLEAN
    PROVE  open' = 0 /\ ~recording' /\ recording' \in BOOLEAN
<1>1. ~recording' /\ recording' \in BOOLEAN
  BY DEF Discarded
<1>2. open' = 0
  <2>1. CASE recording
    BY <2>1 DEF MicrophoneHonest, Discarded
  <2>2. CASE ~recording
    BY <2>2 DEF MicrophoneHonest, Discarded
  <2>3. QED BY <2>1, <2>2
<1>3. QED BY <1>1, <1>2

\* Uploads begun, whatever became of their abort flags.
StepsKept == \A m \in Uploads : up'[m].step = up[m].step

Ongoing == {m \in Uploads : up[m].step = "running"}

\* The uploads of a page are finitely many.
LEMMA UploadsFinite ==
    ASSUME NEW S, S \subseteq Uploads
    PROVE  IsFiniteSet(S) /\ Cardinality(S) \in Nat
<1>1. MaxMedia \in Int /\ 1 \in Int
  BY DockAssumption
<1>2. IsFiniteSet(Uploads)
  BY <1>1, FS_Interval DEF Uploads
<1>3. QED BY <1>2, FS_Subset, FS_CardinalityType

\* A step that neither begins nor ends an upload nor touches drafts, slots and
\* submissions keeps the accounts.
LEMMA MediaFrame ==
    ASSUME DockInv, StepsKept,
           UNCHANGED <<inflight, knownMedia, draftMedia, cmd, carried, subs>>
    PROVE  MediaApart' /\ MediaAccounted' /\ inflight' \in 0 .. MaxSlots
<1>1. {m \in Uploads : up'[m].step = "running"} = {m \in Uploads : up[m].step = "running"}
  BY DEF StepsKept
<1>2. MediaAccounted'
  BY <1>1 DEF DockInv, MediaAccounted, Occupied
<1>3. MediaApart'
  BY DEF DockInv, MediaApart, Standing, StepsKept
<1>4. QED BY <1>2, <1>3 DEF DockInv, DockTypeOK

\* MediaSlotReservations.run takes a free slot for a fresh upload.
LEMMA ReserveKeepsAccounts ==
    ASSUME DockInv, NEW m \in Uploads, NEW tray \in Trays, ReserveSlot(m, tray),
           UNCHANGED <<cmd, carried, subs>>
    PROVE  /\ MediaApart' /\ MediaAccounted' /\ inflight' \in 0 .. MaxSlots
           /\ up' \in [Uploads -> UploadRecords]
           /\ up'[m] = [by |-> tray, step |-> "running", aborted |-> FALSE]
           /\ \A n \in Uploads \ {m} : up'[n] = Aborted(tray)[n]
<1>1. DockTypeOK /\ MediaApart /\ MediaAccounted
  BY DEF DockInv
<1>2. /\ up[m].step = "unused" /\ Occupied < MaxSlots /\ inflight' = inflight + 1
      /\ up' = [Aborted(tray) EXCEPT ![m] = [by |-> tray, step |-> "running", aborted |-> FALSE]]
      /\ UNCHANGED <<knownMedia, draftMedia>>
  BY DEF ReserveSlot
<1>3. Aborted(tray) \in [Uploads -> UploadRecords]
  BY <1>1, AbortedShape
<1>4. /\ up'[m] = [by |-> tray, step |-> "running", aborted |-> FALSE]
      /\ \A n \in Uploads \ {m} : up'[n] = Aborted(tray)[n]
  BY <1>2, <1>3
<1>5. up' \in [Uploads -> UploadRecords]
  BY <1>2, <1>3 DEF UploadRecords
<1>6. /\ up'[m].step = "running"
      /\ \A n \in Uploads \ {m} : up'[n].step = up[n].step
  BY <1>1, <1>4, AbortedShape
<1>7. Ongoing' = Ongoing \cup {m} /\ m \notin Ongoing
  BY <1>2, <1>6 DEF Ongoing
<1>8. Cardinality(Ongoing') = Cardinality(Ongoing) + 1
  BY <1>7, UploadsFinite, FS_AddElement DEF Ongoing
<1>9. inflight' = Cardinality(Ongoing') /\ Occupied' <= MaxSlots /\ inflight' \in 0 .. MaxSlots
  <2>1. Cardinality(knownMedia) \in Nat /\ Cardinality(Ongoing) \in Nat
    BY <1>1, UploadsFinite DEF DockTypeOK, Ongoing
  <2>2. inflight = Cardinality(Ongoing) /\ Cardinality(knownMedia) + inflight < MaxSlots
    BY <1>1, <1>2 DEF MediaAccounted, Ongoing, Occupied
  <2>3. MaxSlots \in Nat
    BY DockAssumption
  <2>4. Occupied' = Cardinality(knownMedia) + inflight'
    BY <1>2 DEF Occupied
  <2>5. QED BY <1>2, <1>8, <2>1, <2>2, <2>3, <2>4
<1>10. MediaAccounted'
  BY <1>1, <1>2, <1>9 DEF MediaAccounted, Ongoing
<1>11. MediaApart'
  BY <1>1, <1>2, <1>6 DEF MediaApart, Standing
<1>12. QED BY <1>4, <1>5, <1>9, <1>10, <1>11

\* An upload ends and its slot is freed, or kept by the id it was given.
LEMMA EndKeepsAccounts ==
    ASSUME DockInv, NEW m \in Uploads, up[m].step = "running", up' = [up EXCEPT ![m] = Over],
           inflight' = inflight - 1, UNCHANGED <<cmd, carried, subs>>,
           \/ UNCHANGED <<knownMedia, draftMedia>>
           \/ knownMedia' = knownMedia \cup {m} /\ draftMedia' = draftMedia \cup {m}
    PROVE  /\ MediaApart' /\ MediaAccounted' /\ inflight' \in 0 .. MaxSlots
           /\ up' \in [Uploads -> UploadRecords] /\ MicUploads' = MicUploads \ {m}
           /\ knownMedia' \subseteq Uploads /\ draftMedia' \subseteq Uploads
<1>1. DockTypeOK /\ MediaApart /\ MediaAccounted
  BY DEF DockInv
<1>2. up \in [Uploads -> UploadRecords] /\ Over \in UploadRecords
  BY <1>1 DEF DockTypeOK, UploadRecords, Over
<1>3. up' \in [Uploads -> UploadRecords] /\ up'[m] = Over /\ \A n \in Uploads \ {m} : up'[n] = up[n]
  BY <1>2
<1>4. MicUploads' = MicUploads \ {m}
  BY <1>3 DEF MicUploads, Over
<1>5. Ongoing' = Ongoing \ {m} /\ m \in Ongoing
  BY <1>3 DEF Ongoing, Over
<1>6. Cardinality(Ongoing') = Cardinality(Ongoing) - 1
  BY <1>5, UploadsFinite, FS_RemoveElement DEF Ongoing
<1>7. knownMedia \subseteq Uploads /\ knownMedia' \subseteq Uploads /\ draftMedia' \subseteq Uploads
  BY <1>1 DEF DockTypeOK
<1>8. Cardinality(knownMedia') <= Cardinality(knownMedia) + 1
  <2>1. Cardinality(knownMedia) \in Nat
    BY <1>7, UploadsFinite
  <2>2. CASE knownMedia' = knownMedia
    BY <2>1, <2>2
  <2>3. CASE knownMedia' = knownMedia \cup {m}
    <3>1. m \in knownMedia => knownMedia' = knownMedia
      BY <2>3
    <3>2. m \notin knownMedia => Cardinality(knownMedia') = Cardinality(knownMedia) + 1
      BY <1>7, <2>3, UploadsFinite, FS_AddElement
    <3>3. QED BY <2>1, <3>1, <3>2
  <2>4. QED BY <2>2, <2>3
<1>9. inflight' = Cardinality(Ongoing') /\ Occupied' <= MaxSlots /\ inflight' \in 0 .. MaxSlots
  <2>1. /\ Cardinality(knownMedia) \in Nat /\ Cardinality(knownMedia') \in Nat
        /\ Cardinality(Ongoing) \in Nat /\ Cardinality(Ongoing') \in Nat
    BY <1>7, UploadsFinite DEF Ongoing
  <2>2. inflight = Cardinality(Ongoing) /\ Cardinality(knownMedia) + inflight <= MaxSlots
    BY <1>1 DEF MediaAccounted, Ongoing, Occupied
  <2>3. MaxSlots \in Nat
    BY DockAssumption
  <2>4. Occupied' = Cardinality(knownMedia') + inflight'
    BY DEF Occupied
  <2>5. QED BY <1>6, <1>8, <2>1, <2>2, <2>3, <2>4
<1>10. MediaAccounted'
  <2>1. knownMedia' = draftMedia' \cup UNION {carried'[s[1]] : s \in subs'}
    BY <1>1 DEF MediaAccounted
  <2>2. QED BY <1>9, <2>1 DEF MediaAccounted, Ongoing
<1>11. MediaApart'
  <2>1. \A c \in Commands : m \notin carried[c]
    BY <1>1 DEF MediaApart
  <2>2. QED BY <1>1, <1>3, <2>1 DEF MediaApart, Standing, Over
<1>12. QED BY <1>3, <1>4, <1>7, <1>9, <1>10, <1>11

\* What leaves fewer slots taken, with the same uploads, keeps the count.
LEMMA FewerSlots ==
    ASSUME DockInv, knownMedia' \subseteq knownMedia, inflight' = inflight, StepsKept
    PROVE  /\ Occupied' <= MaxSlots /\ inflight' \in 0 .. MaxSlots
           /\ inflight' = Cardinality({n \in Uploads : up'[n].step = "running"})
<1>1. DockTypeOK /\ MediaAccounted
  BY DEF DockInv
<1>2. /\ IsFiniteSet(knownMedia) /\ Cardinality(knownMedia) \in Nat
      /\ Cardinality(knownMedia') \in Nat
  BY <1>1, UploadsFinite DEF DockTypeOK
<1>3. Cardinality(knownMedia') <= Cardinality(knownMedia)
  BY <1>2, FS_Subset
<1>4. inflight \in 0 .. MaxSlots /\ MaxSlots \in Nat
  BY <1>1, DockAssumption DEF DockTypeOK
<1>5. Occupied' <= MaxSlots
  BY <1>1, <1>2, <1>3, <1>4 DEF MediaAccounted, Occupied
<1>6. {n \in Uploads : up'[n].step = "running"} = {n \in Uploads : up[n].step = "running"}
  BY DEF StepsKept
<1>7. QED BY <1>1, <1>4, <1>5, <1>6 DEF MediaAccounted

\* A medium is taken out of the draft and gives its slot back.
LEMMA RemoveKeepsAccounts ==
    ASSUME DockInv, NEW m \in draftMedia, StepsKept, inflight' = inflight,
           knownMedia' = knownMedia \ {m}, draftMedia' = draftMedia \ {m},
           UNCHANGED <<cmd, carried, subs>>
    PROVE  MediaApart' /\ MediaAccounted' /\ inflight' \in 0 .. MaxSlots
<1>1. DockTypeOK /\ MediaApart /\ MediaAccounted
  BY DEF DockInv
<1>2. \A s \in subs : s[1] \in Commands /\ m \notin carried[s[1]]
  BY <1>1 DEF MediaApart, Standing, DockTypeOK
<1>3. knownMedia' = draftMedia' \cup UNION {carried'[s[1]] : s \in subs'}
  BY <1>1, <1>2 DEF MediaAccounted
<1>4. MediaAccounted' /\ inflight' \in 0 .. MaxSlots
  BY <1>3, FewerSlots DEF MediaAccounted
<1>5. MediaApart'
  BY <1>1 DEF MediaApart, Standing, StepsKept
<1>6. QED BY <1>4, <1>5

\* A message takes the draft's media along.
LEMMA SubmitKeepsAccounts ==
    ASSUME DockInv, NEW c \in Commands, StepsKept, UNCHANGED <<inflight, knownMedia>>,
           cmd[c] = "unused", cmd' = [cmd EXCEPT ![c] = "sent"],
           carried' = [carried EXCEPT ![c] = draftMedia], draftMedia' = {},
           NEW r \in BOOLEAN,
           subs' = IF r \/ draftMedia # {} THEN subs \cup {<<c, r>>} ELSE subs
    PROVE  MediaApart' /\ MediaAccounted' /\ inflight' \in 0 .. MaxSlots
<1>1. DockTypeOK /\ MediaApart /\ MediaAccounted
  BY DEF DockInv
<1>2. /\ carried'[c] = draftMedia /\ \A d \in Commands \ {c} : carried'[d] = carried[d]
      /\ cmd'[c] = "sent" /\ \A d \in Commands \ {c} : cmd'[d] = cmd[d]
  BY <1>1 DEF DockTypeOK
<1>3. \A s \in subs : s[1] \in Commands \ {c}
  BY <1>1 DEF MediaApart, Standing, DockTypeOK
<1>4. {carried'[s[1]] : s \in subs} = {carried[s[1]] : s \in subs}
  BY <1>2, <1>3
<1>5. knownMedia' = draftMedia' \cup UNION {carried'[s[1]] : s \in subs'}
  <2>1. CASE r \/ draftMedia # {}
    <3>1. {carried'[s[1]] : s \in subs'} = {carried[s[1]] : s \in subs} \cup {draftMedia}
      <4>1. subs' = subs \cup {<<c, r>>} /\ <<c, r>>[1] = c
        BY <2>1
      <4>2. {carried'[s[1]] : s \in subs'} = {carried'[s[1]] : s \in subs} \cup {carried'[c]}
        BY <4>1
      <4>3. QED BY <1>2, <1>4, <4>2
    <3>2. QED BY <1>1, <3>1 DEF MediaAccounted
  <2>2. CASE ~(r \/ draftMedia # {})
    BY <1>1, <1>4, <2>2 DEF MediaAccounted
  <2>3. QED BY <2>1, <2>2
<1>6. MediaAccounted' /\ inflight' \in 0 .. MaxSlots
  BY <1>5, FewerSlots DEF MediaAccounted
<1>7. \A d \in Commands \ {c} : Standing(d)' => Standing(d)
  <2>1. \A s \in subs' : s[1] = c \/ s \in subs
    <3>1. <<c, r>>[1] = c
      OBVIOUS
    <3>2. subs' \subseteq subs \cup {<<c, r>>}
      OBVIOUS
    <3>3. QED BY <3>1, <3>2
  <2>2. QED BY <1>2, <2>1 DEF Standing
<1>8. \A d \in Commands \ {c} : Standing(d)' =>
         carried'[d] \cap draftMedia = {} /\ cmd'[d] # "unused"
  BY <1>1, <1>2, <1>7 DEF MediaApart
<1>9. \A d, e \in Commands : Standing(d)' /\ Standing(e)' /\ d # e => carried'[d] \cap carried'[e] = {}
  BY <1>1, <1>2, <1>7, <1>8 DEF MediaApart
<1>10. \A n \in Uploads : up'[n].step # "over" => \A d \in Commands : n \notin carried'[d]
  BY <1>1, <1>2 DEF MediaApart, StepsKept
<1>11. MediaApart'
  BY <1>2, <1>8, <1>9, <1>10 DEF MediaApart
<1>12. QED BY <1>6, <1>11

\* An answer changes only the fate of its command.
LEMMA AnswerKeepsAccounts ==
    ASSUME DockInv, NEW c \in Commands, cmd[c] = "sent", NEW fate \in {"confirmed", "refused"},
           cmd' = [cmd EXCEPT ![c] = fate], StepsKept,
           UNCHANGED <<inflight, knownMedia, draftMedia, carried, subs>>
    PROVE  MediaApart' /\ MediaAccounted' /\ inflight' \in 0 .. MaxSlots
<1>1. DockTypeOK /\ MediaApart /\ MediaAccounted
  BY DEF DockInv
<1>2. cmd'[c] = fate /\ \A d \in Commands \ {c} : cmd'[d] = cmd[d]
  BY <1>1 DEF DockTypeOK
<1>3. \A d \in Commands : Standing(d)' => Standing(d) /\ cmd'[d] # "unused"
  BY <1>1, <1>2 DEF MediaApart, Standing
<1>4. MediaApart'
  BY <1>1, <1>3 DEF MediaApart, StepsKept
<1>5. MediaAccounted' /\ inflight' \in 0 .. MaxSlots
  BY <1>1, FewerSlots DEF MediaAccounted
<1>6. QED BY <1>4, <1>5

\* The settlement effect: media of refused messages return to the draft, media of
\* confirmed ones give their slots back.
LEMMA SettleKeepsAccounts ==
    ASSUME DockInv, Settle
    PROVE  /\ MediaApart' /\ MediaAccounted' /\ inflight' \in 0 .. MaxSlots
           /\ subs' \subseteq subs /\ knownMedia' \subseteq Uploads /\ draftMedia' \subseteq Uploads
<1> DEFINE settled == {s \in subs : cmd[s[1]] \in {"confirmed", "refused"}}
           confirmed == {s \in settled : cmd[s[1]] = "confirmed"}
           Of(S) == UNION {carried[s[1]] : s \in S}
<1>1. DockTypeOK /\ MediaApart /\ MediaAccounted
  BY DEF DockInv
<1>2. /\ subs' = subs \ settled /\ draftMedia' = draftMedia \cup Of(settled \ confirmed)
      /\ knownMedia' = knownMedia \ Of(confirmed)
      /\ UNCHANGED <<up, inflight, cmd, carried>>
  BY DEF Settle
<1>3. \A s \in subs : s[1] \in Commands /\ Standing(s[1]) /\ carried[s[1]] \subseteq Uploads
  BY <1>1 DEF DockTypeOK, Standing
<1>4. \A s, t \in subs : s[1] # t[1] => carried[s[1]] \cap carried[t[1]] = {}
  BY <1>1, <1>3 DEF MediaApart
<1>5. \A s \in confirmed : \A t \in subs \ confirmed : carried[s[1]] \cap carried[t[1]] = {}
  BY <1>4
<1>6. \A s \in subs : carried[s[1]] \cap draftMedia = {}
  BY <1>1, <1>3 DEF MediaApart
<1>7. knownMedia' = draftMedia' \cup UNION {carried'[s[1]] : s \in subs'}
  <2>1. knownMedia = draftMedia \cup Of(subs)
    BY <1>1 DEF MediaAccounted
  <2>2. Of(subs) = Of(confirmed) \cup Of(settled \ confirmed) \cup Of(subs \ settled)
    OBVIOUS
  <2>3. Of(confirmed) \cap (draftMedia \cup Of(settled \ confirmed) \cup Of(subs \ settled)) = {}
    BY <1>5, <1>6
  <2>4. knownMedia' = draftMedia \cup Of(settled \ confirmed) \cup Of(subs \ settled)
    BY <1>2, <2>1, <2>2, <2>3
  <2>5. UNION {carried'[s[1]] : s \in subs'} = Of(subs \ settled)
    BY <1>2
  <2>6. QED BY <1>2, <2>4, <2>5
<1>8. StepsKept /\ knownMedia' \subseteq knownMedia
  BY <1>2 DEF StepsKept
<1>9. MediaAccounted' /\ inflight' \in 0 .. MaxSlots
  BY <1>2, <1>7, <1>8, FewerSlots DEF MediaAccounted
<1>10. \A c \in Commands : Standing(c)' =>
          Standing(c) /\ \A s \in settled \ confirmed : s[1] # c
  BY <1>2 DEF Standing
<1>11. \A c \in Commands : Standing(c)' => cmd[c] # "unused" /\ carried[c] \cap draftMedia' = {}
  BY <1>1, <1>2, <1>3, <1>10 DEF MediaApart
<1>12. \A m \in Uploads : up[m].step # "over" => m \notin draftMedia'
  BY <1>1, <1>2, <1>3 DEF MediaApart
<1>13. MediaApart'
  BY <1>1, <1>2, <1>10, <1>11, <1>12 DEF MediaApart
<1>14. /\ subs' \subseteq subs /\ knownMedia' \subseteq Uploads /\ draftMedia' \subseteq Uploads
  BY <1>1, <1>2, <1>3 DEF DockTypeOK
<1>15. QED BY <1>9, <1>13, <1>14

MicPhases ==
    {"off", "disabled", "unsupported", "idle", "requesting", "recording", "stopping", "recorded",
     "uploading", "attached", "denied", "failed"}

RecorderOK ==
    /\ RecorderShown /\ MicrophoneHonest
    /\ mic \in MicPhases /\ recording \in BOOLEAN /\ open \in Nat /\ clip \in BOOLEAN

\* The invariant of the dock holds the recorder's.
LEMMA RecorderIsOK == DockInv => RecorderOK
BY DEF DockInv, DockTypeOK, RecorderOK, MicPhases

\* A step that leaves the recorder alone and begins no upload for it.
LEMMA RecorderFrame ==
    ASSUME RecorderOK, MicUploads' \subseteq MicUploads,
           UNCHANGED <<status, trays, mic, recording, open, clip>>
    PROVE  RecorderOK'
<1>1. RecorderShown'
  BY DEF RecorderOK, RecorderShown
<1>2. MicrophoneHonest'
  BY DEF RecorderOK, MicrophoneHonest
<1>3. QED BY <1>1, <1>2 DEF RecorderOK

\* A step that leaves the recorder without a session.
LEMMA RecorderOff ==
    ASSUME open' = 0, ~recording', recording' \in BOOLEAN, clip' \in BOOLEAN,
           mic' \in MicPhases \ {"recording", "stopping"},
           mic' = "requesting" => status' = "open" /\ ~clip',
           mic' = "off" => ~clip',
           mic' # "off" <=> "mic" \in trays',
           MicUploads' # {} => mic' = "uploading",
           \A m, n \in MicUploads' : m = n
    PROVE  RecorderOK'
<1>1. RecorderShown'
  BY DEF RecorderShown
<1>2. MicrophoneHonest'
  BY DEF MicrophoneHonest
<1>3. QED BY <1>1, <1>2 DEF RecorderOK

\* What an abort leaves of the recorder's uploads.
LEMMA MicAborted ==
    ASSUME DockTypeOK
    PROVE  /\ up' = Aborted("mic") => MicUploads' = {}
           /\ up' = Aborted("files") => MicUploads' = MicUploads
           /\ up' = up => MicUploads' = MicUploads
BY AbortedShape DEF MicUploads, Trays

\* Without a session no stream is open; a mounted tray's phase is its status.
LEMMA NoSession ==
    ASSUME RecorderOK, ~recording
    PROVE  open = 0
BY DEF RecorderOK, MicrophoneHonest

\* Room and trays: what the recorder held is released with them.
LEMMA RecorderTrays ==
    ASSUME DockInv,
           \/ \E s \in {"open", "paused", "closed"} : SetStatus(s)
           \/ \E tray \in Trays : OpenTray(tray) \/ CloseTray(tray)
    PROVE  RecorderOK'
<1> USE RecorderIsOK
<1>1. DockTypeOK /\ RecorderShown /\ MicrophoneHonest
  BY DEF DockInv
<1>2. recording \in BOOLEAN /\ clip \in BOOLEAN /\ mic \in MicPhases
  BY DEF RecorderOK
<1>3. ASSUME NEW s \in {"open", "paused", "closed"}, SetStatus(s) PROVE RecorderOK'
  <2>1. /\ trays' = trays
        /\ "mic" \in trays => MicReleased /\ MicPhaseFor(s)
        /\ "mic" \notin trays => UNCHANGED <<mic, recording, open, clip>>
    BY <1>3 DEF SetStatus
  <2>2. MicUploads' = {}
    BY <1>3 DEF SetStatus, MicUploads
  <2>3. CASE "mic" \in trays
    <3>1. open' = 0 /\ ~recording' /\ recording' \in BOOLEAN
      BY <1>1, <1>2, <2>1, <2>3, DiscardedIsOff DEF MicReleased
    <3>2. ~clip' /\ clip' \in BOOLEAN /\ mic' \in {"idle", "disabled"}
      BY <2>1, <2>3 DEF MicReleased, MicPhaseFor
    <3>3. QED BY <2>1, <2>2, <2>3, <3>1, <3>2, RecorderOff DEF MicPhases
  <2>4. CASE "mic" \notin trays
    <3>1. mic = "off" /\ ~recording /\ ~clip
      BY <1>1, <2>4 DEF RecorderShown
    <3>2. open = 0
      BY <3>1, NoSession
    <3>3. QED BY <1>2, <2>1, <2>2, <2>4, <3>1, <3>2, RecorderOff DEF MicPhases
  <2>5. QED BY <2>3, <2>4
<1>4. ASSUME NEW tray \in Trays, OpenTray(tray) PROVE RecorderOK'
  <2>1. /\ trays' = trays \cup {tray} /\ tray \notin trays
        /\ UNCHANGED <<status, recording, open, clip, up>>
        /\ IF tray = "mic" THEN MicPhaseFor(status) ELSE UNCHANGED mic
    BY <1>4 DEF OpenTray, dockSlots
  <2>2. MicUploads' = MicUploads
    BY <1>1, <2>1, MicAborted
  <2>3. CASE tray = "mic"
    <3>1. mic = "off" /\ ~recording /\ ~clip /\ MicUploads = {}
      BY <1>1, <2>1, <2>3 DEF RecorderShown
    <3>2. mic' \in {"idle", "disabled"}
      BY <2>1, <2>3 DEF MicPhaseFor
    <3>3. open = 0
      BY <3>1, NoSession
    <3>4. QED BY <1>2, <2>1, <2>2, <2>3, <3>1, <3>2, <3>3, RecorderOff DEF MicPhases
  <2>4. CASE tray = "files"
    <3>1. mic' = mic /\ ("mic" \in trays' <=> "mic" \in trays)
      BY <2>1, <2>4
    <3>2. RecorderShown'
      BY <1>1, <2>1, <2>2, <3>1 DEF RecorderShown
    <3>3. MicrophoneHonest'
      BY <1>1, <2>1, <3>1 DEF MicrophoneHonest
    <3>4. QED BY <2>1, <3>1, <3>2, <3>3 DEF RecorderOK
  <2>5. QED BY <2>3, <2>4 DEF Trays
<1>5. ASSUME NEW tray \in Trays, CloseTray(tray) PROVE RecorderOK'
  <2>1. trays' = trays \ {tray} /\ up' = Aborted(tray) /\ status' = status
    BY <1>5 DEF CloseTray
  <2>2. CASE tray = "mic"
    <3>1. MicReleased /\ mic' = "off"
      BY <1>5, <2>2 DEF CloseTray
    <3>2. open' = 0 /\ ~recording' /\ recording' \in BOOLEAN
      BY <1>1, <1>2, <3>1, DiscardedIsOff DEF MicReleased
    <3>3. ~clip' /\ clip' \in BOOLEAN
      BY <3>1 DEF MicReleased
    <3>4. MicUploads' = {}
      BY <1>1, <2>1, <2>2, MicAborted
    <3>5. QED BY <2>1, <2>2, <3>1, <3>2, <3>3, <3>4, RecorderOff DEF MicPhases
  <2>3. CASE tray = "files"
    <3>1. UNCHANGED <<mic, recording, open, clip>> /\ ("mic" \in trays' <=> "mic" \in trays)
      BY <1>5, <2>1, <2>3 DEF CloseTray
    <3>2. MicUploads' = MicUploads
      BY <1>1, <2>1, <2>3, MicAborted
    <3>3. RecorderShown'
      BY <1>1, <2>1, <3>1, <3>2 DEF RecorderShown
    <3>4. MicrophoneHonest'
      BY <1>1, <2>1, <3>1 DEF MicrophoneHonest
    <3>5. QED BY <3>1, <3>3, <3>4 DEF RecorderOK
  <2>4. QED BY <2>2, <2>3 DEF Trays
<1>6. QED BY <1>3, <1>4, <1>5

\* The end of an upload, as the recorder hears of it.
LEMMA RecorderHears ==
    ASSUME DockInv, NEW m \in Uploads, NEW result \in {"attached", "failed"},
           ReportRecorder(m, result), MicUploads' = MicUploads \ {m},
           UNCHANGED <<status, trays, recording, open>>
    PROVE  RecorderOK'
<1> USE RecorderIsOK
<1>1. RecorderShown /\ recording \in BOOLEAN /\ clip \in BOOLEAN
  BY DEF RecorderOK
<1>2. CASE m \in MicUploads
  <2>1. mic' = result /\ clip' = (clip /\ result # "attached")
    BY <1>2 DEF ReportRecorder, MicUploads
  <2>2. mic = "uploading" /\ MicUploads' = {}
    BY <1>1, <1>2 DEF RecorderShown
  <2>3. ~recording /\ "mic" \in trays
    BY <1>1, <2>2 DEF RecorderShown
  <2>4. open = 0
    BY <2>3, NoSession
  <2>5. clip' \in BOOLEAN
    BY <2>1
  <2>6. mic' \in MicPhases \ {"recording", "stopping", "requesting", "off"}
    BY <2>1 DEF MicPhases
  <2>7. QED BY <1>1, <2>2, <2>3, <2>4, <2>5, <2>6, RecorderOff
<1>3. CASE m \notin MicUploads
  <2>1. UNCHANGED <<mic, clip>>
    BY <1>3 DEF ReportRecorder, MicUploads
  <2>2. QED BY <2>1, RecorderFrame
<1>4. QED BY <1>2, <1>3

\* The recorder's own steps.
LEMMA RecorderSteps ==
    ASSUME DockInv,
           \/ AskMicrophone \/ MicrophoneGranted \/ MicrophoneDenied \/ LateMicrophone
           \/ RecordingLost \/ RecordingTimer \/ StopWatchdog \/ StopRecording
           \/ RecorderStopped \/ ClearRecording
    PROVE  RecorderOK'
<1> USE RecorderIsOK
<1>1. DockTypeOK /\ RecorderShown /\ MicrophoneHonest
  BY DEF DockInv
<1>2. recording \in BOOLEAN /\ clip \in BOOLEAN /\ mic \in MicPhases /\ open \in Nat
  BY DEF RecorderOK
<1>3. CASE AskMicrophone
  <2>1. /\ MicReleased /\ mic' = "requesting" /\ mic # "off" /\ mic # "uploading"
        /\ status = "open" /\ UNCHANGED <<status, trays, up>>
    BY <1>3 DEF AskMicrophone, StartOffered, dockSlots
  <2>2. open' = 0 /\ ~recording' /\ recording' \in BOOLEAN
    BY <1>1, <1>2, <2>1, DiscardedIsOff DEF MicReleased
  <2>3. ~clip' /\ clip' \in BOOLEAN
    BY <2>1 DEF MicReleased
  <2>4. MicUploads' = {} /\ "mic" \in trays
    BY <1>1, <2>1, MicAborted DEF RecorderShown
  <2>5. QED BY <2>1, <2>2, <2>3, <2>4, RecorderOff DEF MicPhases
<1>4. CASE MicrophoneGranted \/ MicrophoneDenied
  <2>1. /\ mic = "requesting" /\ UNCHANGED <<status, trays, up, clip>>
        /\ \/ mic' \in {"denied", "failed", "unsupported"} /\ UNCHANGED <<recording, open>>
           \/ recording' = TRUE /\ open' = open + 1 /\ mic' = "recording"
    BY <1>4 DEF MicrophoneGranted, MicrophoneDenied, dockSlots
  <2>2. ~recording /\ "mic" \in trays /\ MicUploads = {} /\ status = "open" /\ ~clip
    BY <1>1, <2>1 DEF RecorderShown
  <2>3. open = 0
    BY <2>2, NoSession
  <2>4. MicUploads' = {}
    BY <1>1, <2>1, <2>2, MicAborted
  <2>5. CASE mic' \in {"denied", "failed", "unsupported"} /\ UNCHANGED <<recording, open>>
    BY <1>2, <2>1, <2>2, <2>3, <2>4, <2>5, RecorderOff DEF MicPhases
  <2>6. CASE recording' = TRUE /\ open' = open + 1 /\ mic' = "recording"
    <3>1. recording' /\ recording' \in BOOLEAN /\ open' = 1
      BY <2>3, <2>6
    <3>2. RecorderShown'
      BY <2>1, <2>2, <2>4, <2>6, <3>1 DEF RecorderShown
    <3>3. MicrophoneHonest'
      BY <2>1, <2>2, <2>6, <3>1 DEF MicrophoneHonest
    <3>4. QED BY <1>2, <2>1, <2>6, <3>1, <3>2, <3>3 DEF RecorderOK, MicPhases
  <2>7. QED BY <2>1, <2>5, <2>6
<1>5. CASE LateMicrophone
  <2>1. UNCHANGED <<status, trays, mic, recording, open, clip, up>>
    BY <1>5 DEF LateMicrophone, dockSlots
  <2>2. QED BY <1>1, <2>1, MicAborted, RecorderFrame
<1>6. CASE RecordingLost \/ RecordingTimer \/ StopWatchdog \/ RecorderStopped
  <2>1. /\ recording /\ Discarded /\ mic' \in {"recorded", "failed"}
        /\ UNCHANGED <<status, trays, up>>
        /\ clip' = TRUE \/ clip' = clip
    BY <1>6 DEF RecordingLost, RecordingTimer, StopWatchdog, RecorderStopped, dockSlots
  <2>2. open' = 0 /\ ~recording' /\ recording' \in BOOLEAN
    BY <1>1, <1>2, <2>1, DiscardedIsOff
  <2>3. clip' \in BOOLEAN
    BY <1>2, <2>1
  <2>4. "mic" \in trays /\ MicUploads = {}
    BY <1>1, <2>1 DEF RecorderShown
  <2>5. MicUploads' = {}
    BY <1>1, <2>1, <2>4, MicAborted
  <2>6. QED BY <2>1, <2>2, <2>3, <2>4, <2>5, RecorderOff DEF MicPhases
<1>7. CASE StopRecording
  <2>1. /\ mic = "recording" /\ mic' = "stopping"
        /\ UNCHANGED <<status, trays, recording, open, clip, up>>
    BY <1>7 DEF StopRecording, dockSlots
  <2>2. MicUploads' = MicUploads
    BY <1>1, <2>1, MicAborted
  <2>3. RecorderShown'
    BY <1>1, <2>1, <2>2 DEF RecorderShown
  <2>4. MicrophoneHonest'
    BY <1>1, <2>1 DEF MicrophoneHonest
  <2>5. QED BY <1>2, <2>1, <2>3, <2>4 DEF RecorderOK, MicPhases
<1>8. CASE ClearRecording
  <2>1. /\ MicReleased /\ up' = Aborted("mic") /\ mic' \in {"disabled", "idle"}
        /\ UNCHANGED <<status, trays>> /\ ClearOffered
    BY <1>8 DEF ClearRecording
  <2>2. open' = 0 /\ ~recording' /\ recording' \in BOOLEAN
    BY <1>1, <1>2, <2>1, DiscardedIsOff DEF MicReleased
  <2>3. ~clip' /\ clip' \in BOOLEAN
    BY <2>1 DEF MicReleased
  <2>4. "mic" \in trays
    BY <1>1, <2>1 DEF ClearOffered, RecorderShown
  <2>5. MicUploads' = {}
    BY <1>1, <2>1, MicAborted
  <2>6. QED BY <2>1, <2>2, <2>3, <2>4, <2>5, RecorderOff DEF MicPhases
<1>9. QED BY <1>3, <1>4, <1>5, <1>6, <1>7, <1>8

\* The types of what neither the recorder nor the slots are about.
ComposerTypes ==
    /\ status \in {"open", "paused", "closed"} /\ turns \in 0 .. MaxTurns
    /\ trays \subseteq Trays /\ file \in {"none", "fit"}
    /\ fphase \in {"idle", "uploading", "attached", "failed"} /\ finished \subseteq Uploads
    /\ asks \in 0 .. MaxAsks /\ reply \in BOOLEAN
    /\ cmd \in [Commands -> {"unused", "sent", "confirmed", "refused"}]
    /\ carried \in [Commands -> SUBSET Uploads] /\ latest \subseteq Commands

\* Every step of the dock leaves the composer well typed.
LEMMA ComposerTypesStep ==
    ASSUME DockInv, DockNext
    PROVE  ComposerTypes'
<1> USE DockAssumption DEF ComposerTypes
<1>1. ComposerTypes /\ draftMedia \subseteq Uploads
  BY DEF DockInv, DockTypeOK
<1>2. ASSUME NEW s \in {"open", "paused", "closed"}, SetStatus(s) PROVE ComposerTypes'
  BY <1>1, <1>2 DEF SetStatus, FilesReset, dockFiles, dockChat
<1>3. ASSUME NEW tray \in Trays, OpenTray(tray) \/ CloseTray(tray) PROVE ComposerTypes'
  BY <1>1, <1>3 DEF OpenTray, CloseTray, FilesReset, dockFiles, dockChat
<1>4. ASSUME NEW m \in Uploads, UploadCompletes(m) \/ UploadFails(m) \/ RemoveMedia(m)
      PROVE  ComposerTypes'
  BY <1>1, <1>4
     DEF UploadCompletes, UploadFails, RemoveMedia, ReportFiles, FilesReset, dockFiles, dockMic, dockChat
<1>5. ASSUME NEW f \in {"none", "fit"}, Select(f) PROVE ComposerTypes'
  BY <1>1, <1>5 DEF Select, dockMic, dockChat
<1>6. CASE ClearFile \/ BeginUpload
  BY <1>1, <1>6 DEF ClearFile, BeginUpload, FilesReset, dockMic, dockChat
<1>7. CASE \/ AskMicrophone \/ MicrophoneGranted \/ MicrophoneDenied \/ LateMicrophone
           \/ RecordingLost \/ RecordingTimer \/ StopWatchdog \/ StopRecording
           \/ RecorderStopped \/ ClearRecording \/ UploadRecording
  <2>1. /\ UNCHANGED <<status, turns, trays, file, fphase, finished, reply, cmd, carried, latest>>
        /\ asks' \in {asks, asks + 1, asks - 1}
        /\ asks' = asks + 1 => asks < MaxAsks
        /\ asks' = asks - 1 => asks > 0
    BY <1>1, <1>7
       DEF AskMicrophone, MicrophoneGranted, MicrophoneDenied, LateMicrophone, RecordingLost,
           RecordingTimer, StopWatchdog, StopRecording, RecorderStopped, ClearRecording,
           UploadRecording, dockFiles, dockChat
  <2>2. QED BY <1>1, <2>1
<1>8. CASE Reply \/ CancelReply \/ Settle
  <2>1. /\ UNCHANGED <<status, turns, trays, file, fphase, finished, asks, cmd, carried, latest>>
        /\ reply' \in BOOLEAN
    BY <1>8 DEF Reply, CancelReply, Settle, dockFiles, dockMic
  <2>2. QED BY <1>1, <2>1
<1>9. ASSUME NEW c \in Commands, Submit(c) PROVE ComposerTypes'
  BY <1>1, <1>9 DEF Submit, SendIntent, BusSend, OnCommandSent, FilesReset, dockFiles, dockMic
<1>10. ASSUME NEW c \in Commands, NEW fate \in {"confirmed", "refused"}, Answered(c, fate)
       PROVE  ComposerTypes'
  BY <1>1, <1>10 DEF Answered, dockFiles, dockMic
<1>11. QED BY <1>2, <1>3, <1>4, <1>5, <1>6, <1>7, <1>8, <1>9, <1>10 DEF DockNext

\* Slots, draft and submissions after a step.
SlotsOK ==
    /\ MediaApart /\ MediaAccounted /\ inflight \in 0 .. MaxSlots
    /\ up \in [Uploads -> UploadRecords]
    /\ knownMedia \subseteq Uploads /\ draftMedia \subseteq Uploads
    /\ subs \subseteq (Commands \X BOOLEAN)

\* The three parts of the dock's invariant make it.
LEMMA PartsMakeInv == ComposerTypes /\ RecorderOK /\ SlotsOK => DockInv
BY DEF ComposerTypes, RecorderOK, SlotsOK, DockInv, DockTypeOK, UploadRecords, MicPhases

\* The invariant of the dock holds that of the slots.
LEMMA InvHasSlots == DockInv => SlotsOK
BY DEF SlotsOK, DockInv, DockTypeOK, UploadRecords

\* Aborting uploads, or nothing, leaves the accounts alone.
LEMMA AbortKeepsAccounts ==
    ASSUME DockInv, up' = up \/ \E tray \in Trays : up' = Aborted(tray)
    PROVE  StepsKept /\ up' \in [Uploads -> UploadRecords]
BY AbortedShape, InvHasSlots DEF StepsKept, DockInv, SlotsOK

\* A step that begins, ends and submits nothing leaves the slots as they are.
LEMMA SlotsFrame ==
    ASSUME DockInv, StepsKept, up' \in [Uploads -> UploadRecords],
           UNCHANGED <<inflight, knownMedia, draftMedia, cmd, carried, subs>>
    PROVE  SlotsOK'
BY MediaFrame, InvHasSlots DEF SlotsOK

\* Every step of the dock keeps the recorder and the slots as its trays show them.
LEMMA DockStep ==
    ASSUME DockInv, DockNext
    PROVE  RecorderOK' /\ SlotsOK'
<1> USE RecorderIsOK, InvHasSlots
<1>1. DockTypeOK /\ MediaApart
  BY DEF DockInv
<1>2. ASSUME NEW s \in {"open", "paused", "closed"}, SetStatus(s) PROVE RecorderOK' /\ SlotsOK'
  <2>1. /\ up' = [m \in Uploads |->
                    IF \/ up[m].by = "files" /\ s # "open"
                       \/ up[m].by = "mic"
                    THEN [up[m] EXCEPT !.aborted = TRUE] ELSE up[m]]
        /\ UNCHANGED <<inflight, knownMedia, draftMedia, cmd, carried, subs>>
    BY <1>2 DEF SetStatus, dockChat
  <2>2. \A m \in Uploads : up'[m] \in UploadRecords /\ up'[m].step = up[m].step
    <3>1. ASSUME NEW m \in Uploads PROVE up'[m] \in UploadRecords /\ up'[m].step = up[m].step
      <4>1. up[m] \in UploadRecords
        BY DEF SlotsOK
      <4>2. up'[m] \in {up[m], [up[m] EXCEPT !.aborted = TRUE]}
        BY <2>1
      <4>3. QED BY <4>1, <4>2 DEF UploadRecords
    <3>2. QED BY <3>1
  <2>3. StepsKept /\ up' \in [Uploads -> UploadRecords]
    <3>1. up' = [m \in Uploads |-> up'[m]]
      BY <2>1
    <3>2. QED BY <2>2, <3>1 DEF StepsKept
  <2>4. QED BY <1>2, <2>1, <2>3, RecorderTrays, SlotsFrame
<1>3. ASSUME NEW tray \in Trays, OpenTray(tray) \/ CloseTray(tray)
      PROVE  RecorderOK' /\ SlotsOK'
  <2>1. /\ UNCHANGED <<inflight, knownMedia, draftMedia, cmd, carried, subs>>
        /\ up' = up \/ up' = Aborted(tray)
    BY <1>3 DEF OpenTray, CloseTray, dockSlots, dockChat
  <2>2. QED BY <1>3, <2>1, AbortKeepsAccounts, RecorderTrays, SlotsFrame
<1>4. ASSUME NEW m \in Uploads, UploadCompletes(m) \/ UploadFails(m) PROVE RecorderOK' /\ SlotsOK'
  <2>1. /\ up[m].step = "running" /\ up' = [up EXCEPT ![m] = Over] /\ inflight' = inflight - 1
        /\ UNCHANGED <<cmd, carried, subs, status, trays, recording, open>>
        /\ \/ UNCHANGED <<knownMedia, draftMedia>>
           \/ knownMedia' = knownMedia \cup {m} /\ draftMedia' = draftMedia \cup {m}
        /\ ReportRecorder(m, "attached") \/ ReportRecorder(m, "failed")
    BY <1>4 DEF UploadCompletes, UploadFails, dockChat
  <2>2. /\ MediaApart' /\ MediaAccounted' /\ inflight' \in 0 .. MaxSlots
        /\ up' \in [Uploads -> UploadRecords] /\ MicUploads' = MicUploads \ {m}
        /\ knownMedia' \subseteq Uploads /\ draftMedia' \subseteq Uploads
    BY <2>1, EndKeepsAccounts
  <2>3. RecorderOK'
    BY <2>1, <2>2, RecorderHears
  <2>4. SlotsOK'
    BY <2>1, <2>2 DEF SlotsOK
  <2>5. QED BY <2>3, <2>4
<1>5. ASSUME NEW m \in Uploads, RemoveMedia(m) PROVE RecorderOK' /\ SlotsOK'
  <2>1. /\ m \in draftMedia /\ knownMedia' = knownMedia \ {m} /\ draftMedia' = draftMedia \ {m}
        /\ up' = up \/ up' = Aborted("files")
        /\ UNCHANGED <<inflight, cmd, carried, subs, status, trays, mic, recording, open, clip>>
    BY <1>5 DEF RemoveMedia, dockChat, dockMic
  <2>2. StepsKept /\ up' \in [Uploads -> UploadRecords]
    BY <2>1, AbortKeepsAccounts DEF Trays
  <2>3. MediaApart' /\ MediaAccounted' /\ inflight' \in 0 .. MaxSlots
    BY <2>1, <2>2, RemoveKeepsAccounts
  <2>4. SlotsOK'
    BY <2>1, <2>2, <2>3 DEF SlotsOK
  <2>5. RecorderOK'
    BY <1>1, <2>1, MicAborted, RecorderFrame
  <2>6. QED BY <2>4, <2>5
<1>6. CASE ClearFile \/ \E f \in {"none", "fit"} : Select(f)
  <2>1. /\ up' = Aborted("files")
        /\ UNCHANGED <<inflight, knownMedia, draftMedia, cmd, carried, subs>>
        /\ UNCHANGED <<status, trays, mic, recording, open, clip>>
    BY <1>6 DEF ClearFile, Select, dockChat, dockMic
  <2>2. StepsKept /\ up' \in [Uploads -> UploadRecords]
    BY <2>1, AbortKeepsAccounts DEF Trays
  <2>3. RecorderOK'
    BY <1>1, <2>1, MicAborted, RecorderFrame
  <2>4. QED BY <2>1, <2>2, <2>3, SlotsFrame
<1>7. CASE BeginUpload
  <2>1. /\ UNCHANGED <<cmd, carried, subs, status, trays, mic, recording, open, clip>>
        /\ NoSlot \/ \E m \in Uploads : ReserveSlot(m, "files")
    BY <1>7 DEF BeginUpload, dockChat, dockMic
  <2>2. ASSUME NEW m \in Uploads, ReserveSlot(m, "files") PROVE RecorderOK' /\ SlotsOK'
    <3>1. /\ MediaApart' /\ MediaAccounted' /\ inflight' \in 0 .. MaxSlots
          /\ up' \in [Uploads -> UploadRecords]
          /\ up'[m] = [by |-> "files", step |-> "running", aborted |-> FALSE]
          /\ \A n \in Uploads \ {m} : up'[n] = Aborted("files")[n]
      BY <2>1, <2>2, ReserveKeepsAccounts DEF Trays
    <3>2. SlotsOK'
      BY <2>1, <2>2, <3>1 DEF SlotsOK, ReserveSlot
    <3>3. MicUploads' \subseteq MicUploads
      BY <1>1, <3>1, AbortedShape DEF MicUploads, Trays
    <3>4. QED BY <2>1, <3>2, <3>3, RecorderFrame
  <2>3. CASE NoSlot
    <3>1. UNCHANGED <<up, inflight, knownMedia, draftMedia>>
      BY <2>3 DEF NoSlot
    <3>2. QED BY <1>1, <2>1, <3>1, AbortKeepsAccounts, MicAborted, RecorderFrame, SlotsFrame
  <2>4. QED BY <2>1, <2>2, <2>3
<1>8. CASE UploadRecording
  <2>1. /\ UNCHANGED <<cmd, carried, subs, status, trays, recording, open, clip>>
        /\ clip /\ mic # "uploading"
        /\ \/ NoSlot /\ mic' = "failed"
           \/ \E m \in Uploads : ReserveSlot(m, "mic") /\ mic' = "uploading"
    BY <1>8 DEF UploadRecording, RecordingUploadOffered, dockChat
  <2>2. ~recording /\ "mic" \in trays /\ MicUploads = {}
    BY <2>1 DEF RecorderOK, RecorderShown
  <2>3. open = 0 /\ recording \in BOOLEAN /\ clip \in BOOLEAN
    BY <2>2, NoSession DEF RecorderOK
  <2>4. ASSUME NEW m \in Uploads, ReserveSlot(m, "mic"), mic' = "uploading"
        PROVE  RecorderOK' /\ SlotsOK'
    <3>1. /\ MediaApart' /\ MediaAccounted' /\ inflight' \in 0 .. MaxSlots
          /\ up' \in [Uploads -> UploadRecords]
          /\ up'[m] = [by |-> "mic", step |-> "running", aborted |-> FALSE]
          /\ \A n \in Uploads \ {m} : up'[n] = Aborted("mic")[n]
      BY <2>1, <2>4, ReserveKeepsAccounts DEF Trays
    <3>2. SlotsOK'
      BY <2>1, <2>4, <3>1 DEF SlotsOK, ReserveSlot
    <3>3. MicUploads' \subseteq {m}
      BY <1>1, <3>1, AbortedShape DEF MicUploads, Trays
    <3>4. RecorderOK'
      BY <2>1, <2>2, <2>3, <2>4, <3>3, RecorderOff DEF MicPhases
    <3>5. QED BY <3>2, <3>4
  <2>5. CASE NoSlot /\ mic' = "failed"
    <3>1. UNCHANGED <<up, inflight, knownMedia, draftMedia>>
      BY <2>5 DEF NoSlot
    <3>2. MicUploads' = {}
      BY <1>1, <2>2, <3>1, MicAborted
    <3>3. RecorderOK'
      BY <2>1, <2>2, <2>3, <2>5, <3>2, RecorderOff DEF MicPhases
    <3>4. QED BY <2>1, <3>1, <3>3, AbortKeepsAccounts, SlotsFrame
  <2>6. QED BY <2>1, <2>4, <2>5
<1>9. CASE \/ AskMicrophone \/ MicrophoneGranted \/ MicrophoneDenied \/ LateMicrophone
           \/ RecordingLost \/ RecordingTimer \/ StopWatchdog \/ StopRecording
           \/ RecorderStopped \/ ClearRecording
  <2>1. /\ UNCHANGED <<inflight, knownMedia, draftMedia, cmd, carried, subs>>
        /\ up' = up \/ up' = Aborted("mic")
    BY <1>9 DEF AskMicrophone, MicrophoneGranted, MicrophoneDenied, LateMicrophone, RecordingLost,
       RecordingTimer, StopWatchdog, StopRecording, RecorderStopped, ClearRecording, dockSlots,
       dockChat
  <2>2. StepsKept /\ up' \in [Uploads -> UploadRecords]
    BY <2>1, AbortKeepsAccounts DEF Trays
  <2>3. QED BY <1>9, <2>1, <2>2, RecorderSteps, SlotsFrame
<1>10. CASE Reply \/ CancelReply
  <2>1. /\ UNCHANGED <<inflight, knownMedia, draftMedia, cmd, carried, subs, up>>
        /\ UNCHANGED <<status, trays, mic, recording, open, clip>>
    BY <1>10 DEF Reply, CancelReply, dockSlots, dockMic
  <2>2. QED BY <1>1, <2>1, AbortKeepsAccounts, MicAborted, RecorderFrame, SlotsFrame
<1>11. ASSUME NEW c \in Commands, Submit(c) PROVE RecorderOK' /\ SlotsOK'
  <2>1. /\ cmd[c] = "unused" /\ cmd' = [cmd EXCEPT ![c] = "sent"]
        /\ carried' = [carried EXCEPT ![c] = draftMedia] /\ draftMedia' = {}
        /\ subs' = IF reply \/ draftMedia # {} THEN subs \cup {<<c, reply>>} ELSE subs
        /\ up' = up \/ up' = Aborted("files")
        /\ UNCHANGED <<inflight, knownMedia, status, trays, mic, recording, open, clip>>
    BY <1>11 DEF Submit, SendIntent, BusSend, OnCommandSent, dockMic
  <2>2. StepsKept /\ up' \in [Uploads -> UploadRecords]
    BY <2>1, AbortKeepsAccounts DEF Trays
  <2>3. reply \in BOOLEAN
    BY <1>1 DEF DockTypeOK
  <2>4. MediaApart' /\ MediaAccounted' /\ inflight' \in 0 .. MaxSlots
    BY <2>1, <2>2, <2>3, SubmitKeepsAccounts
  <2>5. subs' \subseteq (Commands \X BOOLEAN)
    BY <2>1, <2>3 DEF SlotsOK
  <2>6. SlotsOK'
    BY <2>1, <2>2, <2>4, <2>5 DEF SlotsOK
  <2>7. RecorderOK'
    BY <1>1, <2>1, MicAborted, RecorderFrame
  <2>8. QED BY <2>6, <2>7
<1>12. ASSUME NEW c \in Commands, NEW fate \in {"confirmed", "refused"}, Answered(c, fate)
       PROVE  RecorderOK' /\ SlotsOK'
  <2>1. /\ cmd[c] = "sent" /\ cmd' = [cmd EXCEPT ![c] = fate]
        /\ UNCHANGED <<inflight, knownMedia, draftMedia, carried, subs, up>>
        /\ UNCHANGED <<status, trays, mic, recording, open, clip>>
    BY <1>12 DEF Answered, Unresolved, dockSlots, dockMic
  <2>2. StepsKept /\ up' \in [Uploads -> UploadRecords]
    BY <2>1, AbortKeepsAccounts
  <2>3. MediaApart' /\ MediaAccounted' /\ inflight' \in 0 .. MaxSlots
    BY <2>1, <2>2, AnswerKeepsAccounts
  <2>4. SlotsOK'
    BY <2>1, <2>2, <2>3 DEF SlotsOK
  <2>5. RecorderOK'
    BY <1>1, <2>1, MicAborted, RecorderFrame
  <2>6. QED BY <2>4, <2>5
<1>13. CASE Settle
  <2>1. UNCHANGED <<up, status, trays, mic, recording, open, clip>>
    BY <1>13 DEF Settle, dockMic
  <2>2. SlotsOK'
    BY <1>13, <2>1, SettleKeepsAccounts DEF SlotsOK
  <2>3. RecorderOK'
    BY <1>1, <2>1, MicAborted, RecorderFrame
  <2>4. QED BY <2>2, <2>3
<1>14. QED BY <1>2, <1>3, <1>4, <1>5, <1>6, <1>7, <1>8, <1>9, <1>10, <1>11, <1>12, <1>13 DEF DockNext

\* The dock's invariant holds throughout (ChatPanel and its trays).
THEOREM DockInvariant == DockSpec => []DockInv
<1>1. ASSUME DockInit PROVE DockInv
  <2>1. /\ \A m \in Uploads : up[m] = Idle
        /\ up \in [Uploads -> UploadRecords]
    BY <1>1 DEF DockInit, Idle, UploadRecords
  <2>2. MicUploads = {} /\ Ongoing = {}
    BY <2>1 DEF MicUploads, Ongoing, Idle
  <2>3. ComposerTypes
    <3>1. reply \in BOOLEAN
      BY <1>1 DEF DockInit
    <3>2. /\ cmd \in [Commands -> {"unused", "sent", "confirmed", "refused"}]
          /\ carried \in [Commands -> SUBSET Uploads]
      BY <1>1 DEF DockInit
    <3>3. turns \in 0 .. MaxTurns /\ asks \in 0 .. MaxAsks
      BY <1>1, DockAssumption DEF DockInit
    <3>4. QED BY <1>1, <3>1, <3>2, <3>3 DEF DockInit, ComposerTypes
  <2>4. RecorderOK
    <3>1. /\ ~recording /\ recording \in BOOLEAN /\ ~clip /\ clip \in BOOLEAN /\ open = 0
          /\ mic \in {"off", "idle"} /\ (mic # "off" <=> "mic" \in trays)
      BY <1>1 DEF DockInit
    <3>2. RecorderShown
      BY <2>2, <3>1 DEF RecorderShown
    <3>3. MicrophoneHonest
      BY <3>1 DEF MicrophoneHonest
    <3>4. QED BY <3>1, <3>2, <3>3 DEF RecorderOK, MicPhases
  <2>5. /\ inflight = 0 /\ knownMedia = {} /\ draftMedia = {} /\ subs = {}
        /\ \A c \in Commands : cmd[c] = "unused" /\ carried[c] = {}
    BY <1>1 DEF DockInit
  <2>6. MediaApart
    BY <2>5 DEF MediaApart, Standing
  <2>7. MediaAccounted /\ inflight \in 0 .. MaxSlots
    <3>1. Cardinality({}) = 0 /\ MaxSlots \in Nat
      BY FS_EmptySet, DockAssumption
    <3>2. {m \in Uploads : up[m].step = "running"} = {}
      BY <2>2 DEF Ongoing
    <3>3. QED BY <2>5, <3>1, <3>2 DEF MediaAccounted, Occupied
  <2>8. SlotsOK
    BY <2>1, <2>5, <2>6, <2>7 DEF SlotsOK
  <2>9. QED BY <2>3, <2>4, <2>8, PartsMakeInv
<1>2. DockInv /\ [DockNext]_dockVars => DockInv'
  <2>1. ASSUME DockInv, DockNext PROVE DockInv'
    <3>1. ComposerTypes' /\ RecorderOK' /\ SlotsOK'
      BY <2>1, ComposerTypesStep, DockStep
    <3>2. QED BY <3>1, PartsMakeInv, PTL
  <2>2. ASSUME DockInv, UNCHANGED dockVars PROVE DockInv'
    BY <2>2 DEF dockVars, dockFiles, dockMic, dockSlots, dockChat, DockInv, DockTypeOK, RecorderShown,
       MicUploads, MediaApart, Standing, MicrophoneHonest, MediaAccounted, Occupied
  <2>3. QED BY <2>1, <2>2
<1>3. QED BY <1>1, <1>2, PTL DEF DockSpec

\* Whatever is cancelled, closed, paused, refused or answered late: the microphone
\* is on only while the tray shows it recording in an open room, the shared slots
\* are exactly the media drafted, submitted and under way, and no medium belongs to
\* two messages that may both be accepted (MediaRecorderControl,
\* MediaSlotReservations, ChatPanel's settlement).
THEOREM DockShowsTheTruth == DockSpec => []DockSafe
<1>1. DockInv => DockSafe
  BY DEF DockInv, DockSafe, AttachedOnce, MediaApart, Standing
<1>2. QED BY <1>1, DockInvariant, PTL
===============================================================================

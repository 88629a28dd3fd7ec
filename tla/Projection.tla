----------------------------- MODULE Projection -----------------------------
(***************************************************************************)
(* A room's analytics: the event log, the ordered stream of consume and     *)
(* replay jobs over it, the worker that rebuilds the projection for each    *)
(* job, the immutable snapshots and patches it installs, and the teacher    *)
(* whose reviews and corrections are themselves events of the log.          *)
(*                                                                          *)
(* The four projection keys advance together in one transaction and are one *)
(* head here.  What a projection holds is the set of its concept edges, one *)
(* per message that still counts; a corrected edge has another identity.    *)
(* Leases and claims are JobQueue's: a job here runs, or loses its attempt. *)
(***************************************************************************)
EXTENDS Naturals, Sequences

CONSTANTS MaxEvents,     \* bound on the room's events
          MaxAttempts,   \* worker_job.max_attempts
          MaxDeploys,    \* bound on changes of the deployed algorithm version
          MaxCrashes,    \* bound on attempts lost to a crash or a database error
          Times,         \* client clocks of messages: on, or old by more than 5 s
          Reviews,       \* the teacher's kinds of review
          None           \* no head yet

ASSUME ProjectionAssumption ==
  /\ MaxEvents \in Nat /\ MaxDeploys \in Nat /\ MaxCrashes \in Nat
  /\ MaxAttempts \in Nat \ {0}
  /\ Times \subseteq {"on", "old"}
  /\ Reviews \subseteq {"approve", "suppress", "relabel", "drop"}

VARIABLES
  log,         \* room_event, with analytics_review_detail in its review events
  jobs,        \* worker_job rows of the room's analytics stream
  checkpoint,  \* analysis_consumer_checkpoints.last_room_seq
  head,        \* analysis_room_heads
  snapshots,   \* analysis_projection_snapshots
  patches,     \* analysis_projection_patches
  algorithm,   \* ECHO_VERSION and TRACE_VERSION of the deployed worker
  deploys, crashes

vars == <<log, jobs, checkpoint, head, snapshots, patches, algorithm, deploys, crashes>>
storeVars == <<head, snapshots, patches>>

Edge == [message : 1..MaxEvents, form : {"raw", "fixed"}]
Epoch == [kind : {"room"}] \cup [kind : {"algorithm"}, version : 1..2]
           \cup [kind : {"replay"}, reason : {"late_event", "analytics_review"}, source : 1..MaxEvents]
Snapshots == [epoch : Epoch, version : 1..MaxEvents, through : 1..MaxEvents,
              requiresReplay : BOOLEAN, algorithm : 1..2, edges : SUBSET Edge]

ASSUME NoneAssumption == None \notin Snapshots

Init ==
  /\ log = <<>> /\ jobs = {} /\ checkpoint = 0
  /\ head = None /\ snapshots = {} /\ patches = {}
  /\ algorithm = 1 /\ deploys = 0 /\ crashes = 0

------------------------------------------------------------------------------
(* What the worker computes from the log. *)

\* _suppressed_event_ids: evidence a teacher retracted, from the first event on.
Suppressed(n) ==
  {log[r].target : r \in {r \in 1..n : log[r].type = "review" /\ log[r].kind = "suppress"}}

\* _effective_events: the events both algorithms are given.
Semantic(n) == {k \in 1..n : log[k].type \in {"message", "retract"}} \ Suppressed(n)

\* The online gate: more than five seconds behind what was applied before.
Late(n) ==
  {k \in Semantic(n) : log[k].time = "old" /\ \E j \in Semantic(n) : j < k /\ log[j].time = "on"}

\* A faulty variant: a replay that feeds history back through the online gate.
AcceptedOnline(n, replaying) == Semantic(n) \ Late(n)
\* StreamingProjector.consume, or .replay, which admits late events.
Accepted(n, replaying) == IF replaying THEN Semantic(n) ELSE Semantic(n) \ Late(n)

Extracted(n, replaying) ==
  LET accepted  == Accepted(n, replaying)
      retracted == {log[k].target : k \in {k \in accepted : log[k].type = "retract"}}
  IN {[message |-> k, form |-> "raw"] :
        k \in {k \in accepted : log[k].type = "message"} \ retracted}

\* One correction of the ledger: ANALYTICS_CORRECTION_TARGET_INVALID when the
\* edge it names is not in the map it is applied to.
Corrected(map, event) ==
  IF event.type # "review" \/ event.kind \in {"approve", "suppress"} THEN map
  ELSE [valid |-> map.valid /\ event.target \in map.edges,
        edges |-> IF event.kind = "drop" THEN map.edges \ {event.target}
                  ELSE (map.edges \ {event.target})
                         \cup {[event.target EXCEPT !.form = "fixed"]}]

\* _apply_projection_corrections over a fresh rebuild.
Map(n, replaying) ==
  LET map[k \in 0..n] == IF k = 0 THEN [valid |-> TRUE, edges |-> Extracted(n, replaying)]
                         ELSE Corrected(map[k - 1], log[k])
  IN map[n]

------------------------------------------------------------------------------
(* The room's events and the stream. *)

Job(type, reason, source, through) ==
  [type |-> type, reason |-> reason, source |-> source, through |-> through,
   status |-> "queued", attempts |-> 0]

\* Every event and its consume job are one transaction.
Append1(event, more) ==
  /\ Len(log) < MaxEvents
  /\ log' = Append(log, event)
  /\ jobs' = jobs \cup {Job("consume", "event", Len(log) + 1, Len(log) + 1)} \cup more
  /\ UNCHANGED <<checkpoint, storeVars, algorithm, deploys, crashes>>

\* eventTime is the clientTime of the command.
Message(time) == Append1([type |-> "message", time |-> time], {})

\* The author retracts a message that is still there.
Retract(k, time) ==
  /\ log[k].type = "message"
  /\ \A r \in DOMAIN log : log[r].type = "retract" => log[r].target # k
  /\ Append1([type |-> "retract", target |-> k, time |-> time], {})

\* Lifecycle, media and agent events that neither algorithm reads.
OtherEvent == Append1([type |-> "other"], {})

\* A projection authority admits one review: the head the command names, caught
\* up with the room.
Reviewable(epoch, version) ==
  /\ head # None
  /\ head.epoch = epoch /\ head.version = version
  /\ ~head.requiresReplay /\ head.through = Len(log)

\* What the locked room and snapshot must hold for the command's target.
ReviewTargets(kind) == IF kind = "suppress" THEN DOMAIN log ELSE head.edges

\* A command with an identity of its own; a repeated one finds its event
\* before the head is compared and changes nothing.
Recorded(kind, target, epoch, version) ==
  \E r \in DOMAIN log : /\ log[r].type = "review" /\ log[r].kind = kind /\ log[r].target = target
                        /\ log[r].epoch = epoch /\ log[r].version = version

Review(kind, epoch, version) ==
  /\ Reviewable(epoch, version)
  /\ \E target \in ReviewTargets(kind) :
       /\ ~Recorded(kind, target, epoch, version)
       /\ Append1([type |-> "review", kind |-> kind, target |-> target,
                   epoch |-> epoch, version |-> version],
                  {Job("replay", "analytics_review", Len(log) + 1, Len(log) + 1)})

\* A faulty Failed: the attempt is not counted.
FailedUncounted(j) == jobs
\* fail: the attempt counts, and the last one ends the job.
Failed(j) ==
  (jobs \ {j}) \cup {[j EXCEPT !.attempts = @ + 1,
                              !.status = IF j.attempts + 1 < MaxAttempts THEN "queued" ELSE "dead"]}

Before(i, j) == i.through < j.through \/ (i.through = j.through /\ i.type = "consume" /\ j.type = "replay")

\* The claim query: nothing of the room that is not succeeded comes before.
Runnable(j) ==
  /\ j.status = "queued"
  /\ \A i \in jobs : Before(i, j) => i.status = "succeeded"

------------------------------------------------------------------------------
(* The worker. *)

\* _current_or_initial_epoch
CurrentEpoch ==
  IF head = None THEN [kind |-> "room"]
  ELSE IF head.algorithm # algorithm THEN [kind |-> "algorithm", version |-> algorithm]
  ELSE head.epoch

\* _patch_baseline: a snapshot of another epoch is not a base.
Baseline(epoch) == IF head = None \/ head.epoch # epoch THEN {} ELSE head.edges

\* The replay rows this consume writes, keyed by the earliest late event.
LateReplay(n) ==
  LET source == CHOOSE k \in Late(n) : \A l \in Late(n) : k <= l
  IN Job("replay", "late_event", source, n)

\* REPLAY_AUTHORITY_CONFLICT: the key exists and its immutable fields differ.
Conflicting(request) ==
  \E j \in jobs : /\ j.type = "replay" /\ j.reason = request.reason /\ j.source = request.source
                  /\ j.through # request.through

\* What _materialize persists: a successor in the epoch, or its first version.
Snapshot(n, epoch, replaying, edges) ==
  [epoch |-> epoch,
   version |-> IF head # None /\ head.epoch = epoch THEN head.version + 1 ELSE 1,
   through |-> n, requiresReplay |-> ~replaying /\ Late(n) # {},
   algorithm |-> algorithm, edges |-> edges]

PatchOf(s) ==
  [epoch |-> s.epoch, version |-> s.version,
   added |-> s.edges \ Baseline(s.epoch), removed |-> Baseline(s.epoch) \ s.edges]

\* ON CONFLICT DO NOTHING, and then the row must be the same.
Persistable(s) ==
  /\ \A t \in snapshots : t.epoch = s.epoch /\ t.version = s.version => t = s
  /\ \A p \in patches : p.epoch = s.epoch /\ p.version = s.version => p = PatchOf(s)

\* persist_and_advance for the four keys, the cursor, and the job's outcome.
Install(j, s, requests) ==
  /\ snapshots' = snapshots \cup {s}
  /\ patches' = patches \cup {PatchOf(s)}
  /\ head' = s
  /\ checkpoint' = IF s.through > checkpoint THEN s.through ELSE checkpoint
  /\ jobs' = (jobs \ {j}) \cup {[j EXCEPT !.status = "succeeded"]}
               \cup {r \in requests : \A i \in jobs : i.type = "replay" =>
                       i.reason # r.reason \/ i.source # r.source}

Complete(j) ==
  /\ jobs' = (jobs \ {j}) \cup {[j EXCEPT !.status = "succeeded"]}
  /\ UNCHANGED <<checkpoint, storeVars>>

\* A handler that raises rolls its transaction back.
Raise(j) ==
  /\ jobs' = Failed(j)
  /\ UNCHANGED <<checkpoint, storeVars>>

\* _materialize, with what it may raise.
Materialize(j, n, epoch, replaying) ==
  LET map == Map(n, replaying)
      s == Snapshot(n, epoch, replaying, map.edges)
      requests == IF s.requiresReplay THEN {LateReplay(n)} ELSE {}
  IN IF map.valid /\ Persistable(s) /\ \A r \in requests : ~Conflicting(r)
     THEN Install(j, s, requests) ELSE Raise(j)

\* analytics_consume_handler
Consume(j) ==
  IF checkpoint >= j.through THEN Complete(j)
  ELSE IF checkpoint + 1 # j.through THEN Raise(j)
  ELSE Materialize(j, j.through, CurrentEpoch, FALSE)

\* analytics_replay_handler
Replay(j) ==
  LET epoch == [kind |-> "replay", reason |-> j.reason, source |-> j.source]
  IN IF checkpoint < j.through THEN Raise(j)
     ELSE IF head.epoch = epoch /\ head.through >= checkpoint THEN Complete(j)
     ELSE Materialize(j, checkpoint, epoch, TRUE)

Handle(j) == IF j.type = "consume" THEN Consume(j) ELSE Replay(j)

Work ==
  /\ \E j \in jobs : Runnable(j) /\ Handle(j)
  /\ UNCHANGED <<log, algorithm, deploys, crashes>>

\* The worker dies, or its database does, before the job commits.
Crash ==
  /\ crashes < MaxCrashes
  /\ crashes' = crashes + 1
  /\ \E j \in jobs : Runnable(j) /\ Raise(j)
  /\ UNCHANGED <<log, algorithm, deploys>>

\* A worker with another reference version, or with the one before.
Deploy ==
  /\ deploys < MaxDeploys
  /\ deploys' = deploys + 1
  /\ algorithm' = 3 - algorithm
  /\ UNCHANGED <<log, jobs, checkpoint, storeVars, crashes>>

Next ==
  \/ \E t \in Times : Message(t)
  \/ \E k \in DOMAIN log, t \in Times : Retract(k, t)
  \/ OtherEvent
  \/ \E kind \in Reviews, s \in snapshots : Review(kind, s.epoch, s.version)
  \/ Work
  \/ Crash
  \/ Deploy

ProjectionSpec == Init /\ [][Next]_vars

\* The worker polls for ever: a job that may run is run.
FairProjectionSpec == ProjectionSpec /\ WF_vars(Work)

------------------------------------------------------------------------------
(* Properties. *)

Entries ==
  [type : {"message"}, time : {"on", "old"}]
    \cup [type : {"retract"}, target : 1..MaxEvents, time : {"on", "old"}]
    \cup [type : {"other"}]
    \cup [type : {"review"}, kind : {"suppress"}, target : 1..MaxEvents,
          epoch : Epoch, version : 1..MaxEvents]
    \cup [type : {"review"}, kind : {"approve", "relabel", "drop"}, target : Edge,
          epoch : Epoch, version : 1..MaxEvents]
Jobs == [type : {"consume", "replay"}, reason : {"event", "late_event", "analytics_review"},
         source : 1..MaxEvents, through : 1..MaxEvents,
         status : {"queued", "succeeded", "dead"}, attempts : 0..MaxAttempts]
Patches == [epoch : Epoch, version : 1..MaxEvents, added : SUBSET Edge, removed : SUBSET Edge]

\* The log, the rows of the stream and what is stored have their types.
ProjectionTypeOK ==
  /\ log \in Seq(Entries) /\ Len(log) <= MaxEvents
  /\ jobs \subseteq Jobs
  /\ checkpoint \in 0..Len(log)
  /\ snapshots \subseteq Snapshots
  /\ head \in snapshots \cup {None}
  /\ patches \subseteq Patches
  /\ algorithm \in 1..2 /\ deploys \in 0..MaxDeploys /\ crashes \in 0..MaxCrashes

\* A reader that starts at version 0 of an epoch and applies its patches in
\* order has, at every version, exactly the snapshot of that version: the
\* timeline route and /latest agree, after replays and new algorithms too.
EdgesAt(epoch, version) ==
  UNION {s.edges : s \in {s \in snapshots : s.epoch = epoch /\ s.version = version}}
PatchesRebuildSnapshots ==
  \A s \in snapshots : \E p \in patches :
    /\ p.epoch = s.epoch /\ p.version = s.version
    /\ s.version > 1 => \E t \in snapshots : t.epoch = s.epoch /\ t.version = s.version - 1
    /\ s.edges = (EdgesAt(s.epoch, s.version - 1) \ p.removed) \cup p.added

\* Two algorithm versions never share an analysis epoch, whichever worker
\* installed its versions and however replays and deployments alternate.
OneAlgorithmPerEpoch ==
  \A s, t \in snapshots : s.epoch = t.epoch => s.algorithm = t.algorithm

\* A head that says it dropped a late event has the replay that will admit it
\* still in the stream: the flag is never left without its job.
ReplayOwed ==
  head # None /\ head.requiresReplay =>
    \E j \in jobs : j.type = "replay" /\ j.through = head.through /\ j.status # "succeeded"

\* When the stream has run dry the head shows exactly the messages that still
\* count, the late ones too: what was dropped online was restored, and nothing
\* later dropped it again.
Counts(k) ==
  /\ log[k].type = "message" /\ k \notin Suppressed(Len(log))
  /\ \A r \in DOMAIN log : CASE log[r].type = "retract" -> log[r].target = k => r \in Suppressed(Len(log))
                            [] log[r].type = "review"  -> log[r].kind = "drop" => log[r].target.message # k
                            [] OTHER -> TRUE
QuietMeansComplete ==
  head # None /\ (\A j \in jobs : j.status = "succeeded") =>
    /\ head.through = Len(log)
    /\ {e.message : e \in head.edges} = {k \in DOMAIN log : Counts(k)}

\* No two reviews were decided against the same projection: a second command
\* waits until the first one's replay has moved the head.
OneReviewPerHead ==
  \A r, q \in DOMAIN log :
    log[r].type = "review" /\ log[q].type = "review"
      /\ log[r].epoch = log[q].epoch /\ log[r].version = log[q].version => r = q

CaughtUp == checkpoint = Len(log)

\* Every event is projected, or a job of the stream has used up its attempts:
\* the room's events are finitely many, so the cursor meets the log's end.
EventsProjected == []<>(CaughtUp \/ \E j \in jobs : j.status = "dead")

\* docs/plans/learning-orbit-plan-03-analytics.md: every room event advances
\* the shared cursor, a late one and a corrected one too.
\* The code does not keep this: see the observations in README.md.
EveryEventAdvances == []<>CaughtUp

\* What is published can be rebuilt, belongs to one algorithm per epoch, owes the
\* replays it lost and is complete when the worker is quiet.
ProjectionSafe ==
    /\ ProjectionTypeOK /\ PatchesRebuildSnapshots /\ OneAlgorithmPerEpoch
    /\ ReplayOwed /\ QuietMeansComplete /\ OneReviewPerHead
=============================================================================

# Learning Orbit: TLA+ models, checks and proofs

This directory holds a verification development for the Learning Orbit classroom
pilot. It models the parts of the system in which a wrong interleaving, a crash or
a late message could corrupt a lesson, checks them with TLC on small instances,
and proves every safety property it checks with TLAPS for instances of any size.

Paths below are relative to `src/`; `server/` stands for `apps/server/src/`, `web/`
for `apps/web/src/`, `worker/` for `services/worker/src/learning_orbit_worker/`.

## 1. The system

A lesson takes place in a *room*. Students and a teacher write messages and give
commands over a WebSocket; a Fastify server stores everything as an append-only
ledger of room events in PostgreSQL; Python workers take jobs from a table of the
same database (analytics, Agent answers, media processing, the automatic close,
deletion). The browser keeps a copy of the ledger and draws everything from it.

| Component | State | Operations | What must hold |
|---|---|---|---|
| Durable job queue (`worker/jobs.py`, `handler_registry.py`, `claim_worker_job.sql`, `settle_worker_job_claims.sql`, `job-claim-authority.ts`) | `worker_job`, `worker_job_completion`, each worker's claim | enqueue, claim, heartbeat, business commit with receipt, succeed, fail, cancel, take over a lapsed lease | a job's work commits at most once and its row tells the truth; a room's analytics stream commits in order; no row blocks the queue; every job ends |
| Room ledger (`room-event-repository.ts`, `lifecycle-service.ts`, `message-service.ts`) | `classroom_room`, `room_event`, requests between their transactions | open, pause, resume, close, automatic close, add, revise, retract, review, request deletion | a command acts once; the log is a legal history and gives the status; revisions form a chain; a deletion freezes the log |
| Agent runs (`modules/agent`, `worker/agent/executor.py`) and their status on the page (`agent-status`, `hydrated-session-state.ts`) | `agent_run`, the frame the panel reads | request, cancel, enable, complete, reconcile, ask for the status | an answer exists exactly for completed runs; settled runs stay; every run ends; the panel shows the latest answer |
| Provider health (`provider-health-repository.ts`, the internal route, the worker's probe) | one row per provider | probe, report, admit a run | runs are admitted only on fresh, newest, healthy reports |
| Realtime delivery (`outbox-publisher.ts`, `room-hub.ts`, `connection.ts`) | `outbox_event`, connections, live buffers | publish, replay, deliver, dispatch commands, close | every event reaches every browser |
| Presence and typing (`connection.ts`, `ephemeral-signals.ts`, `room-access-client.tsx`) | signals held per connection, what pages draw | announce, keep alive, expire, sweep, depart | a seat is drawn as its pages are, both ways |
| Browser session (`room-socket.ts`, `hydrated-session-state.ts`, `event-ledger.ts`) | cursor, ledger, pending commands, page recovery | connect, resume, accept, recover, reconnect, clear | the copy is a prefix of the ledger; commands are answered; nothing is left after the session |
| Media upload, promotion and processing (`modules/media`, `worker/media`) | assets, upload grants, fences, objects, jobs | grant, upload, promote, process, reconcile, sweep | no object without a row, no row without its object |
| Student dock (`chat-panel.tsx`, `composer`, `media-composer.tsx`, `media-recorder.tsx`, `media-slot-reservations.ts`) | trays, slots, microphone, submissions | record, upload, submit, settle | the microphone is on only when shown; slots and media are accounted for |
| Transcript (`message-card`, `media-attachment.tsx`) | card, metadata, bytes, draft | mount, ask, download, revise, unmount | bytes and draft belong to what is shown |
| Deletion and retention (`governance-service.ts`, `worker/lifecycle.py`, `retention-scheduler.ts`) | deletion jobs, surface manifests, receipts | request, erase a surface, verify, finish | every surface is erased before the room's row; a receipt proves it |
| Room export (`governance-service.ts`, `session-gateway.ts`) | the response body | read, encode, limit, parse, validate, save | a saved file holds the whole ledger |
| Analytics (`analytics_handlers.py`, `projector.py`, `projection_store.py`, `modules/analytics`) and the reference algorithms | projections, epochs, corrections, texts | consume, replay, review, correct, promote | a projection is the fold of a prefix of the log; epochs never mix; students see only what is supported |
| Student analytics promotion (`student-analytics-policy-listener.ts`, `projection-sync.ts`) | promotion row, listener, the panel's slot | grant, revoke, expire, announce, refresh, patch | what is withdrawn is not shown; the panel never goes back |
| Teacher console (`teacher-control-panel.tsx`) | authority, queue, action, undo | load, page, act, look up | an action's target is what was shown |
| Sign-in and access (`modules/auth`, `modules/authorization`, `room-service.ts`, the pages) | sessions, cookies, seats, codes | sign in, create, join, leave, revoke | seats, codes and room data stay with whom they belong to |
| Local pilot verification (`scripts/verify-local-pilot.mjs`, `scripts/local-pilot`) | resources, cleanup stack, gates, receipt | preflight, ten stages, cleanup, receipt | PASS is earned and leaves nothing behind |
| Provider gateways, contracts, layout and drawing, observability | – | – | not modelled (section 6) |

**Interactions.** The server and the workers share the database. A worker that has
to write to the ledger sends a signed request to an internal route of the server,
which re-checks the worker's claim inside its own transaction. A room lock and row
locks make each transaction atomic; everything between two transactions, awaits or
messages can interleave. The publisher polls the outbox every 250 ms and hands
events to the connections of the hub; the browser repairs gaps by fetching pages
over HTTP. Projections, media outcomes, the Agent's status and presence reach the
page as frames of the same socket, without the ledger's ordering.

**What is hard.** Leases that lapse while a handler still runs; requests that are
executed after their worker gave up; crashes between a business commit and its
report; lifecycle calls that span several transactions; the reconciler, which
selects without a lock; overlapping publisher ticks; replay and live delivery on
the same socket; page recovery that awaits while live frames arrive; uploads and
copies that outlive their callers; late answers of superseded requests; a cookie
that tabs share; signals in the middle of a cleanup. `PROJECT.json` lists these as
hazards, each at its line with the properties that would catch it.

## 2. Modules

| Module | Models | Proofs |
|---|---|---|
| `JobQueue` | the job queue and its workers | `JobQueueProofs` |
| `RoomLedger` | room, ledger, messages, lifecycle calls | `ClassroomProofs` |
| `Classroom` | the room with its close job and its Agent runs; extends `RoomLedger`, instantiates `JobQueue` | `ClassroomProofs` |
| `ProviderHealth` | the reports that admit Agent runs | `ServerProofs` |
| `Nova` | the Agent's status on a page | `FeedsProofs` |
| `Realtime` | outbox, hub, connection, one browser | `RealtimeProofs` |
| `Presence` | a seat's pages, connections and who draws it | `ServerProofs` |
| `Media` | uploads, promotion, processing, janitor | `AttachmentsProofs` |
| `Dock` | the student's dock | `AttachmentsProofs` |
| `Transcript` | a message card with an attachment | `AttachmentsProofs` |
| `Deletion` | deletion sagas, retention | `WorkerProofs` |
| `Export` | the room export, from rows to the saved file | `ServerProofs` |
| `Projection` | the analytics stream, epochs, snapshots, patches, reviews | `ServerProofs` |
| `Analysis` | what the worker computes: ECHO, TRACE, windows | `WorkerProofs` |
| `Visibility` | promotion, its withdrawal, a student's panel | `FeedsProofs` |
| `Console` | the teacher's review console | `FeedsProofs` |
| `Access` | sign-in, rooms, seats, tabs | `PremisesProofs` |
| `PilotGates`, `Pilot` | required suites; one run of the local pilot | `PremisesProofs` |
| `MCServer`, `MCRoomLedger`, `MCAnalysis`, `MCClassroom`, `MCRealtime`, `MCAttachments`, `MCFeeds`, `MCDeletion`, `MCProjection`, `MCPremises` | constants, symmetry and scenes for TLC | |

A definition whose comment calls it *faulty* is a plausible mistake in the code
behind the definition that follows it. It takes part in no specification;
substituting it must make the property it was written for fail.

### JobQueue

One action per database transaction or worker step. A claim is the pair
`<<job, generation>>`: the code also draws a random token, which changes with the
generation and adds nothing. `Claim` is `JobStore.claim`, which runs
`claim_worker_job.sql` (`Candidate`) and `settle_worker_job_claims.sql`
(`Recover`, `Exhaust` or `Pick`). An attempt is `run_with_lease`: the handler
sends a business request (`Send`) that stays in flight until the server or the
worker's own transaction executes it (`Commit`, `CommitClosing`, `RejectStale`,
`Refuse`) – possibly after the worker has timed out, lost its lease or crashed –
and then reports (`Succeed`, `Fail`). `Heartbeat` and `HeartbeatError` are the
heartbeat thread. Times are abstracted to what the code compares: `ready`
(`run_after <= now()`), `expired` (`locked_at` two minutes old), `rescheduled`
(a retry has overwritten `run_after`). `JobStore.cancel` has no caller and is left
out. `effects` is a history variable that counts business commits.

### RoomLedger

The log is the sequence of room events; an event records its causation id, type,
actor, message, base revision and revision. Texts, attachments and times are
abstracted away; `due` says that the server's clock has reached `closesAt`. `open`
and the message commands are one transaction each. `pause`, `resume` and `close`
are three transactions (look for a retry, close a due room, make the transition),
so a call is a record in `calls` that moves from one to the next; `MaxCalls`
bounds how many are under way at once.

### Classroom

The transactions that touch both a room and a job: opening inserts the close job,
closing cancels the room's jobs, the internal routes check the claim and write the
ledger in one transaction. `QueueSpec` states that the composition implements
`JobQueue`, with the rooms in deletion as its only mapped variable. The database's
clock (`ready`) and the server's clock (`due`) are independent. A run needs a
message that is not retracted; that it must mention Nova is abstracted away.
Two branches of the code are unreachable here: the close route's ALREADY_CLOSED
(closing cancels the job) and the completion route's repeated answer (a claim is
answered once).

### Realtime and Presence

`Realtime` has one browser; others matter only because they can make a publication
fail after this one was served. Events are their `room_seq`. Between two awaits
JavaScript is not interrupted, so each action is the code from one await to the
next: a tick claims a row, lists the room's connections (`Broadcast`), delivers to
this one (`Deliver`), marks the row published. The connection goes through `open`,
`greeted`, `replaying`, `live`. In the browser every frame is one action; the page
recovery is a request that is answered (`ServePage`) and later applied (`TakePage`).
`CatchesUp` asks what the rest would do if ticks did not overlap.

`Presence` has one seat with several pages and the page that watches it. One tick is
six seconds; timers are the ticks left. A frame waits for `reauthorize`, so frames
of one connection can overtake each other (`passed`), and a connection may close
while its frame waits. `drawn`, `dark`, `overtaken` and `gone` are history
variables.

### Media, Dock, Transcript

`Media` follows a medium from grant to outcome. The two server calls that hold the
room's session lock over several transactions are a record `call`; what writes to
the object store without the lock (the browser's PUT, a copy whose caller gave up)
is in `puts` and `copies` and covered by a fence. Finalizing an upload records the
intent, moves the fence in a transaction of its own (`FinalizeFence`), starts the copy
(`FinalizeCopy`) and commits. Between the two the code does nothing but return from
the transaction, so `FencePasses` waits for a copy that is due (`CopyDue`): the fence
outlives that pause unless the process is gone. The janitor takes the oldest grants
past their fence as a batch, erases the staging object, then the destination, then
retires the row, under two locks. Grants it has closed but cannot retire stay in the
selection; `Crowded(m)` says that they leave no place for m's.

`Dock` is one action from an event to the effects of the render it causes. An
upload is its media id; `aborted` stands for both the token and the abort signal.
`Settle` is the settlement effect over all submissions a render found settled.

`Transcript` has one message with one attachment. The metadata token is `asked`, the
download token `loads`; answers carry the token they were asked with.

### Deletion

The room's content is a count of rows per table; a saga is a row, a frozen manifest
and one job per surface. Each action is one transaction, and a handler's commit and
the settlement of its job are two, so a worker can die between them (`Reclaim`).
The teacher's request and the retention scheduler start sagas independently. Every
writer takes the room lock and asks for a saga, with one exception: `Grant`, a student
analytics promotion (`student-analytics-promotion.ts:101-128`), is written into the
counted surface `projections` at any time. It is a table of its own, so that the
properties can say what it disturbs (`Promotions`).

### Projection and Analysis

`Projection` is about order: consume and replay jobs over the log, late events,
reviews that are events themselves, deployments that start a new epoch, snapshots
and patches. What a projection holds is the set of its edges. `Analysis` is about
what is computed: the incremental concept map and interaction network, loops over the
events (with the clocks of the devices that dated them, and messages that mention
Nova), against a direct definition over the log (`MapsAgree`, `CaughtUpIsExact`).
The teacher approves or rejects evidence, the text made of it, or an edge of the map
itself; students see edges admitted in either way (`Approved`, `ApprovedEdges`,
`StudentEdges`), less those retracted (`Dropped`). The session window ends with the
room's `closes_at` (`ClosesAt`). A job that meets
`REPLAY_AUTHORITY_CONFLICT`, `ANALYTICS_CORRECTION_TARGET_INVALID`,
`ANALYTICS_ARTIFACT_LINEAGE_AMBIGUOUS` or `INVALID_TRACE_ACTOR_MAPPING` is not enabled
(`Publishable`); `FailuresKnown` says when that can be.

### Visibility, Console, Nova

`Visibility` has the promotion row, the outbox of pointers, the listener with its
outages, and one student's browser; `era` counts the times the projection became
visible. A grant may have any window and any allowlist: it starts at once, later
(`Begin`) or is already over. `Console` has four kinds of overlapping request and a second tab.
`Nova` has the runs, the status requests, their timer and `#mergeAgentFrame`.

### ProviderHealth, Export

`ProviderHealth` has samples dated by a skewed clock that arrive in any order, the
upsert and the admission check. `Export` encodes a room as JSON or as CSV with its
quoting, cuts or limits the body, and parses and validates what arrived; a text is
a sequence of the three symbols that matter to CSV and identities for the rest. The
loops of the encoder, the parser and the validation are recursive functions.

### Access, Pilot

`Access` has one browser whose tabs share a cookie: a request carries the cookie of
the moment it is sent, the server works on it later, and its answer sets cookies
even if no page waits for it. `Pilot` has a plan of checks per stage, each of which
may succeed, fail, be aborted or go on after an abort (the straggler), and the
cleanup stack with its dependencies; `PilotGates` turns what each test runner
reports into one summary and decides whether its gate passes.

## 3. Runs

Four harnesses (`MCServer`, `MCAttachments`, `MCFeeds`, `MCPremises`) put parts that
share no state side by side: a behaviour is one of the part its *scene* names, and
the other parts stay as they are at the start. A property about one part therefore
says of it what a run of its own would. `MCClassroom` has two scenes that differ in
what the users do. Each module's properties are grouped:

- `QueueSound`: `TypeOK`, `HonestStatus`, `NoCompletionMissing`, `NoStuckHead`.
- `RoomSound`: `RoomTypeOK`, `LegalHistory`, `StatusFollowsLog`, `Authorship`.
- `ClassroomSafe`: `AgentTypeOK`, `AnswerIffCompleted`, `ClosedRoomIsQuiet`, `CloseJobHonest`.
- `RealtimeSafe`: `RealtimeTypeOK`, `AppliedInOrder`, `ResumeMatches`, `ClearedStaysEmpty`,
  `SnapshotStartsRecovery`, `NoSilentLoss`.
- `PresenceHonest`: `SeatReturns`, `GoneFades`.
- `MediaSafe`: `MediaTypeOK`, `ObjectsHaveRows`, `OriginalKept`.
- `DockSafe`: `DockTypeOK`, `MicrophoneHonest`, `MediaAccounted`, `AttachedOnce`.
- `TranscriptSafe`: `BytesOwned`, `DraftOnWhatIsShown`.
- `VisibilitySafe`: `VisibilityTypeOK`, `WithheldNotShown`. `ConsoleSafe`: `TargetsAsShown`,
  `QueueInOrder`.
- `DeletionSafe`: `DeletionTypeOK`, `VerifiedStaysEmpty`, `ReceiptProvesErasure`,
  `FrozenCountsHold`, `OneSaga`. `DeletionEndsForGood`: `SagaOutcomeFinal`, `DeletionEnds`.
- `ProjectionSafe`: `ProjectionTypeOK`, `PatchesRebuildSnapshots`, `OneAlgorithmPerEpoch`,
  `ReplayOwed`, `QuietMeansComplete`, `OneReviewPerHead`.
- `AnalysisSafe`: `MapsAgree`, `WindowExplained`, `FailuresKnown`, `OneTextPerMessage`,
  `StudentEvidenceLive`.
- `AccessGuarded`: `AccessTypeOK`, `SeatsGuarded`, `CodesHidden`, `NothingServedAfterDeletion`,
  `EntersAsSeat`. `PilotSafe`: `PassLeavesNothing`, `PassIsEarned`, `InterruptedNeverPasses`,
  `NothingPulledAway`.

| Run | Instance | Shows |
|---|---|---|
| `Server` | queue: 2 workers, an Agent and a close job, 2 attempts; presence: 1 page, 2 connections; export: 2 events (`MaxRoomEvents`), 1 of them under the row limit; providers: 2 manifests | `AtMostOnce`, `QueueSound`, `SettledForGood`; `PresenceHonest`; `SavedHoldsLedger`, `WholeIsSaved`; `AdmittedHealthy` |
| `RoomLedger` | a student, the teacher, Nova, 3 lifecycle and 3 message commands, 1 call at a time | `CausedOnce`, `RevisionChain`, `RoomSound`, `FrozenByDeletion` |
| `Classroom` | 1 run, 1 worker, 2 attempts, 2 lifecycle commands and a call, fair | `ClassroomSafe`, `QueueSpec`, `SettledRunStays`, `RunEnds`, `OverdueClosesOrFails` |
| `Realtime` | 2 events, 1 command, limits of 1, retries, 1 drop, fair | `RealtimeSafe`, `CatchesUp`, `CommandsResolve` |
| `Attachments` | all of the pipeline for 1 medium, 2 calls, 2 attempts; the sweep of 2 media with a batch of 1; dock: 2 uploads, 2 messages, 1 slot; card: 3 events, 1 disconnect; fair (566,652 states) | `MediaSafe`, `ReadyStays`, `DockSafe`, `TranscriptSafe`, `AttachmentsSettle` |
| `Feeds` | the stream consume, replay, consume, 1 worker; panel: 2 revisions, 1 outage; console: 2 versions, 2 texts; status: 2 runs, 2 refreshes; fair (849,147 states) | `CommitInOrder`, `VisibilitySafe`, `PanelNeverRegresses`, `ConsoleSafe`, `FrameIsLatestAnswer`, `FeedsSettle` |
| `Deletion` | 2 sagas, 2 workers, 3 surfaces (`provider_copies`, `projections`, `events`) and a promotion, 2 attempts, fair (503,141 states) | `DeletionSafe`, `DeletionEndsForGood` |
| `Projection` | 4 events, 2 attempts, 1 deployment, 1 crash, fair | `ProjectionSafe`, `EventsProjected` |
| `Analysis` | 3 messages, one of them mentions Nova and one is hers, 6 events, 2 reviews, closing time 5, slow and fast clocks (442,921 states) | `CaughtUpIsExact`, `AnalysisSafe` |
| `Premises` | 2 tabs, 1 seat; pilot with 2 edits, 1 signal or crash, 1 foreign container; fair (665,286 states) | `AccessGuarded`, `PilotSafe`, `PremisesSettle` |

`AttachmentsSettle`, `FeedsSettle` and `PremisesSettle` are the liveness properties
of their scenes in one leads-to: the janitor gets to a staging object unless older
grants fill its batch (`Crowded`), a microphone is turned off, a page that is told of an outcome shows it; jobs settle, a panel loses
what was withdrawn, a console comes to rest, a status is confirmed or said to be
unsure; pages come to rest and a pilot's run ends.

Two runs that TLC must refute, because the code contradicts its own documentation:

| Run | Refuted | Why |
|---|---|---|
| `ClassroomRetry` | `OverdueCloses` | a retry overwrites `run_after`, which both closing paths compare with `closesAt`; after one failed attempt the room can no longer be closed automatically |
| `RealtimeGap` | `EveryEventArrives` | with overlapping ticks an event that arrives during a page recovery is dropped; in a quiet room nothing asks for it |

**Bounds.** Two workers are enough for one to hold a claim that the other has taken
over; two attempts for a first, a retry and an exhaustion. Three message commands
make an add and two edits of the same base. With one lifecycle call between its
transactions, everything else that is one transaction can fall between them; the
theorems cover any number. In `Realtime` limits of one make every limit reachable
with two events, and two events are enough for one to overtake the other. One slot
makes the two trays compete; two uploads and two messages are enough for a medium to
be refused and sent again. Three surfaces are the first, the last and one between, which
is the one that promotions are counted in. With a batch of one, two media make the
janitor's selection leave one out; in that scene only the first is finalized, once,
and the whole pipeline has a scene of its own with one medium. Two
versions or epochs are enough for an answer to be stale, two tabs for one to replace
the other's cookie. Four events hold a message, a late one, a retraction and a
review. `Max...` constants name every bound on a counter; clocks in `Presence` have
none, since only the time left matters.

**Deadlock** is not checked: in every model the system may come to rest (all jobs
settled, the room closed, the browser gone).

**Fairness** is weak, and only for what the code schedules by itself: the worker's
supervisor loop and the end of its handlers, the two-minute lease and `run_after`
clocks, the server's timers (publisher, reconciler, retention, listener) and its
handling of requests and frames, the browser's event loop and timers. No user
action, no failure and no crash is assumed to happen. The one strong fairness is the
janitor's (`JanitorSelect`, `JanitorStaging`): its timer fires for ever, and a store
call that may fail does not fail each time. A URL, a PUT, a copy or a fence ends for
some medium, not for each: the two media take turns. A finalize that is retried without
end moves its fence each time, which nothing in the code limits; `MaxAttempts` and
`Calls` do here. A dead or cancelled job in an analytics stream blocks its successors for
good, since nothing in the repository revives it; `FeedsSettle` and
`EventsProjected` say so.

## 4. Proofs

All theorems hold for every value of the constants that the named assumptions of the
modules admit: any number of jobs, workers, rooms, students, commands, runs, media,
sagas, events and requests, and every `max_attempts > 0`. Other assumptions only say
that model values differ, that job families are disjoint and that bounds are natural
numbers. Each inductive invariant was checked with TLC before it was proved.

*JobQueueProofs.* The properties are not inductive by themselves. The invariant
`IInv` adds: claims are drawn from the row's generation counter and never shared
(`ClaimsDrawn`); only the latest generation can have a receipt, and a receipt
stands for the job's one effect (`ReceiptsMatch`); while a row runs, the receipt
says whether the effect happened (`EffectsCounted`); a request in flight has not
committed (`OneRequest`); a waiting row has an attempt left (`AttemptsLeft`); work
on an analytics job begins after its predecessors have succeeded
(`StreamOrdered`). From it follow `QueueIsSound`, `CommitsAtMostOnce`,
`StreamInOrder` and `SettledStays`.

*ClassroomProofs, the room.* `StepShape` shows that every step either leaves the log alone
or appends one admissible event; the rest of the argument is about appending. The
invariant `LInv` adds to the properties that every message is rooted in an event
whose causation id is its name (`Rooted`) and that revisions increase with
`room_seq` (`Increasing`), so that the event `#latestMessage` selects is the last
of its chain. From it follow `EffectsOnce`, `RevisionsChain`, `LedgerIsSound`;
`DeletionFreezes` is an action property.

*ClassroomProofs, the classroom.* The invariant `CInv` takes `IInv` through the instance of the
queue's proofs and adds: a run's answer, state and job agree (`AnswerIffCompleted`,
`RunsHaveJobs`), what the reconciler has selected is over for good (`SweptAreOver`),
a closed room leaves no work behind, and its close job succeeds only by closing it.
The key fact is that a claim the fence accepts has not committed yet: with it, the
transaction that answers a run is the run's first. Step by step the classroom is
shown to implement `JobQueue` (`ImplementsQueue`) and `RoomLedger`
(`ImplementsRoom`), so the ledger's own theorems carry over
(`ClassroomLedgerIsSound`). `OneStory` is `ClassroomSafe`; `RunSettledOnce` is an
action property.

*RealtimeProofs.* `RealtimeInv` describes what lies between server and browser. The
frames under way continue the browser's cursor until `resume_complete` has arrived,
which lies after the events that lead up to it (`ReplayKnown`, `ResumedAt`); a close is
the last frame and a snapshot the one before it (`FrameKnown`); a recovery holds the
reconnect back and never starts ahead of the cursor (`RecoveryKnown`). While rows are
published in order (`OrderKnown`), what was given to the connection has arrived, is
under way or waits in the buffer, and no frame leaves a gap behind it. `RealtimeIsSafe`
follows.

*ServerProofs, admission.* `HealthInv` says that the row is the newest report taken
about its manifest; a row of the approved manifest is therefore the newest there is
(`AdmissionIsHonest`).

*ServerProofs, presence.* `PresenceInv` says that each open page announces itself
before the seat has been dark for a keepalive, unless a frame of it is being handled or
was overtaken (`SeatCovered`), and that without a page nothing is under way after one
tick while what is drawn gets older (`SeatFading`). `PresenceIsHonest` follows.

*ServerProofs, a room's analytics.* `PInv` has one job per key and a consume for each
event (`StreamKnown`), the head where the cursor is (`HeadKnown`), one snapshot per
version, made by the job and algorithm its epoch names (`SnapshotsKnown`), a snapshot
behind every review (`ReviewsKnown`), and `HeadExact`: a head that dropped nothing shows
exactly the messages that count among its events. `FoldSound` shows that the rebuild
computes that set. `ProjectionIsSafe` follows.

*ServerProofs, the export.* Each loop is a sequence of states (`Turns`). A row of the
document is 17 symbols (`RowSpells`); the parser, at rest before a row, is at rest
behind it with one more record that is the row (`ReadRow`, `ReadBack`); the rows of a
type are a block (`RowsLayout`), so the validation files the lists the server wrote
(`ReadLists`), and the text of a whole document is accepted. A cut text passes only
if it ends with a row, since a line break stands nowhere else (`BreakPlace`); the lists
of a cut document are clipped (`FiledClipped`), and clipped lists agree with the manifest
and with each other only if nothing is missing or everything behind the last event is
(`CutPlaces`, `CsvCut`, `JsonCut`). `ExportInv` adds to `SavedHoldsLedger` that what is
under way was checked when it was written. `SavedIsLedger` and `WholeIsAccepted` follow.

*AttachmentsProofs.* For the upload, `MInv` relates the call that holds the session lock
to its row and to the fence its copy is due under (`CallIsPending`), covers every writer
by the fence (`FenceCovers`), makes giving up final (`GivenUp`) and keeps the janitor right between its locks
(`SweepIsRight`). For the card, `TInv` says that the attachment is mounted exactly while
the message is shown, that nothing follows a retraction, and that the download with
the current token was begun by an attachment that is still mounted and holds no
bytes (`DownloadsInTurn`); `ReleaseTakesAll` shows that a release leaves no URL and
no download with the new token. For the dock, `DockInv` adds that the recorder's
phase tells its session, tray, clip and its one upload (`RecorderShown`) and that
standing commands share no media with each other, the draft or the uploads under way
(`MediaApart`), refused commands included until their media are back in the draft.
`MediaIsSafe`, `ReadyForGood`, `CardHoldsWhatItShows` and `DockShowsTheTruth` follow.

*WorkerProofs, deletion.* `DInv` says that a saga that works holds the room and is the
only one, that it started with its whole manifest, that workers act for started sagas
and that the room is frozen meanwhile but for a promotion, which its surface's erasure
takes along and the room's row by its foreign key. `DeletionIsSafe` and `DeletionOutcomeFinal` follow.

*WorkerProofs, analytics.* The four loops (projector, texts, corrections, window) are
functions over `0 .. n`, each with a statement about every turn. The versions of a message
form a line: what is in force after `n` events is the last version that was neither
retracted nor replaced (`LineKnown`), and the projector's state is that line for every
message together with what it withheld as late (`ProjectorKnown`). `AInv` says so of what
is stored, with the texts (`TextsKnown`) and what is shown (`ShownKnown`); it makes a
consume job and a replay of the same log agree. `AnalysisIsExact` and `AnalysisIsSafe`
follow.

*FeedsProofs.* `VInv` counts eras, says that the browser is told only of eras that
are over, that a key has one refresh, and that its answer and what is shown are
current. `NInv` says that runs and requests take their turn and that every answer,
and the frame made of it, was true when stamped. For the console, `CInv` says that
while the shown projection is the newest, the queue is sorted and unreviewed and a next
page on its way lies behind all that is listed and behind the first page, which a reload
may list again (`ListsCurrent`, `NextIsBehind`). `WithheldIsGone`, `PanelGoesForward`,
`StatusIsLatestAnswer` and `ConsoleIsSafe` follow.

*PremisesProofs.* For access, `AInv` gives a page that waits exactly one request of its
own (`Waits`), ties every request to a session that was there (`RequestsKnown`) and a
socket to a page that shows a room (`BrowserTyped`); sign-ins are paid for by moves
(`SignInsCounted`). For the pilot, `PilotInv` says that a run that has not failed came
through every check, uninterrupted and on an approved host (`FlowKnown`, `GatesKnown`),
that what was made is registered (`RegisteredKnown`, `ResourcesKnown`), that an entry is
cleaned up after what it requires (`CleanupKnown`), that what a running child uses is
there (`InUse`), and that what a finished entry has shown stays so (`TakenAway`,
`AllDone`). `AccessIsGuarded` and `PilotIsSafe` follow.

Facts about all turns of a loop are not proved by an induction theorem, whose operator
parameter no installed prover instantiates, but from the least turn that would break
them: a non-empty set of numbers has a smallest element (`LeastNumber`,
`SmallestNumber`), which the well-foundedness of `<` gives.

**Only model-checked.** The liveness properties, since fairness and ENABLED are outside
the prover: `RunEnds`, `OverdueClosesOrFails`, `CatchesUp`, `CommandsResolve`,
`AttachmentsSettle`, `FeedsSettle`, `EventsProjected`, `PremisesSettle` and the
half of `DeletionEndsForGood` that says a deletion ends.

## 5. Observations

Statements of a comment, a document or a test that the code does not keep. Two are
runs (section 3). The others were found while modelling; where a definition is named,
it states the sentence in its module and TLC refutes it.

- `Presence!DepartureIsReal`: the sweep of one connection announces a departure
  (`connection.ts:138-140`) while another socket of the seat is live
  (`room-hub.ts:42-44`: only when none remains). The seat returns with the next
  keepalive.
- `Presence!NeverSwallowed`: a typing frame can still pass a waiting presence frame
  with the shared counter (`room-socket.ts:168-171`), since each waits for its own
  reauthorization.
- `ProviderHealth!NewestIsKept`: after a redeployment the row keeps the old manifest's
  report (`provider-health-repository.ts:13-29`; plan 04, line 203).
- `Media!TerminalStays`: the internal reconcile route does not count `quarantined` and
  `failed` among the states already promoted (its line 102), so a late reconcile
  promotes a rejected medium again ("stable terminal rejections", plan 02, line 729). 
- `Media!Crowded`: the janitor selects the oldest grants past their fence
  (`media-staging-janitor.ts:114-120`) and leaves none out, neither those it must defer
  nor those already closed that stay for a living asset. As many of them as the batch
  holds keep every later grant's staging object from being swept, which the class
  comment (line 61) promises without exception. `AttachmentsSettle` is about
  the objects that have a place in the batch.
- `Dock!RefusalsTold`: the receipt is about the latest command, so the refusal of an
  earlier one is not shown (`chat-panel.tsx:147-150`, `:205-206`).
- `Transcript!LostFrameRefreshed`: a media outcome broadcast while a page is away is
  not asked for after a reconnect (`media-internal-outcome-route.ts:203-205`).
- `Visibility!DroppedListenerReturns`: the listener reconnects once; if that
  attempt fails its error is swallowed and nothing tries again
  (`student-analytics-policy-listener.ts:80`; "must not silently stop", `:51`).
  `Visibility!WithheldMeansWithheld`: a policy read that fails is told to the browser as
  a projection that is not promoted (`app.ts:187-188`; `room-hub.ts:127-128`).
- `Console!UndoOfferedIsNewest`: the undo that is offered need not be of the newest
  merge (`teacher-control-panel.tsx:475-480`, `:297-300`, `:319-321`).
- `Nova!StatusFollows`: nothing broadcasts the end of a run (plan 04, line 805); a page
  learns of it when it asks.
- `Deletion!CopiesKeepRetrying`: copies at a provider are said to stay retryable
  (`lifecycle.py:84-89`); the queue gives up after `max_attempts` (`jobs.py:378`).
- A promotion granted while its room is deleted (`student-analytics-promotion.ts:101-128`
  takes no room lock) makes the surface `projections` fail with
  `LIFECYCLE_SURFACE_COUNT_CHANGED` until its attempts are used up and the saga is dead;
  granted after that surface was verified, it goes with the room's row
  (`ON DELETE CASCADE`), so that a receipt stays true. The service has no caller in
  production yet. `VerifiedStaysEmpty` and `FrozenCountsHold` except promotions and
  nothing else.
- A grant whose window starts later or is over withdraws what was live, and
  `changedKeys`, which does not look at the window, does not say so
  (`Visibility!Grant`).
- `Projection!EveryEventAdvances`: a late event that meets an earlier replay request
  with another bound fails (`replay_jobs.py:74-85`), and a correction whose target is
  gone fails the rebuild (`analytics_handlers.py:762`); both end in a dead job. In
  `Analysis` the first happens to every event after a late one, unless the teacher hides
  the late one, and `Analysis!TargetsStay` states what the comment at
  `analytics-teacher-service.ts:346-349` hopes for: an edge that was retracted fades
  with its claims, and every later job then fails.
- `Analysis!TextKept`: walking the events again, said to be idempotent, can leave the last
  version of a message without a text in force (`analytics_handlers.py:847-852`).
- `Analysis!NovaNeverTypedHuman`: a message that mentions Nova before she has spoken makes
  her a node typed human (`extractors.py:117`, `learning_orbit_algorithms_v1.py:1914`,
  `:2145`); `trace_adapter.py:170` then raises `INVALID_TRACE_ACTOR_MAPPING` on every
  retry, which ends the room's analytics. The comment at `analytics_handlers.py:308-316`
  and `services/worker/tests/unit/test_trace_windowing.py:122` describe this failure as
  repaired. These three are the cases that `FailuresKnown` excepts.
- An approval may name an edge of the map instead of its evidence
  (`analytics_handlers.py:421-425`, `:713-735`): students then see an edge none of whose
  evidence was approved. `StudentEvidenceLive` allows both.
- `Realtime` reaches `stop = "range"`: a live buffer that overflows in the middle of
  a replay sends `snapshot_required` with the cursor of the hello, which the browser
  has passed (`hydrated-session-state.ts:573`).
- A CSV body without a declared length that is cut exactly after its last event
  passes validation; the console may list a text on two pages; a failed load of its
  queue is not tried again; after a lost answer to a room's creation its one-time codes
  are never shown; a page without a socket is not told of a revocation; a panel that
  shows a deletion as unknown asks for ever.
- `AgentTriggerController` and `requestAgentRun` are wired nowhere, and the janitor's
  verdict `rows_only` is unreachable.

## 6. Not modelled, and what is left

Telemetry and fault controls (no effect on the state), the generated contracts (the
models take well-formed data), signatures and digests (external cryptography), the
providers and the object store beyond their outcomes, layout and drawing, weights and
text matching of the algorithms, SIGKILL of the pilot (nothing handles it), the
coordinator's layout of several projection keys, and the panel's lifecycle buttons.
A database error while a frame is handled is not an action of its own: the browser is
told of an invalid frame (`connection.ts:121`), and `Realtime!ServerCloses` lets that
happen at any time. Corrections that rename what an edge joins, or move a span, are left
out of `Analysis`; they look for their targets as a retraction does. The media
surface's own request (`lifecycle.py:265-279`) is never made while there is media: a
room with media counts as copied to a provider, and that surface comes first.

No safety property of a run is left to prove. What could be added: the safety halves of
the liveness properties, as action properties of their own; a refinement of `Projection`
by `Analysis`, which meet only in what a projection holds; several browsers in
`Realtime`; and models of the provider gateways and of the coordinator's layout.

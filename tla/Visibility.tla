----------------------------- MODULE Visibility -----------------------------
(***************************************************************************)
(* A room's student analytics panel: the promotion row that says whether   *)
(* students may see the projection, the projection's head and the outbox of *)
(* pointers to it, the listener that tells open sockets of a withdrawal,    *)
(* and one student's browser, which keeps a reference and a slot for the    *)
(* projection and fetches it through the authorised read routes.            *)
(*                                                                          *)
(* One projection key (echo.student_approved, the one with a patch route)   *)
(* and one student.  `era' counts the times the projection became visible;  *)
(* it marks under which visibility a read was authorised, and no guard of   *)
(* the code reads it.                                                       *)
(***************************************************************************)
EXTENDS Naturals, Sequences

CONSTANTS MaxRevision,   \* bound on changes of the promotion row
          MaxInstalls,   \* bound on versions the worker installs
          MaxWire,       \* bound on frames on their way to the browser
          MaxFaults,     \* bound on outages, lost connections and lost sockets
          None           \* no pointer, snapshot or call

ASSUME VisibilityAssumption ==
  /\ MaxRevision \in Nat \ {0} /\ MaxWire \in Nat \ {0}
  /\ MaxFaults \in Nat /\ MaxInstalls \in Nat
  /\ None \notin [epoch : Nat, version : Nat] \cup [epoch : Nat, version : Nat, era : Nat]

VARIABLES
  promo,     \* student_analytics_promotion: live, pending (listed, starts_at to come),
             \* unlisted, expired or revoked
  era,       \* times the projection became visible (history)
  withdrawn, \* the last era a committed change announced as over (history)
  head,      \* analysis_room_heads of the projection
  installs,  \* versions installed since the start
  pointers,  \* analysis_projection_outbox rows not yet published
  listener,  \* the LISTEN connection of the policy listener
  notices,   \* notifications the connection holds, in commit order
  seen,      \* #lastRevision
  announces, \* withheld notices the listener is about to broadcast, by the era they end
  missed,    \* a listener call ended in an error nobody retries (history)
  dbUp, faults,
  socket,    \* the student's socket: down, resuming (hello said), open
  wire,      \* frames on their way to the browser
  ref,       \* ProjectionSync #references
  slot,      \* ProjectionSync #slots
  tasks,     \* projection tasks the browser has under way and not aborted
  told       \* the last era the browser was told is over (history)

promoVars  == <<promo, era, withdrawn>>
serverVars == <<head, installs, pointers>>
listenVars == <<listener, notices, seen, announces, missed>>
faultVars  == <<dbUp, faults>>
clientVars == <<ref, slot, tasks, told>>
visibilityVars == <<promoVars, serverVars, listenVars, faultVars, socket, wire, clientVars>>

Grants == {"live", "pending", "unlisted", "expired"}    \* any window, any allowlist
Promotions == [state : Grants \cup {"revoked"}, revision : 1..MaxRevision]
Pointer == [epoch : 1..(MaxInstalls + 1), version : 1..(MaxInstalls + 1)]
Content == [epoch : 1..(MaxInstalls + 1), version : 1..(MaxInstalls + 1), era : 1..MaxRevision]
Frame   == [type : {"projection"}, pointer : Pointer]
             \cup [type : {"degraded"}, era : 0..MaxRevision]
             \cup [type : {"resume_complete"}]
Notices == [revision : 1..MaxRevision, keys : 0..1]    \* changedKeys, by their number
Slots   == [availability : {"loading", "ready", "not_available_by_policy", "failed"},
            snapshot : Content \cup {None}]
NoAnswer == [epoch |-> 0, version |-> 0, era |-> 0]
Tasks   == [route : {"latest", "patches"}, target : Pointer \cup {None},
            after : 0..(MaxInstalls + 1), answer : Content \cup {NoAnswer},
            state : {"asked", "error", "policy", "resync", "content"}]

\* The live row: #currentKeys, #evaluate and fenceRoomRead read the same condition.
Allowed(p) == p.state = "live"

\* A lesson under way: the projection is promoted, the listener listens and
\* the student watches the first version.
VisibilityInit ==
  /\ promo = [state |-> "live", revision |-> 1]
  /\ era = 1 /\ withdrawn = 0
  /\ head = [epoch |-> 1, version |-> 1]
  /\ installs = 0 /\ pointers = {}
  /\ listener = "on" /\ notices = <<>> /\ seen = 1
  /\ announces = {} /\ missed = FALSE
  /\ dbUp = TRUE /\ faults = 0
  /\ socket = "open" /\ wire = <<>>
  /\ ref = head
  /\ slot = [availability |-> "ready", snapshot |-> [epoch |-> 1, version |-> 1, era |-> 1]]
  /\ tasks = {} /\ told = 0

------------------------------------------------------------------------------
(* Promotion: the row and its notification commit together. *)

\* #notify: only a connection that LISTENs holds the notification.
Notified(revision, changed) ==
  IF listener \in {"reconciling", "on"}
  THEN Append(notices, [revision |-> revision, keys |-> IF changed THEN 1 ELSE 0])
  ELSE notices

\* What a change of the row means for what students see.
Turned(p, announced) ==
  /\ promo' = p
  /\ era' = IF Allowed(p) /\ ~Allowed(promo) THEN era + 1 ELSE era
  /\ withdrawn' = IF announced /\ Allowed(promo) THEN era ELSE withdrawn
  /\ UNCHANGED <<serverVars, faultVars, socket, wire, clientVars>>

\* grant: the upsert clears a revocation and an expiry.  changedKeys compares the
\* live keys before with the new allowlist and does not look at the new window, so
\* a grant that starts later, or is already over, withdraws what was live unannounced.
Grant(state) ==
  /\ dbUp /\ promo.revision < MaxRevision
  /\ LET p == [state |-> state, revision |-> promo.revision + 1]
         changed == Allowed(promo) # (state # "unlisted")
     IN Turned(p, changed) /\ notices' = Notified(p.revision, changed)
  /\ UNCHANGED <<listener, seen, announces, missed>>

\* revoke: a tombstone with a higher revision; changedKeys are the live keys.
Revoke ==
  /\ dbUp /\ promo.revision \in 1..(MaxRevision - 1)
  /\ LET p == [state |-> "revoked", revision |-> promo.revision + 1]
     IN Turned(p, Allowed(promo)) /\ notices' = Notified(p.revision, Allowed(promo))
  /\ UNCHANGED <<listener, seen, announces, missed>>

\* expires_at passes: nothing is written and nobody is notified.
Expire ==
  /\ Allowed(promo)
  /\ Turned([state |-> "expired", revision |-> promo.revision], FALSE)
  /\ UNCHANGED listenVars

\* starts_at passes, as silently.
Begin ==
  /\ promo.state = "pending"
  /\ Turned([state |-> "live", revision |-> promo.revision], FALSE)
  /\ UNCHANGED listenVars

------------------------------------------------------------------------------
(* The projection and its outbox. *)

\* The worker installs a version, or the first version of a new epoch, with
\* its pointer in the same transaction.
Project ==
  /\ dbUp /\ installs < MaxInstalls /\ installs' = installs + 1
  /\ head' \in {[head EXCEPT !.version = @ + 1], [epoch |-> head.epoch + 1, version |-> 1]}
  /\ pointers' = pointers \cup {head'}
  /\ UNCHANGED <<promoVars, listenVars, faultVars, socket, wire, clientVars>>

\* The last era that is over.
Over == IF Allowed(promo) THEN era - 1 ELSE era

Push(frame) ==
  /\ Len(wire) < MaxWire
  /\ wire' = IF socket = "down" THEN wire ELSE Append(wire, frame)

\* claim, broadcastProjectionAuthorized and markPublished.  The claim orders
\* its rows but the UPDATE returns them in no order.  A policy read that
\* fails is turned into a refusal by projectionDeliveryFailureDecision; a row
\* that cannot be marked is released and goes out again.
PublishPointer(ptr) ==
  /\ ptr \in pointers
  /\ Push(IF dbUp /\ Allowed(promo) THEN [type |-> "projection", pointer |-> ptr]
                                    ELSE [type |-> "degraded", era |-> Over])
  /\ \E marked \in BOOLEAN :
       /\ marked \/ ~dbUp
       /\ pointers' = IF marked THEN pointers \ {ptr} ELSE pointers
  /\ UNCHANGED <<promoVars, head, installs, listenVars, faultVars, socket, clientVars>>

------------------------------------------------------------------------------
(* The policy listener. *)

\* start, first half: pool.connect.  A failed start is not tried again.
ListenerConnect ==
  /\ listener = "down"
  /\ listener' = IF dbUp THEN "connected" ELSE "stopped"
  /\ UNCHANGED <<promoVars, serverVars, notices, seen, announces, missed, faultVars,
                 socket, wire, clientVars>>

\* start, second half: LISTEN, and only then the reconciliation.
Listen ==
  /\ listener = "connected" /\ dbUp
  /\ listener' = "reconciling"
  /\ UNCHANGED <<promoVars, serverVars, notices, seen, announces, missed, faultVars,
                 socket, wire, clientVars>>

\* currentAllowlist: the durable row decides, not the notice.  An error ends
\* the call (.catch(() => undefined)) and is not made up for.
ReadAllowlist(affected) ==
  /\ announces' = IF affected /\ dbUp /\ ~Allowed(promo) THEN announces \cup {era} ELSE announces
  /\ missed' = (missed \/ (affected /\ ~dbUp))
  /\ UNCHANGED <<promoVars, serverVars, faultVars, socket, wire, clientVars>>

\* A faulty Reconcile: a listener that returns reads nothing again.
ReconcileNothing ==
  /\ listener = "reconciling" /\ listener' = "on"
  /\ ReadAllowlist(FALSE)
  /\ UNCHANGED <<notices, seen>>

\* reconcileConnectedRooms: the rooms that have a socket.
Reconcile ==
  /\ listener = "reconciling" /\ listener' = "on"
  /\ ReadAllowlist(socket # "down")
  /\ UNCHANGED <<notices, seen>>

\* #apply: an old revision is dropped; a changed key is re-read.
Apply ==
  /\ notices # <<>> /\ notices' = Tail(notices)
  /\ LET n == Head(notices) IN
       /\ seen' = IF n.revision > seen THEN n.revision ELSE seen
       /\ ReadAllowlist(n.revision > seen /\ n.keys > 0)
  /\ UNCHANGED listener

\* #announceWithheld, through broadcastDegraded and its reauthorisation.
Announce(over) ==
  /\ over \in announces /\ announces' = announces \ {over}
  /\ IF dbUp THEN Push([type |-> "degraded", era |-> over]) ELSE wire' = wire
  /\ missed' = (missed \/ ~dbUp)
  /\ UNCHANGED <<promoVars, serverVars, listener, notices, seen, faultVars, socket, clientVars>>

------------------------------------------------------------------------------
(* Faults. *)

Fault == faults < MaxFaults /\ faults' = faults + 1

\* The connection's error event: what it held is gone, #reconnect runs.
LoseListener ==
  /\ listener' = IF listener \in {"connected", "reconciling", "on"} THEN "down" ELSE listener
  /\ notices' = <<>>
  /\ UNCHANGED <<seen, announces, missed>>

ConnectionDrops ==
  /\ Fault /\ listener \in {"connected", "reconciling", "on"}
  /\ LoseListener
  /\ UNCHANGED <<promoVars, serverVars, dbUp, socket, wire, clientVars>>

OutageStarts ==
  /\ Fault /\ dbUp /\ dbUp' = FALSE
  /\ LoseListener
  /\ UNCHANGED <<promoVars, serverVars, socket, wire, clientVars>>

OutageEnds ==
  /\ ~dbUp /\ dbUp' = TRUE
  /\ UNCHANGED <<promoVars, serverVars, listenVars, faults, socket, wire, clientVars>>

SocketDrops ==
  /\ Fault /\ socket # "down"
  /\ socket' = "down" /\ wire' = <<>>
  /\ UNCHANGED <<promoVars, serverVars, listenVars, dbUp, clientVars>>

SocketConnects ==
  /\ socket = "down" /\ dbUp
  /\ socket' = "resuming"
  /\ UNCHANGED <<promoVars, serverVars, listenVars, faultVars, wire, clientVars>>

ResumeEnds ==
  /\ socket = "resuming" /\ dbUp
  /\ socket' = "open"
  /\ Push([type |-> "resume_complete"])
  /\ UNCHANGED <<promoVars, serverVars, listenVars, faultVars, clientVars>>

------------------------------------------------------------------------------
(* The browser. *)

\* A faulty StartTask: the earlier task of the key goes on.
StartTaskBesideOthers(task) ==
  /\ tasks' = tasks \cup {task}
  /\ slot' = [slot EXCEPT !.availability = "loading"]

\* #projectionTask: the earlier task of the key is aborted, the slot says
\* loading and keeps its snapshot.
StartTask(task) ==
  /\ tasks' = {task}
  /\ slot' = [slot EXCEPT !.availability = "loading"]

Latest(target) == [route |-> "latest", target |-> target, after |-> 0, state |-> "asked",
                   answer |-> NoAnswer]

\* ProjectionSync.accept
Verdict(ptr) ==
  CASE ref = None -> "accepted"
    [] ref # None /\ ptr.epoch # ref.epoch -> "epoch_changed"
    [] ref # None /\ ptr.epoch = ref.epoch /\ ptr.version = ref.version -> "duplicate"
    [] ref # None /\ ptr.epoch = ref.epoch /\ ptr.version < ref.version -> "stale"
    [] ref # None /\ ptr.epoch = ref.epoch /\ ptr.version = ref.version + 1 -> "accepted"
    [] OTHER -> "gap"

\* #reconcileProjectionFrame asks for patches when the shown snapshot is the
\* frame's predecessor, else for the latest snapshot.
TaskFor(ptr, verdict) ==
  LET shown == slot.snapshot IN
  IF verdict = "accepted" /\ shown # None /\ shown.epoch = ptr.epoch
       /\ shown.version + 1 = ptr.version
  THEN [Latest(ptr) EXCEPT !.route = "patches", !.after = shown.version]
  ELSE Latest(ptr)

AcceptPointer(ptr) ==
  LET verdict == Verdict(ptr) IN
  /\ ref' = IF verdict \in {"accepted", "epoch_changed"} THEN ptr ELSE ref
  /\ IF verdict \in {"duplicate", "stale"} THEN UNCHANGED <<slot, tasks>>
                                          ELSE StartTask(TaskFor(ptr, verdict))
  /\ told' = told

\* A faulty AcceptWithheld: a refresh under way goes on.
AcceptWithheldKeepingTask(over) ==
  /\ ref' = None /\ tasks' = tasks
  /\ slot' = [availability |-> "not_available_by_policy", snapshot |-> None]
  /\ told' = IF over > told THEN over ELSE told

\* STUDENT_ANALYTICS_NOT_PROMOTED: the refresh is cancelled, reference and
\* snapshot go.
AcceptWithheld(over) ==
  /\ ref' = None /\ tasks' = {}
  /\ slot' = [availability |-> "not_available_by_policy", snapshot |-> None]
  /\ told' = IF over > told THEN over ELSE told

\* #acceptControl: one frame; resume_complete refreshes the projections.
AcceptFrame ==
  /\ wire # <<>>
  /\ LET frame == Head(wire) IN
       \/ frame.type = "projection" /\ AcceptPointer(frame.pointer)
       \/ frame.type = "degraded" /\ AcceptWithheld(frame.era)
       \/ frame.type = "resume_complete" /\ StartTask(Latest(None)) /\ UNCHANGED <<ref, told>>
  /\ wire' = Tail(wire)
  /\ UNCHANGED <<promoVars, serverVars, listenVars, faultVars, socket>>

\* The read routes: requireRoomAccess, the query and finishRead, which reads
\* the promotion again before the value leaves the server.  The patch route
\* answers resync when the head left the epoch asked for.  An outage stands
\* for every failure of the request.
ReadRoute(t) ==
  /\ t \in tasks /\ t.state = "asked"
  /\ tasks' = (tasks \ {t}) \cup
       {[t EXCEPT !.state = CASE ~dbUp -> "error"
                              [] dbUp /\ ~Allowed(promo) -> "policy"
                              [] dbUp /\ Allowed(promo) /\ t.route = "patches"
                                   /\ (head.epoch # t.target.epoch \/ t.after > head.version) -> "resync"
                              [] OTHER -> "content",
                  !.answer = [epoch |-> head.epoch, version |-> head.version, era |-> era]]}
  /\ UNCHANGED <<promoVars, serverVars, listenVars, faultVars, socket, wire, ref, slot, told>>

\* Every failure of the patch route but a refusal falls back to latest.
Fallback(t) ==
  /\ t \in tasks /\ t.route = "patches"
  /\ \/ t.state \in {"error", "resync"}
     \/ t.state = "content" /\ t.answer.version # t.target.version
  /\ tasks' = (tasks \ {t}) \cup {Latest(t.target)}
  /\ UNCHANGED <<promoVars, serverVars, listenVars, faultVars, socket, wire, ref, slot, told>>

Behind(t) ==
  /\ t.target # None
  /\ t.answer.epoch = t.target.epoch /\ t.answer.version < t.target.version

\* The task ends: replaceSnapshot or applyEchoPatches, or one of the marks.
EndTask(t) ==
  /\ t \in tasks
  /\ \/ /\ t.state = "content" /\ (t.route = "patches" => t.answer.version = t.target.version)
        /\ IF t.route = "latest" /\ Behind(t)
           THEN slot' = [slot EXCEPT !.availability = "failed"] /\ ref' = ref
           ELSE /\ slot' = [availability |-> "ready", snapshot |-> t.answer]
                /\ ref' = [epoch |-> t.answer.epoch, version |-> t.answer.version]
     \/ /\ t.state = "policy" /\ ref' = None
        /\ slot' = [availability |-> "not_available_by_policy", snapshot |-> None]
     \/ /\ t.route = "latest" /\ t.state = "error" /\ ref' = ref
        /\ slot' = [slot EXCEPT !.availability = "failed"]
  /\ tasks' = tasks \ {t}
  /\ UNCHANGED <<promoVars, serverVars, listenVars, faultVars, socket, wire, told>>

------------------------------------------------------------------------------
Settling ==
  \/ OutageEnds \/ ListenerConnect \/ Listen \/ Reconcile \/ Apply
  \/ \E over \in announces : Announce(over)
  \/ \E ptr \in pointers : PublishPointer(ptr)
  \/ SocketConnects \/ ResumeEnds \/ AcceptFrame
  \/ \E t \in tasks : ReadRoute(t) \/ Fallback(t) \/ EndTask(t)

Disturbing ==
  \/ \E state \in Grants : Grant(state)
  \/ Revoke \/ Expire \/ Begin \/ Project
  \/ ConnectionDrops \/ OutageStarts \/ SocketDrops

VisibilityNext == Settling \/ Disturbing

VisibilitySpec == VisibilityInit /\ [][VisibilityNext]_visibilityVars

------------------------------------------------------------------------------
(* Every variable has its type; versions of an epoch start at one. *)
VisibilityTypeOK ==
  /\ promo \in Promotions
  /\ era \in 1..MaxRevision /\ withdrawn \in 0..era /\ told \in 0..era
  /\ head \in Pointer /\ installs \in 0..MaxInstalls
  /\ pointers \subseteq Pointer
  /\ listener \in {"down", "connected", "reconciling", "on", "stopped"}
  /\ seen \in 0..promo.revision
  /\ notices \in Seq(Notices)
  /\ announces \subseteq 0..MaxRevision
  /\ wire \in Seq(Frame)
  /\ ref \in Pointer \cup {None}
  /\ slot \in Slots
  /\ tasks \subseteq Tasks

(* Once the browser has handled a withheld notice, nothing that was read     *)
(* under the visibility the notice ended is on the screen again: the refresh *)
(* under way is aborted with the snapshot (hydrated-session-state.ts,        *)
(* degraded), and a later read is authorised anew.                           *)
WithheldNotShown ==
  slot.snapshot # None => slot.snapshot.era > told

Older(a, b) == a.epoch < b.epoch \/ (a.epoch = b.epoch /\ a.version < b.version)

(* What the panel shows never goes back to an earlier version or epoch,      *)
(* whatever the order of pointers, refreshes and answers: a newer task       *)
(* aborts the older one and pointers only start reads (#projectionTask,      *)
(* ProjectionSync.accept).                                                   *)
PanelNeverRegresses ==
  [][slot.snapshot # None /\ slot'.snapshot # None
       => ~Older(slot'.snapshot, slot.snapshot)]_visibilityVars

(* The panel says ready and does not show the head.                          *)
PanelBehind ==
  /\ slot.availability = "ready"
  /\ slot.snapshot.epoch # head.epoch \/ slot.snapshot.version # head.version

(* The panel shows what was read before the promotion was revoked, and none  *)
(* of the following holds: the projection was promoted again, the refresh    *)
(* failed, the listener met a database error it does not retry               *)
(* (StudentAnalyticsPolicyListener).                                         *)
RevokedOnScreen ==
  /\ slot.snapshot # None /\ slot.snapshot.era <= withdrawn
  /\ slot.availability # "failed" /\ ~missed /\ listener # "stopped" /\ ~Allowed(promo)

(* After a dropped connection the listener listens again                     *)
(* (StudentAnalyticsPolicyListener.start).                                   *)
\* The code does not keep this: see the observations in README.md.
DroppedListenerReturns == listener = "down" ~> listener = "on"

(* A browser is told its analytics are not promoted only if at some time     *)
(* they were not: the notice stands for a stable decision, and a failed      *)
(* policy read has a code of its own (room-hub.ts,                           *)
(* broadcastProjectionAuthorized).                                           *)
\* The code does not keep this: see the observations in README.md.
WithheldMeansWithheld ==
  slot.availability = "not_available_by_policy" => era > 1 \/ ~Allowed(promo)

\* What was withdrawn stays off the panel.
VisibilitySafe == VisibilityTypeOK /\ WithheldNotShown
==============================================================================

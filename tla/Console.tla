------------------------------ MODULE Console ------------------------------
(***************************************************************************)
(* The teacher's review console: the panel on which a teacher reads the    *)
(* queue of unreviewed derived texts and records one review or correction  *)
(* at a time against the projection the page shows, and the server that    *)
(* accepts at most one such fact per projection.                           *)
(*                                                                         *)
(* The panel (teacher-control-panel.tsx) holds an authority (the epoch and *)
(* version of the shown ECHO projection), the queue loaded for it, one     *)
(* action in flight, and the merge it may offer to undo.  Four kinds of    *)
(* request overlap: the reload of the queue, its next page, the action and *)
(* the lookup of the newest correction.  Each is a message that is         *)
(* answered and received later, may fail, and is dropped when aborted.     *)
(* A second tab of the same teacher writes facts too.                      *)
(*                                                                         *)
(* One pair of concepts stands for all the pairs a merge may name, an      *)
(* authority is its version, and an artifact is its rank in the queue's    *)
(* order (created_at, artifact_id).                                        *)
(***************************************************************************)
EXTENDS Naturals, SequencesExt

CONSTANTS MaxVersion,    \* bound: projection versions the worker publishes
          MaxArtifacts,  \* derived texts of the room
          PageSize,      \* the queue's page limit
          MaxLosses,     \* bound: requests that fail
          MaxEchoes      \* bound: refetches of a projection already shown

ASSUME ConsoleBounds == /\ MaxVersion \in Nat \ {0} /\ MaxArtifacts \in Nat
                        /\ PageSize \in Nat \ {0} /\ MaxLosses \in Nat
                        /\ MaxEchoes \in Nat

VARIABLES
  board,       \* the teacher's projection: version, folded, texts reviewed
  behind,     \* events the head has not consumed (or a replay is required)
  facts,      \* accepted reviews and corrections, in ledger order
  closed,     \* the room's status is closed, as the page knows it
  echo,       \* the projection the page shows: version (0: none) and folded
  prepared,   \* the authority the queue was loaded for (0: none)
  reserved,   \* the authority a fact was accepted under (0: none)
  queue,      \* artifacts listed on the page
  next,       \* the cursor of the next page (0: none)
  loading,    \* artifactLoading
  picked,     \* the authority whose nodes and edges the selectors were set on
  undo,       \* mergeUndoCandidate: a position in facts (0: none)
  latest,     \* the newest correction the page was told of (0: none)
  pending,    \* commandPending
  calls,      \* the four request slots
  losses, refetches

server == <<board, behind, facts>>
form   == <<queue, next, loading, picked>>
consoleVars == <<server, closed, echo, prepared, reserved, form, undo, latest,
                 pending, calls, losses, refetches>>

Artifacts == 1..MaxArtifacts
\* A review settles its text (approve, reject, revoke); a remark (review_pass, _concerns,
\* _fail) leaves its review_status as it is; the others are corrections.
Kinds == {"review", "remark", "text", "graph", "merge", "undo"}
Idle == [state |-> "idle"]

-----------------------------------------------------------------------------
(* The server. *)

(* What listArtifacts returns after a cursor: the next unreviewed texts in
   order, and the last of them as cursor when there are more. *)
ArtifactPage(after) ==
  LET left  == {a \in Artifacts \ board.reviewed : a > after}
      more  == Cardinality(left) > PageSize
      items == [i \in 1..(IF more THEN PageSize ELSE Cardinality(left)) |->
                  CHOOSE a \in left : Cardinality({b \in left : b < a}) = i - 1]
  IN  [items |-> items, next |-> IF more THEN items[PageSize] ELSE 0]

(* A cursor that is no longer an unreviewed active text is refused. *)
CursorStands(after) == after = 0 \/ after \notin board.reviewed

IsCorrection(i) == facts[i].kind \notin {"review", "remark"}
LatestCorrection(n) ==
  LET some == {i \in 1..n : IsCorrection(i)}
  IN  IF some = {} THEN 0 ELSE Max(some)

(* The merge named by an undo must be an undone-by-nobody merge with no
   correction after it, and in effect in the head. *)
UndoStands(m) ==
  /\ m \in DOMAIN facts
  /\ facts[m].kind = "merge"
  /\ ~ \E i \in DOMAIN facts : facts[i].kind = "undo" /\ facts[i].merge = m
  /\ m = LatestCorrection(Len(facts))
  /\ board.folded

(* The target checks, against the locked snapshot. *)
TargetStands(command) ==
  CASE command.kind = "undo"  -> UndoStands(command.merge)
    [] command.kind = "merge" -> ~board.folded
    [] OTHER -> TRUE

(* The optimistic check: the head is the one the command names, it is
   complete, and it awaits no replay. *)
Authorized(command) ==
  /\ command.key = board.version
  /\ ~behind

(* What is told of a stored fact: which correction it is. *)
ReviewDetail(i) == facts[i].kind

Repeated(command) == {i \in DOMAIN facts : facts[i] = command}

(* review(): an identical earlier command answers for this one; else the
   command is checked and appended, and a replay is owed. *)
Review(command) ==
  IF Repeated(command) # {}
  THEN /\ calls' = [calls EXCEPT !.act.state = "accepted",
                                 !.act.fact = Max(Repeated(command))]
       /\ UNCHANGED server
  ELSE IF Authorized(command) /\ TargetStands(command)
  THEN /\ facts' = Append(facts, command)
       /\ behind' = TRUE
       /\ calls' = [calls EXCEPT !.act.state = "accepted", !.act.fact = Len(facts')]
       /\ UNCHANGED board
  ELSE /\ calls' = [calls EXCEPT !.act.state = "refused"]
       /\ UNCHANGED server

(* The request of the action reaches the server. *)
ServeAction ==
  /\ calls.act.state = "sent"
  /\ Review(calls.act.command)
  /\ UNCHANGED <<closed, echo, prepared, reserved, form, undo, latest, pending,
                 losses, refetches>>

ServeLoad ==
  /\ calls.load.state = "sent"
  /\ calls' = [calls EXCEPT !.load = [state |-> "accepted", page |-> ArtifactPage(0)]]
  /\ UNCHANGED <<server, closed, echo, prepared, reserved, form, undo, latest,
                 pending, losses, refetches>>

ServeMore ==
  /\ calls.more.state = "sent"
  /\ calls' = [calls EXCEPT !.more =
       IF CursorStands(calls.more.after)
       THEN [state |-> "accepted", page |-> ArtifactPage(calls.more.after)]
       ELSE [state |-> "refused"]]
  /\ UNCHANGED <<server, closed, echo, prepared, reserved, form, undo, latest,
                 pending, losses, refetches>>

(* A request, or its answer, is lost: the page gets an error. *)
Lose(slot) ==
  /\ losses < MaxLosses
  /\ calls[slot].state \in {"sent", "accepted"}
  /\ losses' = losses + 1
  /\ calls' = [calls EXCEPT ![slot].state = "refused"]
  /\ UNCHANGED <<server, closed, echo, prepared, reserved, form, undo, latest,
                 pending, refetches>>

(* The worker consumes or replays everything the room holds and publishes the
   next version: settled and corrected texts leave the queue, and the last
   merge or undo decides whether the alias is folded. *)
Publish ==
  /\ behind /\ board.version < MaxVersion
  /\ behind' = FALSE
  /\ LET moves == {i \in DOMAIN facts : facts[i].kind \in {"merge", "undo"}}
         settled == {i \in DOMAIN facts : facts[i].kind \in {"review", "text"}}
     IN  board' = [version  |-> board.version + 1,
                  folded   |-> moves # {} /\ facts[Max(moves)].kind = "merge",
                  reviewed |-> {facts[i].art : i \in settled} \ {0}]
  /\ UNCHANGED <<facts, closed, echo, prepared, reserved, form, undo, latest,
                 pending, calls, losses, refetches>>

(* The second tab records a correction of its own against the current head. *)
OtherTab ==
  LET command == [kind |-> "graph", art |-> 0, key |-> board.version,
                  by |-> "other", merge |-> 0]
  IN  /\ board.version < MaxVersion
      /\ Authorized(command)
      /\ facts' = Append(facts, command)
      /\ behind' = TRUE
      /\ UNCHANGED <<board, closed, echo, prepared, reserved, form, undo, latest,
                     pending, calls, losses, refetches>>

-----------------------------------------------------------------------------
(* The panel. *)

Shown == echo.version > 0
Prepared == Shown /\ prepared = echo.version
Reserved == reserved = echo.version

(* mergeIsEffective: the shown nodes hold the canonical and not the alias. *)
MergeIsEffective == undo # 0 /\ echo.folded

(* The effect on the authority aborts a next page in flight; a refetch of the
   same authority does not. *)
PageAfterEcho == IF echo.version \in {0, board.version} THEN calls.more ELSE Idle

(* A projection snapshot reaches the panel: the queue is emptied and asked for
   anew (the earlier reload is aborted); a new authority also frees the
   reservation and aborts a next page in flight. *)
EchoArrives ==
  /\ \/ echo.version < board.version /\ UNCHANGED refetches
     \/ /\ Shown /\ echo.version = board.version /\ refetches < MaxEchoes
        /\ refetches' = refetches + 1
  /\ echo' = [version |-> board.version, folded |-> board.folded]
  /\ prepared' = 0
  /\ queue' = <<>>
  /\ next' = 0
  /\ loading' = TRUE
  /\ reserved' = IF echo.version = board.version \/ reserved = board.version
                 THEN reserved ELSE 0
  /\ calls' = [calls EXCEPT !.load = [state |-> "sent"],
                            !.more = PageAfterEcho]
  /\ UNCHANGED <<server, closed, picked, undo, latest, pending, losses>>

(* The queue's first page arrives: the form is reset to the new authority. *)
ReceiveLoad ==
  /\ calls.load.state \in {"accepted", "refused"}
  /\ loading' = FALSE
  /\ IF calls.load.state = "accepted"
     THEN /\ queue' = calls.load.page.items
          /\ next' = calls.load.page.next
          /\ picked' = echo.version
          /\ prepared' = echo.version
     ELSE UNCHANGED <<queue, next, picked, prepared>>
  /\ calls' = [calls EXCEPT !.load = Idle]
  /\ UNCHANGED <<server, closed, echo, reserved, undo, latest, pending, losses,
                 refetches>>

(* loadMoreArtifacts: an earlier page request is aborted and replaced. *)
LoadMore ==
  /\ Prepared /\ next # 0 /\ ~loading
  /\ loading' = TRUE
  /\ calls' = [calls EXCEPT !.more = [state |-> "sent", after |-> next]]
  /\ UNCHANGED <<server, closed, echo, prepared, reserved, queue, next, picked,
                 undo, latest, pending, losses, refetches>>

ReceiveMore ==
  /\ calls.more.state \in {"accepted", "refused"}
  /\ IF calls.more.state = "accepted"
     THEN /\ queue' = queue \o calls.more.page.items
          /\ next' = calls.more.page.next
     ELSE UNCHANGED <<queue, next>>
  /\ loading' = FALSE
  /\ calls' = [calls EXCEPT !.more = Idle]
  /\ UNCHANGED <<server, closed, echo, prepared, reserved, picked, undo, latest,
                 pending, losses, refetches>>

(* The teacher sets the selectors on what is shown. *)
PickText ==
  /\ Shown /\ picked # echo.version
  /\ picked' = echo.version
  /\ UNCHANGED <<server, closed, echo, prepared, reserved, queue, next, loading,
                 undo, latest, pending, calls, losses, refetches>>

(* A faulty variant: the panel does not wait for the queue of the new authority. *)
FormOpenUnprepared == ~closed /\ ~pending /\ Shown /\ ~Reserved

(* The fieldsets' and the handlers' common guard. *)
FormOpen == ~closed /\ ~pending /\ Prepared /\ ~Reserved

(* correctionCanSubmit and the review's own guard, for one kind and target. *)
CanSubmit(kind, art) ==
  CASE kind \in {"review", "remark", "text"} -> art \in ToSet(queue)
    [] kind = "graph" -> art = 0
    [] kind = "merge" -> art = 0 /\ ~echo.folded
    [] kind = "undo"  -> art = 0 /\ MergeIsEffective

(* The command built from the form: it carries the shown authority. *)
Command(kind, art) ==
  [kind |-> kind, art |-> art, key |-> echo.version, by |-> "page",
   merge |-> IF kind = "undo" THEN undo ELSE 0]

(* submitReview and submitCorrection. *)
Submit(kind, art) ==
  /\ FormOpen /\ CanSubmit(kind, art) /\ echo.version < MaxVersion
  /\ pending' = TRUE
  /\ calls' = [calls EXCEPT !.act =
       [state |-> "sent", fact |-> 0, picked |-> picked,
        command |-> Command(kind, art)]]
  /\ UNCHANGED <<server, closed, echo, prepared, reserved, form, undo, latest,
                 losses, refetches>>

(* The candidate after an accepted correction. *)
UndoAfter(act) ==
  CASE act.command.kind = "merge" -> act.fact
    [] act.command.kind = "undo"  -> 0
    [] OTHER -> undo

(* finishAction, on every way out of the handler. *)
PendingAfter == FALSE

(* The answer to the action.  The authority that is reserved, and the merge
   that becomes undoable, are those the command was built from. *)
ReceiveAction ==
  /\ calls.act.state \in {"accepted", "refused"}
  /\ pending' = PendingAfter
  /\ IF calls.act.state = "accepted"
     THEN /\ reserved' = calls.act.command.key
          /\ undo' = UndoAfter(calls.act)
     ELSE UNCHANGED <<reserved, undo>>
  /\ calls' = [calls EXCEPT !.act = Idle]
  /\ UNCHANGED <<server, closed, echo, prepared, form, latest, losses, refetches>>

(* The ledger tells the page of the corrections accepted so far: the candidate
   is dropped and the newest correction looked up (an earlier lookup is
   aborted). *)
CorrectionNoticed ==
  /\ \E i \in DOMAIN facts :
       /\ i > latest /\ IsCorrection(i)
       /\ \A j \in (latest + 1)..(i - 1) : ~IsCorrection(j)
       /\ latest' = i
       /\ calls' = [calls EXCEPT !.look = [state |-> "sent", fact |-> i]]
  /\ undo' = 0
  /\ UNCHANGED <<server, closed, echo, prepared, reserved, form, pending, losses,
                 refetches>>

(* The detail of that correction arrives (a fact never changes, so when it is
   read does not matter), or the lookup fails and nothing is offered. *)
ReceiveLookup ==
  /\ calls.look.state \in {"sent", "refused"}
  /\ undo' = IF calls.look.state = "refused" THEN undo
             ELSE IF ReviewDetail(calls.look.fact) = "merge" THEN calls.look.fact
             ELSE 0
  /\ calls' = [calls EXCEPT !.look = Idle]
  /\ UNCHANGED <<server, closed, echo, prepared, reserved, form, latest, pending,
                 losses, refetches>>

(* The room closes; the page learns of it. *)
CloseRoom ==
  /\ ~closed
  /\ closed' = TRUE
  /\ UNCHANGED <<server, echo, prepared, reserved, form, undo, latest, pending,
                 calls, losses, refetches>>

-----------------------------------------------------------------------------
(* The page opens on a room that may hold a merge made, and projected, before. *)
ConsoleInit ==
  /\ \E merged \in BOOLEAN :
       /\ board = [version |-> 1, folded |-> merged, reviewed |-> {}]
       /\ facts = IF ~merged THEN <<>>
                  ELSE <<[kind |-> "merge", art |-> 0, key |-> 0, by |-> "other",
                          merge |-> 0]>>
  /\ behind = FALSE /\ closed = FALSE
  /\ echo = [version |-> 0, folded |-> FALSE]
  /\ prepared = 0 /\ reserved = 0
  /\ queue = <<>> /\ next = 0 /\ loading = FALSE /\ picked = 0
  /\ undo = 0 /\ latest = 0 /\ pending = FALSE
  /\ calls = [load |-> Idle, more |-> Idle, act |-> Idle, look |-> Idle]
  /\ losses = 0 /\ refetches = 0

ConsoleNext ==
  \/ ServeAction \/ ServeLoad \/ ServeMore
  \/ \E slot \in DOMAIN calls : Lose(slot)
  \/ Publish \/ OtherTab
  \/ EchoArrives \/ ReceiveLoad \/ LoadMore \/ ReceiveMore \/ PickText
  \/ \E kind \in Kinds, art \in Artifacts \cup {0} : Submit(kind, art)
  \/ ReceiveAction \/ CorrectionNoticed \/ ReceiveLookup
  \/ CloseRoom

ConsoleSpec == ConsoleInit /\ [][ConsoleNext]_consoleVars

-----------------------------------------------------------------------------
(* Properties. *)

(* A fact on its way to the server names what the teacher was looking at: its
   selectors were set, and its text listed, under the authority it carries,
   whatever projections, pages and answers arrived in between
   (submitReview, submitCorrection, the reload effect). *)
TargetsAsShown ==
  calls.act # Idle =>
    /\ calls.act.picked = calls.act.command.key
    /\ board.version = calls.act.command.key =>
         calls.act.command.art \notin board.reviewed

(* While the shown projection is the newest, the queue never lists a text twice
   or out of order, whichever of a reload, a next page and a refetch of the
   same projection is answered first (loadMoreArtifacts, listArtifacts).  Once
   a newer one is published it may, until the page is told: a next page does
   not belong to the reload whose list it extends. *)
QueueInOrder ==
  Prepared /\ echo.version = board.version =>
    \A i, j \in DOMAIN queue : i < j => queue[i] < queue[j]

(* An action is pending, or the authority on the page is one whose fact was
   accepted (finishAction, the reservation). *)
ConsoleBusy == pending \/ (Shown /\ Reserved)

(* What the panel says of its undo: it is offered only while the server would
   accept it - the merge is the newest correction the page knows of. *)
\* The code does not keep this: see the observations in README.md.
UndoOfferedIsNewest ==
  MergeIsEffective /\ calls.look = Idle => undo = latest \/ undo > latest

\* The console acts on what it shows (submitReview, loadMoreArtifacts).
ConsoleSafe == TargetsAsShown /\ QueueInOrder
=============================================================================

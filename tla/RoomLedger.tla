------------------------------ MODULE RoomLedger ------------------------------
(***************************************************************************)
(* One classroom room: its row in classroom_room and its event ledger       *)
(* room_event, written by students (messages), by the teacher (lifecycle,   *)
(* retractions, reviews), by the Agent and by the automatic close.          *)
(*                                                                         *)
(* RoomEventRepository.transact holds the room's advisory lock and the row  *)
(* lock, so one transaction is one action; the outbox row and the           *)
(* analytics.consume job of an event are inserted with it and stand or fall *)
(* with it.  pause, resume and close are THREE transactions each, between   *)
(* which anything may happen.  A request that the code answers without      *)
(* writing (a retry, a refusal) leaves the state as it is.                  *)
(***************************************************************************)
EXTENDS Naturals, Sequences, FiniteSets

CONSTANTS
    LifecycleCommands,  \* command ids the teacher's client draws for open,
                        \* pause, resume and close
    MessageCommands,    \* command ids of message commands and reviews
    Students,           \* student actors of the room
    Teacher,            \* the owning teacher
    Runs,               \* Agent runs (job id, run id and message id of its answer)
    AutoJob,            \* the room's room.auto-close.v1 job, causation of its close
    MaxCalls            \* bound: lifecycle commands under way at a time

Commands == LifecycleCommands \cup MessageCommands

NoMessage == "none"

ASSUME ActorsAssumption == Teacher \notin Students
ASSUME CausesAssumption ==
    /\ Commands \cap Runs = {}
    /\ AutoJob \notin Commands \cup Runs
    /\ NoMessage \notin Commands \cup Runs

VARIABLES
    room,       \* classroom_room.status
    due,        \* the server's clock has reached closes_at
    erasing,   \* an active deletion_job exists
    log,        \* the events, in room_seq order: next_room_seq = Len(log) + 1
    sessions,   \* actors with a valid session
    calls       \* lifecycle commands between two of their transactions

roomVars == <<room, due, erasing, log, sessions, calls>>

Nova == "nova"
Clock == "clock"
Actors == Students \cup {Teacher}
Messages == Commands \cup Runs

RoomStatus == {"scheduled", "open", "paused", "closed"}
LifecycleTypes == {"opened", "paused", "resumed", "closed"}
MessageTypes == {"added", "revised", "retracted"}

Events == [cause : Commands \cup Runs \cup {AutoJob},
           type  : LifecycleTypes \cup MessageTypes \cup {"reviewed"},
           actor : Actors \cup {Nova, Clock},
           msg   : Messages \cup {NoMessage},
           base  : Nat,     \* baseRevision the author saw
           rev   : Nat]

Calls == [cmd : Commands, type : {"paused", "resumed", "closed"},
          at : {"due", "write"}]

RoomTypeOK ==
    /\ room \in RoomStatus
    /\ due \in BOOLEAN
    /\ erasing \in BOOLEAN
    /\ log \in Seq(Events)
    /\ sessions \subseteq Actors
    /\ calls \subseteq Calls

RoomInit ==
    /\ room = "scheduled"
    /\ due = FALSE
    /\ erasing = FALSE
    /\ log = <<>>
    /\ sessions = {Teacher}
    /\ calls = {}

-----------------------------------------------------------------------------
(* The ledger.                                                             *)

\* findByCausation
Find(c) == {i \in 1 .. Len(log) : log[i].cause = c}

Lifecycle(c, t, a) ==
    [cause |-> c, type |-> t, actor |-> a, msg |-> NoMessage, base |-> 0, rev |-> 1]

Message(c, t, a, m, base) ==
    [cause |-> c, type |-> t, actor |-> a, msg |-> m, base |-> base, rev |-> base + 1]

\* A faulty Transact: it does not look for an event of the same command.
TransactAgain(e) ==
    /\ ~erasing
    /\ log' = Append(log, e)

\* A faulty Transact: it does not check for an active deletion.
TransactWhileDeleting(e) ==
    /\ Find(e.cause) = {}
    /\ log' = Append(log, e)

\* transact with one append: no deletion is under way and the causation id is new.
Transact(e) ==
    /\ ~erasing
    /\ Find(e.cause) = {}
    /\ log' = Append(log, e)

\* The event #latestMessage selects (ORDER BY revision DESC, room_seq DESC).
IsLatest(m, i) ==
    /\ i \in 1 .. Len(log)
    /\ log[i].msg = m
    /\ \A k \in 1 .. Len(log) : log[k].msg = m =>
          log[k].rev < log[i].rev \/ (log[k].rev = log[i].rev /\ k <= i)

\* #assertWritable
Writable == room = "open" /\ ~due

-----------------------------------------------------------------------------
(* Messages.                                                               *)

Add(c, a) ==
    /\ a \in Students \cap sessions
    /\ Writable
    /\ Transact(Message(c, "added", a, c, 0))
    /\ UNCHANGED <<room, due, erasing, sessions, calls>>

\* A faulty Revise: it does not compare baseRevision with the latest revision.
ReviseStale(c, a, m, base) ==
    /\ a \in Students \cap sessions
    /\ Writable
    /\ \E i \in 1 .. Len(log) :
          /\ IsLatest(m, i)
          /\ log[i].type # "retracted"
          /\ log[i].actor = a
    /\ Transact(Message(c, "revised", a, m, base))
    /\ UNCHANGED <<room, due, erasing, sessions, calls>>

Revise(c, a, m, base) ==
    /\ a \in Students \cap sessions
    /\ Writable
    /\ \E i \in 1 .. Len(log) :
          /\ IsLatest(m, i)
          /\ log[i].type # "retracted"
          /\ log[i].actor = a
          /\ log[i].rev = base
    /\ Transact(Message(c, "revised", a, m, base))
    /\ UNCHANGED <<room, due, erasing, sessions, calls>>

\* A student retracts an own message, the teacher anybody's.
Retract(c, a, m, base) ==
    /\ a \in sessions
    /\ Writable
    /\ \E i \in 1 .. Len(log) :
          /\ IsLatest(m, i)
          /\ log[i].type # "retracted"
          /\ a = Teacher \/ log[i].actor = a
          /\ log[i].rev = base
    /\ Transact(Message(c, "retracted", a, m, base))
    /\ UNCHANGED <<room, due, erasing, sessions, calls>>

\* The Agent's answer, committed by the worker's internal request; unlike a
\* student's message it is accepted while the room is paused or overdue.
AgentAnswer(g) ==
    /\ room \in {"open", "paused"}
    /\ Transact(Message(g, "added", Nova, g, 0))
    /\ UNCHANGED <<room, due, erasing, sessions, calls>>

\* A teacher's analytics review or correction, in any state of the room.
Review(c) ==
    /\ Teacher \in sessions
    /\ Transact(Lifecycle(c, "reviewed", Teacher))
    /\ UNCHANGED <<room, due, erasing, sessions, calls>>

-----------------------------------------------------------------------------
(* Lifecycle.                                                              *)

Open(c) ==
    /\ Teacher \in sessions
    /\ room = "scheduled"
    /\ Transact(Lifecycle(c, "opened", Teacher))
    /\ room' = "open"
    /\ UNCHANGED <<due, erasing, sessions, calls>>

\* The server's clock reaches closes_at.
FallDue ==
    /\ room \in {"open", "paused"}
    /\ ~due
    /\ due' = TRUE
    /\ UNCHANGED <<room, erasing, log, sessions, calls>>

\* appendAutomaticClose, from the internal route, from getRoom or from a
\* lifecycle command that finds the room overdue.
AppendAutomaticClose ==
    /\ room \in {"open", "paused"}
    /\ due
    /\ Transact(Lifecycle(AutoJob, "closed", Clock))
    /\ room' = "closed"
    /\ UNCHANGED <<due, erasing, sessions>>

AutoClose == AppendAutomaticClose /\ UNCHANGED calls

\* First transaction of pause, resume and close: #ownerRetry finds no event.
StartCall(c, t) ==
    /\ Cardinality(calls) < MaxCalls
    /\ Teacher \in sessions
    /\ ~erasing
    /\ Find(c) = {}
    /\ calls' = calls \cup {[cmd |-> c, type |-> t, at |-> "due"]}
    /\ UNCHANGED <<room, due, erasing, log, sessions>>

\* Second: closeIfDueForOwner.  An overdue room whose close job is intact is
\* closed and the command fails; otherwise the command goes on.
CheckDue(k, intact) ==
    /\ k \in calls
    /\ k.at = "due"
    /\ Teacher \in sessions
    /\ ~erasing
    /\ IF room \in {"open", "paused"} /\ due /\ intact
         THEN /\ AppendAutomaticClose
              /\ calls' = calls \ {k}
         ELSE /\ calls' = (calls \ {k}) \cup {[k EXCEPT !.at = "write"]}
              /\ UNCHANGED <<room, due, erasing, log, sessions>>

\* A faulty Requires: it lets a paused room be paused again.
RequiresLoosely(t) == CASE t = "paused" -> {"open", "paused"}
                        [] t = "resumed" -> {"paused"}
                        [] t = "closed" -> {"open", "paused"}

\* The status a transition requires ...
Requires(t) == CASE t = "paused" -> {"open"}
                 [] t = "resumed" -> {"paused"}
                 [] t = "closed" -> {"open", "paused"}

\* ... and the one it leads to.
LeadsTo(t) == IF t \in {"opened", "resumed"} THEN "open" ELSE t

\* Third: the transition itself, under its own retry and status checks.
Transition(k) ==
    /\ k \in calls
    /\ k.at = "write"
    /\ Teacher \in sessions
    /\ room \in Requires(k.type)
    /\ Transact(Lifecycle(k.cmd, k.type, Teacher))
    /\ room' = LeadsTo(k.type)
    /\ calls' = calls \ {k}
    /\ UNCHANGED <<due, erasing, sessions>>

\* The call ends without writing: the session is gone, the room is being
\* deleted, the command was already applied, the status does not allow it, or
\* the connection is lost.
EndCall(k) ==
    /\ k \in calls
    /\ calls' = calls \ {k}
    /\ UNCHANGED <<room, due, erasing, log, sessions>>

-----------------------------------------------------------------------------
(* Sessions and deletion.                                                  *)

\* joinRoom (students) and the teacher's sign-in.
SignIn(a) ==
    /\ a = Teacher \/ room \in {"scheduled", "open"}
    /\ a \notin sessions
    /\ sessions' = sessions \cup {a}
    /\ UNCHANGED <<room, due, erasing, log, calls>>

\* The session is revoked or expires.
SessionEnds(a) ==
    /\ a \in sessions
    /\ sessions' = sessions \ {a}
    /\ UNCHANGED <<room, due, erasing, log, calls>>

\* requestDeletion: the row is closed without an event and the students'
\* sessions are revoked.
RequestDeletion ==
    /\ ~erasing
    /\ Teacher \in sessions
    /\ erasing' = TRUE
    /\ room' = "closed"
    /\ sessions' = sessions \ Students
    /\ UNCHANGED <<due, log, calls>>

-----------------------------------------------------------------------------

LifecycleCommand(c) ==
    Open(c) \/ \E t \in {"paused", "resumed", "closed"} : StartCall(c, t)

MessageCommand(c) ==
    \/ Review(c)
    \/ \E a \in Students : Add(c, a)
    \/ \E m \in Messages, base \in 1 .. Len(log) :
          \/ \E a \in Students : Revise(c, a, m, base)
          \/ \E a \in Actors : Retract(c, a, m, base)

CallStep(k) ==
    Transition(k) \/ EndCall(k) \/ \E intact \in BOOLEAN : CheckDue(k, intact)

RoomNext ==
    \/ \E c \in LifecycleCommands : LifecycleCommand(c)
    \/ \E c \in MessageCommands : MessageCommand(c)
    \/ \E k \in calls : CallStep(k)
    \/ \E g \in Runs : AgentAnswer(g)
    \/ \E a \in Actors : SignIn(a) \/ SessionEnds(a)
    \/ FallDue \/ AutoClose \/ RequestDeletion

RoomSpec == RoomInit /\ [][RoomNext]_roomVars

-----------------------------------------------------------------------------
(* Properties.                                                             *)

\* A command takes effect at most once, however often and over however many
\* connections it is delivered, and the room closes automatically at most once.
CausedOnce ==
    \A i, k \in 1 .. Len(log) : log[i].cause = log[k].cause => i = k

\* PhaseAt(l, n, s): replaying the lifecycle events among the first n of l
\* gives status s.
PhaseAt(l, n, s) ==
    \/ /\ s = "scheduled"
       /\ \A i \in 1 .. n : l[i].type \notin LifecycleTypes
    \/ \E i \in 1 .. n :
          /\ l[i].type \in LifecycleTypes
          /\ s = LeadsTo(l[i].type)
          /\ \A k \in i + 1 .. n : l[k].type \notin LifecycleTypes

\* What may be appended in each phase; Nova alone speaks in a paused room.
Legal(s, e) ==
    \/ e.type = "reviewed"
    \/ s = "scheduled" /\ e.type = "opened"
    \/ s = "open" /\ e.type \in {"paused", "closed"} \cup MessageTypes
    \/ s = "paused" /\ (e.type \in {"resumed", "closed"}
                        \/ (e.type = "added" /\ e.actor = Nova))

\* The ledger alone tells a reader the room's life: it is a legal history from
\* scheduled to closed, whichever of the concurrent pause, resume, close,
\* automatic close and message transactions came first ...
LegalHistory ==
    \A i \in 1 .. Len(log) : \E s \in RoomStatus : PhaseAt(log, i - 1, s) /\ Legal(s, log[i])

\* ... and replaying it gives classroom_room.status, unless a deletion has
\* closed the room behind the ledger's back.
StatusFollowsLog == erasing \/ PhaseAt(log, Len(log), room)

\* Each message is one chain: added as revision 1, every later event is exactly
\* one revision above the event before it, which is the one its author based it
\* on (no lost update), and a retraction ends it.
RevisionChain ==
    \A k \in 1 .. Len(log) : log[k].type \in MessageTypes =>
        IF log[k].type = "added"
          THEN \A i \in 1 .. k - 1 : log[i].msg # log[k].msg
          ELSE \E i \in 1 .. k - 1 :
                  /\ log[i].msg = log[k].msg
                  /\ log[i].type # "retracted"
                  /\ log[i].rev = log[k].base /\ log[k].rev = log[k].base + 1
                  /\ \A n \in i + 1 .. k - 1 : log[n].msg # log[k].msg

\* A message is revised only by its author, and retracted only by its author or
\* the teacher.
Authorship ==
    \A i, k \in 1 .. Len(log) :
        log[i].type = "added" /\ log[k].msg = log[i].msg =>
            log[k].actor = log[i].actor \/ (log[k].type = "retracted" /\ log[k].actor = Teacher)

\* Once a deletion has been requested the ledger is frozen: no transaction that
\* was already under way writes to it.
FrozenByDeletion == [][erasing => log' = log]_roomVars

\* The ledger is a legal, properly authored history and the room's row agrees
\* with it, in whatever order the room's transactions commit.
RoomSound == RoomTypeOK /\ LegalHistory /\ StatusFollowsLog /\ Authorship
===============================================================================

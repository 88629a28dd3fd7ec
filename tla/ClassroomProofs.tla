--------------------------- MODULE ClassroomProofs ---------------------------
(***************************************************************************)
(* Proofs about the room ledger and about the composed classroom, for any   *)
(* number of runs, commands, students, workers and attempts: the classroom  *)
(* implements the room of RoomLedger and the queue of JobQueue, and room,   *)
(* runs and queue tell one story.  The invariant of the queue is that of    *)
(* JobQueueProofs, through the instance QP.                                 *)
(***************************************************************************)
EXTENDS Classroom, TLAPS

-----------------------------------------------------------------------------
(* The room ledger.                                                        *)

\* Every event of a message has its message's first event before it, whose
\* causation id is the message id: a fresh causation id names a fresh message.
Rooted ==
    \A k \in 1 .. Len(log) :
        /\ log[k].msg \in Messages => \E i \in 1 .. Len(log) : log[i].cause = log[k].msg
        /\ log[k].type \in MessageTypes => log[k].msg \in Messages

\* Revisions of one message increase with room_seq, so the event with the
\* highest revision is also its last one.
Increasing ==
    \A i, k \in 1 .. Len(log) :
        log[i].msg \in Messages /\ log[k].msg = log[i].msg /\ i < k =>
            log[i].rev < log[k].rev

LInv ==
    /\ RoomTypeOK
    /\ CausedOnce /\ LegalHistory /\ StatusFollowsLog
    /\ Rooted /\ Increasing /\ RevisionChain /\ Authorship

\* What an appended event may be: a review, a lifecycle event that is legal now
\* and moves the room, the first event of a message, or the next event of one.
Admissible(e) ==
    \/ /\ e.type = "reviewed" /\ e.msg = NoMessage
       /\ room' = room
    \/ /\ e.type \in LifecycleTypes /\ e.msg = NoMessage
       /\ Legal(room, e)
       /\ room' = LeadsTo(e.type)
    \/ /\ e.type = "added" /\ e.msg = e.cause /\ e.msg \in Messages
       /\ e.base = 0 /\ e.rev = 1
       /\ Legal(room, e)
       /\ room' = room
    \/ /\ e.type \in {"revised", "retracted"} /\ e.msg \in Messages
       /\ \E i \in 1 .. Len(log) :
             /\ IsLatest(e.msg, i)
             /\ log[i].type # "retracted"
             /\ log[i].rev = e.base /\ e.rev = e.base + 1
             /\ e.actor = log[i].actor \/ (e.type = "retracted" /\ e.actor = Teacher)
       /\ Legal(room, e)
       /\ room' = room

Writes(e) ==
    /\ ~erasing /\ ~erasing'
    /\ Find(e.cause) = {}
    /\ log' = Append(log, e)
    /\ Admissible(e)

\* What appending an event does to the log.
LEMMA Appended ==
  ASSUME log \in Seq(Events), NEW e \in Events, log' = Append(log, e)
  PROVE  /\ log' \in Seq(Events)
         /\ Len(log) \in Nat
         /\ Len(log') = Len(log) + 1
         /\ \A i \in 1 .. Len(log) : log'[i] = log[i]
         /\ log'[Len(log) + 1] = e
  OBVIOUS

\* Every step leaves the ledger alone, or appends one admissible event to it.
LEMMA StepShape ==
  ASSUME RoomTypeOK, [RoomNext]_roomVars
  PROVE  \/ /\ log' = log
            /\ erasing => erasing'
            /\ room' = room \/ erasing'
         \/ \E e \in Events : Writes(e)
<1> DEFINE Quiet == /\ log' = log
                    /\ erasing => erasing'
                    /\ room' = room \/ erasing'
           Wrote == \E e \in Events : Writes(e)
<1> USE DEF RoomTypeOK, Commands, Messages, Actors, LifecycleTypes, MessageTypes
<1>1. ASSUME NEW c \in MessageCommands, NEW a \in Students, Add(c, a) PROVE Wrote
  <2> DEFINE e == Message(c, "added", a, c, 0)
  <2>1. e \in Events
    BY DEF Events, Message
  <2>2. Writes(e)
    BY <1>1, CausesAssumption
    DEF Add, Transact, Writes, Admissible, Message, Legal, Writable
  <2> QED BY <2>1, <2>2
<1>2. ASSUME NEW c \in MessageCommands, NEW a \in Students, NEW m \in Messages,
             NEW base \in 1 .. Len(log), Revise(c, a, m, base)
      PROVE  Wrote
  <2> DEFINE e == Message(c, "revised", a, m, base)
  <2>1. e \in Events
    BY DEF Events, Message
  <2>2. Writes(e)
    BY <1>2 DEF Revise, Transact, Writes, Admissible, Message, Legal, Writable
  <2> QED BY <2>1, <2>2
<1>3. ASSUME NEW c \in MessageCommands, NEW a \in Actors, NEW m \in Messages,
             NEW base \in 1 .. Len(log), Retract(c, a, m, base)
      PROVE  Wrote
  <2> DEFINE e == Message(c, "retracted", a, m, base)
  <2>1. e \in Events
    BY DEF Events, Message
  <2>2. Writes(e)
    BY <1>3 DEF Retract, Transact, Writes, Admissible, Message, Legal, Writable
  <2> QED BY <2>1, <2>2
<1>4. ASSUME NEW c \in MessageCommands, Review(c) PROVE Wrote
  <2> DEFINE e == Lifecycle(c, "reviewed", Teacher)
  <2>1. e \in Events
    BY DEF Events, Lifecycle
  <2>2. Writes(e)
    BY <1>4 DEF Review, Transact, Writes, Admissible, Lifecycle
  <2> QED BY <2>1, <2>2
<1>5. ASSUME NEW g \in Runs, AgentAnswer(g) PROVE Wrote
  <2> DEFINE e == Message(g, "added", Nova, g, 0)
  <2>1. e \in Events
    BY DEF Events, Message
  <2>2. Writes(e)
    BY <1>5 DEF AgentAnswer, Transact, Writes, Admissible, Message, Legal
  <2> QED BY <2>1, <2>2
<1>6. ASSUME NEW c \in LifecycleCommands, Open(c) PROVE Wrote
  <2> DEFINE e == Lifecycle(c, "opened", Teacher)
  <2>1. e \in Events
    BY DEF Events, Lifecycle
  <2>2. Writes(e)
    BY <1>6 DEF Open, Transact, Writes, Admissible, Lifecycle, Legal, LeadsTo
  <2> QED BY <2>1, <2>2
<1>7. ASSUME AppendAutomaticClose PROVE Wrote
  <2> DEFINE e == Lifecycle(AutoJob, "closed", Clock)
  <2>1. e \in Events
    BY DEF Events, Lifecycle
  <2>2. Writes(e)
    BY <1>7 DEF AppendAutomaticClose, Transact, Writes, Admissible, Lifecycle, Legal, LeadsTo
  <2> QED BY <2>1, <2>2
<1>8. ASSUME NEW k \in calls, Transition(k) PROVE Wrote
  <2> DEFINE e == Lifecycle(k.cmd, k.type, Teacher)
  <2>1. k.cmd \in Commands /\ k.type \in {"paused", "resumed", "closed"}
    BY DEF Calls
  <2>2. e \in Events
    BY <2>1 DEF Events, Lifecycle
  <2>3. Legal(room, e)
    BY <1>8, <2>1 DEF Transition, Requires, Lifecycle, Legal
  <2>4. Writes(e)
    BY <1>8, <2>1, <2>3 DEF Transition, Transact, Writes, Admissible, Lifecycle
  <2> QED BY <2>2, <2>4
<1>9. ASSUME NEW k \in calls, NEW intact \in BOOLEAN, CheckDue(k, intact) PROVE Quiet \/ Wrote
  BY <1>7, <1>9 DEF CheckDue
<1>10. ASSUME NEW c \in LifecycleCommands, LifecycleCommand(c) PROVE Quiet \/ Wrote
  BY <1>6, <1>10 DEF LifecycleCommand, StartCall
<1>11. ASSUME NEW c \in MessageCommands, MessageCommand(c) PROVE Quiet \/ Wrote
  BY <1>1, <1>2, <1>3, <1>4, <1>11 DEF MessageCommand
<1>12. ASSUME NEW k \in calls, CallStep(k) PROVE Quiet \/ Wrote
  BY <1>8, <1>9, <1>12 DEF CallStep, EndCall
<1>13. ASSUME NEW a \in Actors, SignIn(a) \/ SessionEnds(a) PROVE Quiet
  BY <1>13 DEF SignIn, SessionEnds
<1>14. CASE FallDue \/ RequestDeletion \/ UNCHANGED roomVars
  BY <1>14 DEF FallDue, RequestDeletion, roomVars
<1> QED
  BY <1>5, <1>7, <1>10, <1>11, <1>12, <1>13, <1>14 DEF RoomNext, AutoClose

\* Steps keep the state well typed.
LEMMA NextRoomType ==
  ASSUME RoomTypeOK, [RoomNext]_roomVars PROVE RoomTypeOK'
<1>1. log' \in Seq(Events)
  <2>1. CASE log' = log
    BY <2>1 DEF RoomTypeOK
  <2>2. ASSUME NEW e \in Events, Writes(e) PROVE log' \in Seq(Events)
    BY <2>2, Appended DEF RoomTypeOK, Writes
  <2> QED BY <2>1, <2>2, StepShape
<1> DEFINE Rest == /\ room' \in RoomStatus /\ due' \in BOOLEAN /\ erasing' \in BOOLEAN
                   /\ sessions' \subseteq Actors /\ calls' \subseteq Calls
<1>2. Rest
  <2> USE DEF RoomTypeOK, RoomStatus
  <2>1. ASSUME NEW c \in LifecycleCommands, LifecycleCommand(c) PROVE Rest
    BY <2>1 DEF LifecycleCommand, Open, StartCall, Calls, Commands
  <2>2. ASSUME NEW c \in MessageCommands, MessageCommand(c) PROVE Rest
    BY <2>2 DEF MessageCommand, Review, Add, Revise, Retract
  <2>3. ASSUME NEW k \in calls, CallStep(k) PROVE Rest
    <3>1. k \in Calls
      OBVIOUS
    <3>2. [k EXCEPT !.at = "write"] \in Calls
      BY <3>1 DEF Calls
    <3>3. CASE Transition(k)
      <4>1. LeadsTo(k.type) \in RoomStatus
        BY <3>1 DEF LeadsTo, Calls
      <4> QED BY <3>3, <4>1 DEF Transition
    <3>4. CASE EndCall(k)
      BY <3>4 DEF EndCall
    <3>5. ASSUME NEW intact \in BOOLEAN, CheckDue(k, intact) PROVE Rest
      BY <3>2, <3>5 DEF CheckDue, AppendAutomaticClose
    <3> QED BY <2>3, <3>3, <3>4, <3>5 DEF CallStep
  <2>4. ASSUME NEW g \in Runs, AgentAnswer(g) PROVE Rest
    BY <2>4 DEF AgentAnswer
  <2>5. ASSUME NEW a \in Actors, SignIn(a) \/ SessionEnds(a) PROVE Rest
    BY <2>5 DEF SignIn, SessionEnds
  <2>6. CASE FallDue \/ AutoClose \/ RequestDeletion
    BY <2>6 DEF FallDue, AutoClose, AppendAutomaticClose, RequestDeletion
  <2>7. CASE UNCHANGED roomVars
    BY <2>7 DEF roomVars
  <2> QED BY <2>1, <2>2, <2>3, <2>4, <2>5, <2>6, <2>7 DEF RoomNext
<1> QED BY <1>1, <1>2 DEF RoomTypeOK

\* Replaying a prefix does not see what is appended after it.
LEMMA PrefixPhase ==
  ASSUME log \in Seq(Events), NEW e \in Events, log' = Append(log, e),
         NEW n \in 0 .. Len(log), NEW s, PhaseAt(log, n, s)
  PROVE  PhaseAt(log', n, s)
<1>1. \A i \in 1 .. n : log'[i] = log[i]
  BY Appended
<1> QED BY <1>1 DEF PhaseAt

\* The replayed status changes exactly when a lifecycle event is appended.
LEMMA NextPhase ==
  ASSUME log \in Seq(Events), NEW e \in Events, log' = Append(log, e),
         NEW s, PhaseAt(log, Len(log), s)
  PROVE  PhaseAt(log', Len(log'), IF e.type \in LifecycleTypes THEN LeadsTo(e.type) ELSE s)
<1>1. /\ Len(log) \in Nat /\ Len(log') = Len(log) + 1
      /\ \A i \in 1 .. Len(log) : log'[i] = log[i]
      /\ log'[Len(log) + 1] = e
  BY Appended
<1>2. CASE e.type \in LifecycleTypes
  <2>1. Len(log') \in 1 .. Len(log') /\ log'[Len(log')] = e
    BY <1>1
  <2>2. \A k \in Len(log') + 1 .. Len(log') : log'[k].type \notin LifecycleTypes
    BY <1>1
  <2> QED BY <1>2, <2>1, <2>2 DEF PhaseAt
<1>3. CASE e.type \notin LifecycleTypes
  <2>1. CASE s = "scheduled" /\ \A i \in 1 .. Len(log) : log[i].type \notin LifecycleTypes
    BY <1>1, <1>3, <2>1 DEF PhaseAt
  <2>2. ASSUME NEW i \in 1 .. Len(log), log[i].type \in LifecycleTypes,
               s = LeadsTo(log[i].type),
               \A k \in i + 1 .. Len(log) : log[k].type \notin LifecycleTypes
        PROVE  PhaseAt(log', Len(log'), s)
    <3>1. i \in 1 .. Len(log') /\ log'[i] = log[i]
      BY <1>1
    <3>2. \A k \in i + 1 .. Len(log') : log'[k].type \notin LifecycleTypes
      BY <1>1, <1>3, <2>2
    <3> QED BY <2>2, <3>1, <3>2 DEF PhaseAt
  <2> QED BY <1>3, <2>1, <2>2 DEF PhaseAt
<1> QED BY <1>2, <1>3

\* The ledger's history stays legal and in step with classroom_room.status.
LEMMA NextHistory ==
  ASSUME RoomTypeOK, CausedOnce, LegalHistory, StatusFollowsLog, [RoomNext]_roomVars
  PROVE  CausedOnce' /\ LegalHistory' /\ StatusFollowsLog'
<1>1. CASE log' = log /\ (erasing => erasing') /\ (room' = room \/ erasing')
  BY <1>1 DEF CausedOnce, LegalHistory, StatusFollowsLog
<1>2. ASSUME NEW e \in Events, Writes(e)
      PROVE  CausedOnce' /\ LegalHistory' /\ StatusFollowsLog'
  <2>1. /\ log \in Seq(Events) /\ log' = Append(log, e)
        /\ Len(log) \in Nat /\ Len(log') = Len(log) + 1
        /\ \A i \in 1 .. Len(log) : log'[i] = log[i]
        /\ log'[Len(log) + 1] = e
    BY <1>2, Appended DEF RoomTypeOK, Writes
  <2>2. CausedOnce'
    <3>1. \A i \in 1 .. Len(log) : log[i].cause # e.cause
      BY <1>2 DEF Writes, Find
    <3> QED BY <2>1, <3>1 DEF CausedOnce
  <2>3. PhaseAt(log, Len(log), room) /\ room \in RoomStatus
    BY <1>2 DEF Writes, StatusFollowsLog, RoomTypeOK
  <2>4. Legal(room, e)
    BY <1>2 DEF Writes, Admissible, Legal
  <2>5. LegalHistory'
    <3>1. ASSUME NEW i \in 1 .. Len(log)
          PROVE  \E s \in RoomStatus : PhaseAt(log', i - 1, s) /\ Legal(s, log'[i])
      <4>1. PICK s \in RoomStatus : PhaseAt(log, i - 1, s) /\ Legal(s, log[i])
        BY DEF LegalHistory
      <4>2. PhaseAt(log', i - 1, s)
        BY <2>1, <4>1, PrefixPhase
      <4> QED BY <2>1, <4>1, <4>2
    <3>2. PhaseAt(log', Len(log), room) /\ Legal(room, log'[Len(log) + 1])
      BY <2>1, <2>3, <2>4, PrefixPhase
    <3>3. ASSUME NEW i \in 1 .. Len(log')
          PROVE  \E s \in RoomStatus : PhaseAt(log', i - 1, s) /\ Legal(s, log'[i])
      <4>1. i \in 1 .. Len(log) \/ (i = Len(log) + 1 /\ i - 1 = Len(log))
        BY <2>1
      <4> QED BY <2>3, <3>1, <3>2, <4>1
    <3> QED BY <3>3 DEF LegalHistory
  <2>6. StatusFollowsLog'
    <3>1. room' = IF e.type \in LifecycleTypes THEN LeadsTo(e.type) ELSE room
      BY <1>2 DEF Writes, Admissible, LifecycleTypes
    <3> QED BY <2>1, <2>3, <3>1, NextPhase DEF StatusFollowsLog
  <2> QED BY <2>2, <2>5, <2>6
<1> QED BY <1>1, <1>2, StepShape

\* Messages stay unbroken chains of revisions.
LEMMA NextMessages ==
  ASSUME RoomTypeOK, Rooted, Increasing, RevisionChain, Authorship, [RoomNext]_roomVars
  PROVE  Rooted' /\ Increasing' /\ RevisionChain' /\ Authorship'
<1>1. CASE log' = log
  BY <1>1 DEF Rooted, Increasing, RevisionChain, Authorship
<1>2. ASSUME NEW e \in Events, Writes(e)
      PROVE  Rooted' /\ Increasing' /\ RevisionChain' /\ Authorship'
  <2> DEFINE n == Len(log)
  <2>1. /\ n \in Nat /\ Len(log') = n + 1
        /\ \A i \in 1 .. n : log'[i] = log[i]
        /\ log'[n + 1] = e
        /\ \A i \in 1 .. n : log[i] \in Events
    BY <1>2, Appended DEF RoomTypeOK, Writes
  <2>2. \A i \in 1 .. n : log[i].rev \in Nat /\ log[i].base \in Nat
    BY <2>1 DEF Events
  <2>3. e.rev \in Nat /\ e.base \in Nat
    BY DEF Events
  <2> HIDE DEF n
  <2>4. CASE e.msg = NoMessage /\ e.type \notin MessageTypes
    <3>1. e.msg \notin Messages
      BY <2>4, CausesAssumption DEF Messages
    <3>2. Rooted' /\ Increasing'
      BY <2>1, <2>4, <3>1 DEF Rooted, Increasing, n
    <3>3. RevisionChain'
      BY <2>1, <2>4 DEF RevisionChain, n
    <3>4. Authorship'
      <4>1. \A i \in 1 .. n : log[i].type = "added" => log[i].msg # e.msg
        BY <3>1 DEF Rooted, MessageTypes, n
      <4> QED BY <2>1, <2>4, <4>1 DEF Authorship, MessageTypes, n
    <3> QED BY <3>2, <3>3, <3>4
  <2>5. CASE e.type = "added" /\ e.msg = e.cause /\ e.msg \in Messages
    <3>1. \A i \in 1 .. n : log[i].msg # e.msg
      BY <1>2, <2>5 DEF Writes, Find, Rooted, n
    <3>2. Rooted' /\ Increasing'
      BY <2>1, <2>5, <3>1 DEF Rooted, Increasing, n
    <3>3. RevisionChain'
      BY <2>1, <2>5, <3>1 DEF RevisionChain, MessageTypes, n
    <3>4. Authorship'
      BY <2>1, <2>5, <3>1 DEF Authorship, n
    <3> QED BY <3>2, <3>3, <3>4
  <2>6. ASSUME NEW i \in 1 .. n,
               e.type \in {"revised", "retracted"}, e.msg \in Messages,
               IsLatest(e.msg, i), log[i].type # "retracted",
               log[i].rev = e.base, e.rev = e.base + 1,
               e.actor = log[i].actor \/ (e.type = "retracted" /\ e.actor = Teacher)
        PROVE  Rooted' /\ Increasing' /\ RevisionChain' /\ Authorship'
    <3>1. log[i].msg = e.msg /\ \A k \in 1 .. n : log[k].msg = e.msg => log[k].rev <= e.base
      BY <2>2, <2>3, <2>6 DEF IsLatest, n
    <3>2. \A k \in i + 1 .. n : log[k].msg # e.msg
      BY <2>1, <2>2, <2>3, <2>6, <3>1 DEF Increasing, n
    <3>3. Rooted'
      BY <2>1, <2>6, <3>1 DEF Rooted, n
    <3>4. Increasing'
      <4>1. \A k \in 1 .. n : log[k].msg = e.msg => log[k].rev < e.rev
        BY <2>2, <2>3, <2>6, <3>1
      <4> QED BY <2>1, <4>1 DEF Increasing, n
    <3>5. RevisionChain'
      <4>1. ASSUME NEW k \in 1 .. n, log[k].type \in MessageTypes
            PROVE  IF log'[k].type = "added"
                     THEN \A j \in 1 .. k - 1 : log'[j].msg # log'[k].msg
                     ELSE \E j \in 1 .. k - 1 :
                            /\ log'[j].msg = log'[k].msg
                            /\ log'[j].type # "retracted"
                            /\ log'[j].rev = log'[k].base /\ log'[k].rev = log'[k].base + 1
                            /\ \A h \in j + 1 .. k - 1 : log'[h].msg # log'[k].msg
        <5>1. \A j \in 1 .. k : log'[j] = log[j]
          BY <2>1
        <5> QED BY <4>1, <5>1 DEF RevisionChain, n
      <4>2. /\ i \in 1 .. (n + 1) - 1
            /\ log'[i].msg = e.msg
            /\ log'[i].type # "retracted"
            /\ log'[i].rev = e.base /\ e.rev = e.base + 1
            /\ \A h \in i + 1 .. (n + 1) - 1 : log'[h].msg # e.msg
        BY <2>1, <2>6, <3>1, <3>2
      <4>3. e.type # "added"
        BY <2>6
      <4>4. ASSUME NEW k \in 1 .. n + 1, log'[k].type \in MessageTypes
            PROVE  IF log'[k].type = "added"
                     THEN \A j \in 1 .. k - 1 : log'[j].msg # log'[k].msg
                     ELSE \E j \in 1 .. k - 1 :
                            /\ log'[j].msg = log'[k].msg
                            /\ log'[j].type # "retracted"
                            /\ log'[j].rev = log'[k].base /\ log'[k].rev = log'[k].base + 1
                            /\ \A h \in j + 1 .. k - 1 : log'[h].msg # log'[k].msg
        <5>1. CASE k \in 1 .. n
          BY <2>1, <4>1, <4>4, <5>1
        <5>2. CASE k = n + 1
          BY <2>1, <4>2, <4>3, <5>2
        <5> QED BY <2>1, <5>1, <5>2
      <4> QED BY <2>1, <4>4 DEF RevisionChain
    <3>6. Authorship'
      <4>1. \A j \in 1 .. n : log[j].type = "added" /\ log[j].msg = e.msg =>
                                log[j].actor = log[i].actor
        BY <2>6, <3>1 DEF Authorship, n
      <4> QED BY <2>1, <2>6, <4>1 DEF Authorship, n
    <3> QED BY <3>3, <3>4, <3>5, <3>6
  <2> QED
    BY <1>2, <2>4, <2>5, <2>6 DEF Writes, Admissible, LifecycleTypes, MessageTypes, n
<1> QED BY <1>1, <1>2, StepShape

-----------------------------------------------------------------------------

\* The inductive invariant of the ledger.
THEOREM LedgerInvariant == RoomSpec => []LInv
<1>1. RoomInit => LInv
  <2> SUFFICES ASSUME RoomInit PROVE LInv
    OBVIOUS
  <2>1. RoomTypeOK
    <3>1. log \in Seq(Events) /\ Len(log) = 0
      BY DEF RoomInit
    <3>2. sessions \subseteq Actors /\ calls \subseteq Calls
      BY DEF RoomInit, Actors
    <3> QED BY <3>1, <3>2 DEF RoomInit, RoomTypeOK, RoomStatus
  <2>2. 1 .. Len(log) = {}
    BY DEF RoomInit
  <2>3. PhaseAt(log, Len(log), room)
    BY <2>2 DEF RoomInit, PhaseAt
  <2>4. CausedOnce /\ LegalHistory /\ Rooted /\ Increasing /\ RevisionChain /\ Authorship
    BY <2>2 DEF CausedOnce, LegalHistory, Rooted, Increasing, RevisionChain, Authorship
  <2> QED BY <2>1, <2>3, <2>4 DEF LInv, StatusFollowsLog
<1>2. LInv /\ [RoomNext]_roomVars => LInv'
  BY NextRoomType, NextHistory, NextMessages DEF LInv
<1> QED BY <1>1, <1>2, PTL DEF RoomSpec

\* A command id causes at most one event, whatever is retried or doubled.
THEOREM EffectsOnce == RoomSpec => []CausedOnce
  BY LedgerInvariant, PTL DEF LInv

\* The ledger is always a legal history of the room ...
THEOREM HistoryIsLegal == RoomSpec => []LegalHistory
  BY LedgerInvariant, PTL DEF LInv

\* ... which replays to the room's status.
THEOREM StatusReplays == RoomSpec => []StatusFollowsLog
  BY LedgerInvariant, PTL DEF LInv

\* Concurrent edits of a message never lose an update nor outlive a retraction.
THEOREM RevisionsChain == RoomSpec => []RevisionChain
  BY LedgerInvariant, PTL DEF LInv

\* Nobody else's edit ever enters a message's chain.
THEOREM AuthorsOnly == RoomSpec => []Authorship
  BY LedgerInvariant, PTL DEF LInv

\* A requested deletion freezes the ledger.
THEOREM DeletionFreezes == RoomSpec => FrozenByDeletion
<1>1. RoomTypeOK /\ [RoomNext]_roomVars => [erasing => log' = log]_roomVars
  BY StepShape DEF Writes
<1>2. RoomSpec => []RoomTypeOK
  BY LedgerInvariant, PTL DEF LInv
<1> QED BY <1>1, <1>2, PTL DEF RoomSpec, FrozenByDeletion

\* The ledger is a legal, properly authored history that the room's row agrees
\* with (room-event-repository.ts, lifecycle-service.ts, message-service.ts).
THEOREM LedgerIsSound == RoomSpec => []RoomSound
<1>1. LInv => RoomSound
  BY DEF LInv, RoomSound
<1> QED BY <1>1, LedgerInvariant, PTL

-----------------------------------------------------------------------------
(* The classroom.                                                          *)

QP == INSTANCE JobQueueProofs WITH
        Jobs <- JobIds, Rooms <- {"room"}, Room <- [j \in JobIds |-> "room"],
        Consume <- {}, Replay <- {}, Agent <- Runs, Closers <- {AutoJob},
        Order <- [j \in JobIds |-> 0],
        deleting <- IF erasing THEN {"room"} ELSE {}

\* A run has its job from the start, and a run settled without an answer has a job
\* that can no longer act.
RunsHaveJobs ==
    \A g \in Runs :
        /\ run[g] = "absent" <=> status[g] = "absent"
        /\ run[g] \in {"failed", "cancelled"} => status[g] \in {"dead", "cancelled"}

\* What a sweep has selected can no longer finish when it is settled later.
SweptAreOver == \A o \in sweep : status[o[1]] \in {"dead", "cancelled"}

\* The close job exists once the room is open, and its work is the close.
CloseJobCloses ==
    /\ status[AutoJob] # "absent" => room # "scheduled"
    /\ effects[AutoJob] > 0 => room = "closed" /\ Find(AutoJob) # {}

CInv ==
    /\ RoomTypeOK /\ QP!IInv /\ AgentTypeOK
    /\ AnswerIffCompleted /\ RunsHaveJobs /\ SweptAreOver
    /\ ClosedRoomIsQuiet /\ CloseJobCloses

-----------------------------------------------------------------------------
(* The two parts.                                                          *)

\* The queue's assumptions hold of the room's jobs.
LEMMA QueueAssumptions ==
  QP!MaxAttemptsAssumption /\ QP!FamilyAssumption /\ QP!OrderAssumption
BY AttemptsAssumption
DEF QP!MaxAttemptsAssumption, QP!FamilyAssumption, QP!OrderAssumption, JobIds

\* The two instances of JobQueue are one.
LEMMA SameInit == Q!Init => QP!Init
BY DEF Q!Init, QP!Init, Q!NoClaim, QP!NoClaim

\* Every step of the one is a step of the other.
LEMMA SameNext == [Q!Next]_Q!vars => [QP!Next]_QP!vars
<1> USE DEF Q!workerVars, QP!workerVars, Q!jobVars, QP!jobVars, Q!Prior, QP!Prior,
            Q!Analytics, QP!Analytics, Q!Live, QP!Live, Q!Withdrawn, QP!Withdrawn,
            Q!CancelRows, QP!CancelRows, Q!CancelAll, QP!CancelAll, Q!Current, QP!Current,
            Q!EndAttempt, QP!EndAttempt, Q!NoClaim, QP!NoClaim, Q!Answer, QP!Answer,
            Q!Settle, QP!Settle
<1>1. \A j \in JobIds : Q!QueueStep(j) => QP!QueueStep(j)
  BY DEF Q!QueueStep, QP!QueueStep, Q!Enqueue, QP!Enqueue, Q!BecomeReady, QP!BecomeReady,
         Q!LeaseExpires, QP!LeaseExpires
<1>2. \A r \in {"room"} : Q!CancelRoomJobs(r) \/ Q!DeleteRoom(r) => QP!CancelRoomJobs(r) \/ QP!DeleteRoom(r)
  BY DEF Q!CancelRoomJobs, QP!CancelRoomJobs, Q!DeleteRoom, QP!DeleteRoom
<1>3. \A j \in JobIds : Q!CancelRun(j) => QP!CancelRun(j)
  BY DEF Q!CancelRun, QP!CancelRun
<1>4. \A w \in Workers, j \in JobIds : Q!Claim(w, j) => QP!Claim(w, j)
  BY DEF Q!Claim, QP!Claim, Q!Candidate, QP!Candidate, Q!Recover, QP!Recover, Q!Exhaust, QP!Exhaust,
         Q!Pick, QP!Pick
<1>5. \A w \in Workers : Q!Send(w) \/ Q!Timeout(w) \/ Q!Heartbeat(w) \/ Q!HeartbeatError(w)
                           => QP!Send(w) \/ QP!Timeout(w) \/ QP!Heartbeat(w) \/ QP!HeartbeatError(w)
  BY DEF Q!Send, QP!Send, Q!Timeout, QP!Timeout, Q!Heartbeat, QP!Heartbeat, Q!HeartbeatError,
     QP!HeartbeatError
<1>6. \A w \in Workers : Q!Succeed(w) \/ Q!Fail(w) => QP!Succeed(w) \/ QP!Fail(w)
  BY DEF Q!Succeed, QP!Succeed, Q!Fail, QP!Fail
<1>7. \A w \in Workers : Q!LoseLease(w) \/ Q!Crash(w) \/ Q!Skip(w)
                           => QP!LoseLease(w) \/ QP!Crash(w) \/ QP!Skip(w)
  BY DEF Q!LoseLease, QP!LoseLease, Q!Crash, QP!Crash, Q!Skip, QP!Skip
<1>8. \A w \in Workers, p \in {"failing", "refused"} : Q!HandlerError(w, p) => QP!HandlerError(w, p)
  BY DEF Q!HandlerError, QP!HandlerError
<1>9. \A c \in inflight : Q!RequestStep(c) => QP!RequestStep(c)
  BY DEF Q!RequestStep, QP!RequestStep, Q!Commit, QP!Commit, Q!CommitClosing, QP!CommitClosing,
         Q!CompleteBusiness, QP!CompleteBusiness, Q!RejectStale, QP!RejectStale, Q!Refuse, QP!Refuse
<1>10. UNCHANGED Q!vars => UNCHANGED QP!vars
  BY DEF Q!vars, QP!vars
<1> QED
  BY <1>1, <1>2, <1>3, <1>4, <1>5, <1>6, <1>7, <1>8, <1>9, <1>10
  DEF Q!Next, QP!Next, Q!AttemptStep, QP!AttemptStep

-----------------------------------------------------------------------------
(* The room.                                                               *)

\* Every transaction of the classroom is a transaction of the room, or leaves the
\* room alone.
LEMMA RoomStep == [ClassNext]_classVars => [RoomNext]_roomVars
<1> SUFFICES ASSUME [ClassNext]_classVars PROVE [RoomNext]_roomVars
  OBVIOUS
<1>1. CASE \E c \in LifecycleCommands : OpenRoom(c)
  BY <1>1 DEF OpenRoom, RoomNext, LifecycleCommand
<1>2. CASE \E k \in calls : LifecycleStep(k)
  <2>1. Intact \in BOOLEAN
    BY DEF Intact
  <2> QED
    BY <1>2, <2>1 DEF LifecycleStep, RoomNext, CallStep
<1>3. CASE RoomOnly
  BY <1>3 DEF RoomOnly, RoomNext, CallStep, LifecycleCommand
<1>4. CASE CloseIfDue \/ DeleteRoom
  BY <1>4 DEF CloseIfDue, DeleteRoom, RoomNext
<1>5. CASE QueueOnly
  BY <1>5 DEF QueueOnly
<1>6. CASE \E a \in Actors, g \in Runs, i \in 1 .. Len(log) : RequestRun(a, g, i)
  BY <1>6 DEF RequestRun
<1>7. CASE \E g \in Runs : CancelRun(g) \/ SelectOrphan(g)
  BY <1>7 DEF CancelRun, CancelLocked, SelectOrphan
<1>8. CASE \E o \in sweep : SettleOrphan(o)
  BY <1>8 DEF SettleOrphan
<1>9. CASE \E e \in BOOLEAN : SetEnabled(e)
  BY <1>9 DEF SetEnabled, CancelLocked
<1>10. ASSUME NEW c \in inflight, Route(c) PROVE [RoomNext]_roomVars
  <2>1. CASE CompleteRun(c)
    BY <2>1 DEF CompleteRun, RoomNext
  <2>2. CASE CloseOverdue(c)
    BY <2>2 DEF CloseOverdue, RoomNext
  <2> QED
    BY <1>10, <2>1, <2>2 DEF Route, RefuseIdentity, RefuseForNow, RejectStale
<1>11. CASE \E w \in Workers : SkipSettled(w)
  BY <1>11 DEF SkipSettled
<1>12. CASE UNCHANGED classVars
  BY <1>12 DEF classVars
<1> QED
  BY <1>1, <1>2, <1>3, <1>4, <1>5, <1>6, <1>7, <1>8, <1>9, <1>10, <1>11, <1>12 DEF ClassNext

\* What appending an event does to the causes in the log.
LEMMA CauseAdded ==
  ASSUME log \in Seq(Events), NEW e \in Events, log' = Append(log, e), NEW c
  PROVE  /\ Find(c) # {} => Find(c)' # {}
         /\ e.cause = c => Find(c)' # {}
         /\ e.cause # c => Find(c)' = Find(c)
<1>1. /\ Len(log) \in Nat /\ Len(log') = Len(log) + 1 /\ log'[Len(log) + 1] = e
      /\ \A i \in 1 .. Len(log) : log'[i] = log[i]
  BY Appended
<1>2. 1 .. Len(log') = (1 .. Len(log)) \cup {Len(log) + 1}
  BY <1>1
<1>3. Find(c)' = {i \in 1 .. Len(log') : log'[i].cause = c}
  BY DEF Find
<1> QED
  BY <1>1, <1>2, <1>3 DEF Find

\* A closed room stays closed, an opened one is never scheduled again, and causes
\* stay in the log.
LEMMA RoomMoves ==
  ASSUME RoomTypeOK, [RoomNext]_roomVars
  PROVE  /\ RoomTypeOK'
         /\ room = "closed" => room' = "closed"
         /\ room # "scheduled" => room' # "scheduled"
         /\ \A c : Find(c) # {} => Find(c)' # {}
<1>1. RoomTypeOK'
  BY NextRoomType
<1>2. \A c : Find(c) # {} => Find(c)' # {}
  <2>1. CASE log' = log
    BY <2>1 DEF Find
  <2>2. CASE \E e \in Events : log' = Append(log, e)
    BY <2>2, CauseAdded DEF RoomTypeOK
  <2> QED
    BY <2>1, <2>2, StepShape DEF Writes
<1>3. /\ room = "closed" => room' = "closed"
      /\ room # "scheduled" => room' # "scheduled"
  <2> DEFINE Forth == /\ room = "closed" => room' = "closed"
                      /\ room # "scheduled" => room' # "scheduled"
  <2>1. ASSUME NEW k \in calls, Transition(k) PROVE Forth
    <3>1. k.type \in {"paused", "resumed", "closed"}
      BY DEF RoomTypeOK, Calls
    <3>2. room \in Requires(k.type) /\ room' = LeadsTo(k.type)
      BY <2>1 DEF Transition
    <3> QED
      BY <3>1, <3>2 DEF Requires, LeadsTo
  <2>2. ASSUME NEW k \in calls, EndCall(k) \/ \E intact \in BOOLEAN : CheckDue(k, intact) PROVE Forth
    BY <2>2 DEF EndCall, CheckDue, AppendAutomaticClose
  <2>3. ASSUME NEW c \in LifecycleCommands, LifecycleCommand(c) PROVE Forth
    BY <2>3 DEF LifecycleCommand, Open, StartCall
  <2>4. ASSUME NEW c \in MessageCommands, MessageCommand(c) PROVE Forth
    BY <2>4 DEF MessageCommand, Review, Add, Revise, Retract
  <2>5. ASSUME NEW g \in Runs, AgentAnswer(g) PROVE Forth
    BY <2>5 DEF AgentAnswer
  <2>6. ASSUME NEW a \in Actors, SignIn(a) \/ SessionEnds(a) PROVE Forth
    BY <2>6 DEF SignIn, SessionEnds
  <2>7. ASSUME FallDue \/ AutoClose \/ RequestDeletion PROVE Forth
    BY <2>7 DEF FallDue, AutoClose, AppendAutomaticClose, RequestDeletion
  <2>8. ASSUME UNCHANGED roomVars PROVE Forth
    BY <2>8 DEF roomVars
  <2> HIDE DEF Forth
  <2>9. ASSUME NEW k \in calls, CallStep(k) PROVE Forth
    BY <2>1, <2>2, <2>9 DEF CallStep
  <2>10. Forth
    BY <2>3, <2>4, <2>5, <2>6, <2>7, <2>8, <2>9 DEF RoomNext
  <2> QED
    BY <2>10 DEF Forth
<1> QED
  BY <1>1, <1>2, <1>3

\* The events of users and of the automatic close are no answers of Nova.
LEMMA NoAnswerFrom ==
  ASSUME RoomTypeOK, NEW e, e \in Events, log' = Append(log, e), e.cause \in Commands \cup {AutoJob}
  PROVE  \A g \in Runs : Find(g)' = Find(g)
BY CauseAdded, CausesAssumption DEF RoomTypeOK

-----------------------------------------------------------------------------
(* The queue.                                                              *)

\* A step of the queue on behalf of nobody: rows of jobs that can still act may
\* change, and nothing commits.
Calm ==
  /\ effects' = effects
  /\ \A j \in JobIds : status'[j] = status[j] \/ (Q!Live(j) /\ status'[j] # "absent")

\* The invariant of the queue after a step of it.
LEMMA QueueStays ==
  ASSUME CInv, [Q!Next]_Q!vars
  PROVE  QP!IInv'
BY SameNext, QP!NextIInv, QueueAssumptions DEF CInv

\* What the queue's invariant says of the jobs of a room.
LEMMA QueueSays ==
  ASSUME QP!IInv
  PROVE  /\ status \in [JobIds -> {"absent", "queued", "running", "succeeded", "retryable", "dead",
                                   "cancelled"}]
         /\ effects \in [JobIds -> Nat]
         /\ \A j \in JobIds :
              /\ effects[j] \in {0, 1}
              /\ status[j] = "succeeded" => effects[j] = 1
              /\ effects[j] = 1 => status[j] \in {"running", "succeeded", "cancelled"}
         /\ \A w \in Workers : phase[w] = "handling" => claim[w] \in JobIds \X Nat
         /\ inflight \subseteq JobIds \X Nat
         /\ phase \in [Workers -> QP!Phase]
BY DEF QP!IInv, QP!TInv, QP!TypeOK, QP!Status, QP!Committing, QP!EffectsCounted, QP!Claims,
       QP!Attached

\* A claim that is current and has not asked for its commit, or has asked for it and
\* not got it, belongs to a job without an effect.
LEMMA FenceSays ==
  ASSUME QP!IInv
  PROVE  /\ \A w \in Workers : phase[w] = "handling" /\ Q!Current(claim[w]) => effects[claim[w][1]] = 0
         /\ \A c \in inflight : Q!Current(c) => effects[c[1]] = 0
<1>1. \A c : Q!Current(c) <=> status[c[1]] = "running" /\ generation[c[1]] = c[2]
  BY DEF Q!Current
<1>2. \A j \in JobIds : /\ effects[j] \in {0, 1}
                        /\ status[j] = "running" /\ effects[j] = 1 => generation[j] \in receipt[j]
  BY DEF QP!IInv, QP!Committing, QP!EffectsCounted
<1>3. /\ \A w \in Workers : phase[w] = "handling" =>
           (QP!Current(claim[w]) => claim[w][2] \notin receipt[claim[w][1]])
      /\ \A c \in inflight : QP!Current(c) => c[2] \notin receipt[c[1]]
  BY DEF QP!IInv, QP!Committing, QP!OneRequest
<1>4. /\ \A w \in Workers : phase[w] = "handling" => claim[w][1] \in JobIds
      /\ \A c \in inflight : c[1] \in JobIds
  BY QueueSays
<1> QED
  BY <1>1, <1>2, <1>3, <1>4 DEF QP!Current

-----------------------------------------------------------------------------
(* Steps that leave the runs alone.                                        *)

\* A step that appends no answer, and lets jobs only lose the power to act, keeps the
\* room, its runs and its jobs in agreement, if closing the room withdraws its jobs.
LEMMA CalmStep ==
  ASSUME CInv, RoomTypeOK', QP!IInv', UNCHANGED agentVars, Calm,
         \A g \in Runs : Find(g)' = {} <=> Find(g) = {},
         Find(AutoJob) # {} => Find(AutoJob)' # {},
         room # "scheduled" => room' # "scheduled",
         room = "closed" => room' = "closed",
         room # "closed" /\ room' = "closed" => \A j \in JobIds : ~Q!Live(j)'
  PROVE  CInv'
<1>1. AutoJob \in JobIds /\ Runs \subseteq JobIds
  BY DEF JobIds
<1>2. \A j \in JobIds : Q!Live(j)' => Q!Live(j)
  BY DEF Calm, Q!Live
<1>3. AgentTypeOK'
  BY DEF CInv, AgentTypeOK, agentVars
<1>4. AnswerIffCompleted'
  BY DEF CInv, AnswerIffCompleted, Calm, agentVars
<1>5. RunsHaveJobs'
  BY <1>1 DEF CInv, RunsHaveJobs, Calm, Q!Live, agentVars
<1>6. SweptAreOver'
  <2>1. \A o \in sweep : o[1] \in JobIds
    BY <1>1 DEF CInv, AgentTypeOK
  <2> QED
    BY <2>1 DEF CInv, SweptAreOver, Calm, Q!Live, agentVars
<1>7. ClosedRoomIsQuiet'
  BY <1>2 DEF CInv, ClosedRoomIsQuiet, Calm
<1>8. CloseJobCloses'
  BY <1>1 DEF CInv, CloseJobCloses, Calm, Q!Live
<1> QED
  BY <1>3, <1>4, <1>5, <1>6, <1>7, <1>8 DEF CInv

\* The queue and its workers on their own.
LEMMA QueueOnlyStep ==
  ASSUME CInv, QueueOnly
  PROVE  [Q!Next]_Q!vars /\ Calm
<1>1. UNCHANGED roomVars
  BY DEF QueueOnly
<1>2. status \in [JobIds -> {"absent", "queued", "running", "succeeded", "retryable", "dead", "cancelled"}]
  BY QueueSays DEF CInv
<1> DEFINE Fine == [Q!Next]_Q!vars /\ Calm
<1>3. ASSUME NEW j \in JobIds, Q!BecomeReady(j) \/ Q!LeaseExpires(j) PROVE Fine
  <2>1. Q!Next
    BY <1>3 DEF Q!Next, Q!QueueStep
  <2>2. Calm
    BY <1>3 DEF Q!BecomeReady, Q!LeaseExpires, Calm
  <2> QED
    BY <2>1, <2>2
<1>4. ASSUME NEW w \in Workers, NEW j \in JobIds, Q!Claim(w, j) PROVE Fine
  <2>1. Q!Next
    BY <1>4 DEF Q!Next
  <2>2. Calm
    BY <1>2, <1>4 DEF Q!Claim, Q!Candidate, Q!Recover, Q!Exhaust, Q!Pick, Calm, Q!Live
  <2> QED
    BY <2>1, <2>2
<1>5. ASSUME NEW w \in Workers, Q!AttemptStep(w) PROVE Fine
  <2>1. Q!Next
    BY <1>5 DEF Q!Next
  <2>2. CASE Q!Succeed(w)
    BY <1>2, <2>1, <2>2 DEF Q!Succeed, Q!Settle, Q!Current, Calm, Q!Live
  <2>3. CASE Q!Fail(w)
    BY <1>2, <2>1, <2>3 DEF Q!Fail, Q!Settle, Q!Current, Calm, Q!Live
  <2>4. CASE Q!Send(w) \/ Q!Timeout(w) \/ Q!Heartbeat(w) \/ Q!HeartbeatError(w)
             \/ Q!LoseLease(w) \/ Q!Crash(w)
    BY <2>1, <2>4 DEF Q!Send, Q!Timeout, Q!Heartbeat, Q!HeartbeatError, Q!LoseLease, Q!Crash,
                      Q!jobVars, Calm
  <2> QED
    BY <1>5, <2>2, <2>3, <2>4 DEF Q!AttemptStep
<1>6. ASSUME NEW w \in Workers, HandlerError(w) PROVE Fine
  <2>1. Q!Next
    BY <1>6 DEF HandlerError, Q!Next
  <2>2. Calm
    BY <1>6 DEF HandlerError, Q!HandlerError, Q!jobVars, Calm
  <2> QED
    BY <2>1, <2>2
<1> HIDE DEF Fine
<1>7. Fine
  BY <1>3, <1>4, <1>5, <1>6 DEF QueueOnly
<1> QED
  BY <1>7 DEF Fine

\* The routes that write nothing, and the executor that finds its run settled: the
\* claim of a settled run is no longer current.
LEMMA RefusalStep ==
  ASSUME CInv,
         \/ \E c \in inflight : RefuseIdentity(c) \/ RefuseForNow(c) \/ RejectStale(c)
         \/ \E w \in Workers : SkipSettled(w)
  PROVE  [Q!Next]_Q!vars /\ Calm /\ UNCHANGED <<roomVars, agentVars>>
<1>1. ASSUME NEW c \in inflight, RefuseIdentity(c) \/ RefuseForNow(c) \/ RejectStale(c)
      PROVE  [Q!Next]_Q!vars /\ Calm /\ UNCHANGED <<roomVars, agentVars>>
  <2>1. Q!RequestStep(c)
    BY <1>1 DEF RefuseIdentity, RefuseForNow, RejectStale, Q!RequestStep
  <2>2. Q!Next
    BY <2>1 DEF Q!Next
  <2>3. Calm /\ UNCHANGED <<roomVars, agentVars>>
    BY <1>1 DEF RefuseIdentity, RefuseForNow, RejectStale, Q!Refuse, Q!RejectStale, Q!jobVars, Calm
  <2> QED
    BY <2>2, <2>3
<1>2. ASSUME NEW w \in Workers, SkipSettled(w)
      PROVE  [Q!Next]_Q!vars /\ Calm /\ UNCHANGED <<roomVars, agentVars>>
  <2> DEFINE g == claim[w][1]
  <2>1. phase[w] = "handling" /\ g \in Runs /\ run[g] \in Settled
    BY <1>2 DEF SkipSettled
  <2>2. ~Q!Current(claim[w])
    <3>1. CASE run[g] = "completed"
      BY <2>1, <3>1, FenceSays DEF CInv, AnswerIffCompleted
    <3>2. CASE run[g] \in {"failed", "cancelled"}
      BY <2>1, <3>2 DEF CInv, RunsHaveJobs, Q!Current
    <3> QED
      BY <2>1, <3>1, <3>2 DEF Settled
  <2>3. Calm /\ UNCHANGED <<roomVars, agentVars>>
    BY <1>2 DEF SkipSettled, Calm
  <2>4. Q!Skip(w)
    BY <1>2, <2>1, <2>2, <2>3 DEF SkipSettled, Q!Skip, Q!jobVars, roomVars
  <2>5. Q!Next
    BY <2>4 DEF Q!Next
  <2> QED
    BY <2>3, <2>5
<1> QED
  BY <1>1, <1>2

\* closeIfDueForOwner, pause, resume, close and getRoom: the step that closes the room
\* withdraws its jobs.
LEMMA ClosingCancels ==
  ASSUME CInv, CancelIfClosed, erasing' = erasing
  PROVE  /\ [Q!Next]_Q!vars /\ Calm
         /\ room # "closed" /\ room' = "closed" => \A j \in JobIds : ~Q!Live(j)'
<1>1. CASE room # "closed" /\ room' = "closed"
  <2>1. Q!CancelRoomJobs("room")
    BY <1>1 DEF CancelIfClosed
  <2>2. Q!Next
    BY <2>1 DEF Q!Next
  <2>3. Q!Withdrawn("room") = {j \in JobIds : Q!Live(j)}
    BY DEF Q!Withdrawn, Q!Analytics
  <2>4. /\ status' = [j \in JobIds |-> IF j \in Q!Withdrawn("room") THEN "cancelled" ELSE status[j]]
        /\ effects' = effects
    BY <2>1 DEF Q!CancelRoomJobs, Q!CancelAll, Q!CancelRows
  <2>5. \A j \in JobIds : status'[j] = IF Q!Live(j) THEN "cancelled" ELSE status[j]
    BY <2>3, <2>4
  <2> QED
    BY <2>2, <2>4, <2>5 DEF Calm, Q!Live
<1>2. CASE ~(room # "closed" /\ room' = "closed")
  <2>1. UNCHANGED queueVars
    BY <1>2 DEF CancelIfClosed
  <2> QED
    BY <1>2, <2>1 DEF Calm, queueVars, Q!vars
<1> QED
  BY <1>1, <1>2

\* A transaction of a user: what it appends is caused by its command, or is the close.
LEMMA UserStep ==
  ASSUME RoomTypeOK,
         \/ \E c \in MessageCommands : MessageCommand(c)
         \/ \E c \in LifecycleCommands, t \in {"paused", "resumed", "closed"} : StartCall(c, t)
         \/ \E k \in calls : EndCall(k) \/ Transition(k) \/ \E intact \in BOOLEAN : CheckDue(k, intact)
         \/ \E a \in Actors : SignIn(a) \/ SessionEnds(a)
         \/ FallDue \/ AutoClose \/ RequestDeletion \/ \E c \in LifecycleCommands : Open(c)
  PROVE  \A g \in Runs : Find(g)' = {} <=> Find(g) = {}
<1> DEFINE Ours == \A g \in Runs : Find(g)' = {} <=> Find(g) = {}
<1>1. ASSUME log' = log PROVE Ours
  BY <1>1 DEF Find
<1>2. ASSUME NEW e \in Events, log' = Append(log, e), e.cause \in Commands \cup {AutoJob} PROVE Ours
  BY <1>2, NoAnswerFrom
<1> HIDE DEF Ours
<1>3. \A c \in Commands \cup {AutoJob}, t \in LifecycleTypes \cup {"reviewed"}, a \in Actors \cup {Clock} :
        Lifecycle(c, t, a) \in Events /\ Lifecycle(c, t, a).cause = c
  BY DEF Lifecycle, Events
<1>4. \A c \in Commands, t \in MessageTypes, a \in Actors, m \in Messages, base \in Nat :
        Message(c, t, a, m, base) \in Events /\ Message(c, t, a, m, base).cause = c
  BY DEF Message, Events
<1>5. Teacher \in Actors /\ Students \subseteq Actors /\ Commands \subseteq Messages
  BY DEF Actors, Messages
<1>6. ASSUME NEW c \in MessageCommands, MessageCommand(c) PROVE Ours
  <2>1. c \in Commands
    BY DEF Commands
  <2>2. CASE Review(c)
    <3>1. log' = Append(log, Lifecycle(c, "reviewed", Teacher))
      BY <2>2 DEF Review, Transact
    <3> QED
      BY <1>2, <1>3, <1>5, <2>1, <3>1
  <2>3. ASSUME NEW a \in Students, Add(c, a) PROVE Ours
    <3>1. log' = Append(log, Message(c, "added", a, c, 0))
      BY <2>3 DEF Add, Transact
    <3> QED
      BY <1>2, <1>4, <1>5, <2>1, <3>1 DEF MessageTypes
  <2>4. ASSUME NEW m \in Messages, NEW base \in 1 .. Len(log), NEW a \in Students, Revise(c, a, m, base)
        PROVE  Ours
    <3>1. log' = Append(log, Message(c, "revised", a, m, base)) /\ base \in Nat
      BY <2>4 DEF Revise, Transact
    <3> QED
      BY <1>2, <1>4, <1>5, <2>1, <3>1 DEF MessageTypes
  <2>5. ASSUME NEW m \in Messages, NEW base \in 1 .. Len(log), NEW a \in Actors, Retract(c, a, m, base)
        PROVE  Ours
    <3>1. log' = Append(log, Message(c, "retracted", a, m, base)) /\ base \in Nat
      BY <2>5 DEF Retract, Transact
    <3> QED
      BY <1>2, <1>4, <1>5, <2>1, <3>1 DEF MessageTypes
  <2> QED
    BY <1>6, <2>2, <2>3, <2>4, <2>5 DEF MessageCommand
<1>7. ASSUME AppendAutomaticClose PROVE Ours
  <2>1. log' = Append(log, Lifecycle(AutoJob, "closed", Clock))
    BY <1>7 DEF AppendAutomaticClose, Transact
  <2> QED
    BY <1>2, <1>3, <2>1 DEF LifecycleTypes
<1>8. ASSUME NEW k \in calls, Transition(k) PROVE Ours
  <2>1. k.cmd \in Commands /\ k.type \in LifecycleTypes
    BY DEF RoomTypeOK, Calls, LifecycleTypes
  <2>2. log' = Append(log, Lifecycle(k.cmd, k.type, Teacher))
    BY <1>8 DEF Transition, Transact
  <2> QED
    BY <1>2, <1>3, <1>5, <2>1, <2>2
<1>9. ASSUME NEW k \in calls, NEW intact \in BOOLEAN, CheckDue(k, intact) PROVE Ours
  BY <1>1, <1>7, <1>9 DEF CheckDue
<1>10. ASSUME NEW c \in LifecycleCommands, Open(c) PROVE Ours
  <2>1. log' = Append(log, Lifecycle(c, "opened", Teacher)) /\ c \in Commands
    BY <1>10 DEF Open, Transact, Commands
  <2> QED
    BY <1>2, <1>3, <1>5, <2>1 DEF LifecycleTypes
<1>11. ASSUME NEW c \in LifecycleCommands, NEW t \in {"paused", "resumed", "closed"}, StartCall(c, t)
       PROVE  Ours
  BY <1>1, <1>11 DEF StartCall
<1>12. ASSUME NEW k \in calls, EndCall(k) PROVE Ours
  BY <1>1, <1>12 DEF EndCall
<1>13. ASSUME NEW a \in Actors, SignIn(a) \/ SessionEnds(a) PROVE Ours
  BY <1>1, <1>13 DEF SignIn, SessionEnds
<1>14. ASSUME FallDue \/ RequestDeletion PROVE Ours
  BY <1>1, <1>14 DEF FallDue, RequestDeletion
<1>15. ASSUME AutoClose PROVE Ours
  BY <1>7, <1>15 DEF AutoClose
<1>16. Ours
  BY <1>6, <1>8, <1>9, <1>10, <1>11, <1>12, <1>13, <1>14, <1>15
<1> QED
  BY <1>16 DEF Ours

\* deletion cancels every live job of the room.
LEMMA DeletingCancels ==
  ASSUME CInv, DeleteRoom
  PROVE  [Q!Next]_Q!vars /\ Calm /\ \A j \in JobIds : ~Q!Live(j)'
<1>1. Q!DeleteRoom("room")
  BY DEF DeleteRoom
<1>2. Q!Next
  BY <1>1 DEF Q!Next
<1>3. /\ status' = [j \in JobIds |->
                      IF j \in {i \in JobIds : [k \in JobIds |-> "room"][i] = "room" /\ Q!Live(i)}
                        THEN "cancelled" ELSE status[j]]
      /\ effects' = effects
  BY <1>1 DEF Q!DeleteRoom, Q!CancelAll, Q!CancelRows
<1>4. \A j \in JobIds : status'[j] = IF Q!Live(j) THEN "cancelled" ELSE status[j]
  BY <1>3
<1> QED
  BY <1>2, <1>3, <1>4 DEF Calm, Q!Live

\* Requests that touch no job leave the queue alone and close no room.
LEMMA RoomOnlyStep ==
  ASSUME CInv, RoomOnly
  PROVE  [Q!Next]_Q!vars /\ Calm /\ room' = room
<1>1. UNCHANGED queueVars
  BY DEF RoomOnly
<1>2. room' = room /\ erasing' = erasing
  BY DEF RoomOnly, MessageCommand, Review, Add, Revise, Retract, StartCall, EndCall, SignIn,
         SessionEnds, FallDue
<1> QED
  BY <1>1, <1>2 DEF queueVars, Q!vars, Calm

\* The room's own transactions, the queue's own steps and the routes that refuse.
LEMMA QuietStep ==
  ASSUME CInv, [ClassNext]_classVars,
         \/ \E k \in calls : LifecycleStep(k)
         \/ RoomOnly \/ CloseIfDue \/ DeleteRoom \/ QueueOnly
         \/ \E c \in inflight : RefuseIdentity(c) \/ RefuseForNow(c) \/ RejectStale(c)
         \/ \E w \in Workers : SkipSettled(w)
         \/ UNCHANGED classVars
  PROVE  [Q!Next]_Q!vars /\ CInv'
<1>1. /\ RoomTypeOK /\ RoomTypeOK'
      /\ room = "closed" => room' = "closed"
      /\ room # "scheduled" => room' # "scheduled"
      /\ Find(AutoJob) # {} => Find(AutoJob)' # {}
  BY RoomStep, RoomMoves DEF CInv
<1> DEFINE Answers == \A g \in Runs : Find(g)' = {} <=> Find(g) = {}
           Closing == room # "closed" /\ room' = "closed" => \A j \in JobIds : ~Q!Live(j)'
           Quiet == [Q!Next]_Q!vars /\ Calm /\ UNCHANGED agentVars /\ Answers /\ Closing
<1>2. ASSUME NEW k \in calls, LifecycleStep(k) PROVE Quiet
  <2>1. Intact \in BOOLEAN
    BY DEF Intact
  <2>2. CheckDue(k, Intact) \/ Transition(k)
    BY <1>2 DEF LifecycleStep
  <2>3. Answers
    BY <1>1, <2>1, <2>2, UserStep
  <2>4. erasing' = erasing
    BY <2>2 DEF CheckDue, AppendAutomaticClose, Transition
  <2>5. CancelIfClosed /\ UNCHANGED agentVars
    BY <1>2 DEF LifecycleStep
  <2> HIDE DEF Answers
  <2> QED
    BY <2>3, <2>4, <2>5, ClosingCancels
<1>3. ASSUME RoomOnly PROVE Quiet
  <2>1. Answers
    BY <1>1, <1>3, UserStep DEF RoomOnly
  <2>2. UNCHANGED agentVars
    BY <1>3 DEF RoomOnly
  <2> HIDE DEF Answers
  <2> QED
    BY <1>3, <2>1, <2>2, RoomOnlyStep
<1>4. ASSUME CloseIfDue PROVE Quiet
  <2>1. AutoClose /\ CancelIfClosed /\ UNCHANGED agentVars
    BY <1>4 DEF CloseIfDue
  <2>2. Answers
    BY <1>1, <2>1, UserStep
  <2>3. erasing' = erasing
    BY <2>1 DEF AutoClose, AppendAutomaticClose
  <2> HIDE DEF Answers
  <2> QED
    BY <2>1, <2>2, <2>3, ClosingCancels
<1>5. ASSUME DeleteRoom PROVE Quiet
  <2>1. RequestDeletion /\ UNCHANGED agentVars
    BY <1>5 DEF DeleteRoom
  <2>2. Answers
    BY <1>1, <2>1, UserStep
  <2> HIDE DEF Answers
  <2> QED
    BY <1>5, <2>1, <2>2, DeletingCancels
<1>6. ASSUME UNCHANGED <<roomVars, agentVars>>, [Q!Next]_Q!vars, Calm PROVE Quiet
  <2>1. log' = log /\ room' = room
    BY <1>6 DEF roomVars
  <2>2. Answers
    BY <2>1 DEF Find
  <2> QED
    BY <1>6, <2>1, <2>2
<1>7. ASSUME UNCHANGED classVars PROVE Quiet
  <2>1. UNCHANGED <<roomVars, agentVars>> /\ UNCHANGED queueVars
    BY <1>7 DEF classVars
  <2>2. [Q!Next]_Q!vars /\ Calm
    BY <2>1 DEF roomVars, queueVars, Q!vars, Calm
  <2> QED
    BY <1>6, <2>1, <2>2
<1>8. QueueOnly => UNCHANGED <<roomVars, agentVars>>
  BY DEF QueueOnly
<1> HIDE DEF Quiet
<1>9. Quiet
  BY <1>2, <1>3, <1>4, <1>5, <1>6, <1>7, <1>8, QueueOnlyStep, RefusalStep
<1>10. [Q!Next]_Q!vars /\ Calm /\ UNCHANGED agentVars /\ Answers /\ Closing
  BY <1>9 DEF Quiet
<1>11. QP!IInv'
  BY <1>10, QueueStays
<1> QED
  BY <1>1, <1>10, <1>11, CalmStep

-----------------------------------------------------------------------------
(* Steps that start and settle a run.                                      *)

\* open inserts the close job.
LEMMA OpenStep ==
  ASSUME CInv, [ClassNext]_classVars, NEW c \in LifecycleCommands, OpenRoom(c)
  PROVE  [Q!Next]_Q!vars /\ CInv'
<1>1. /\ RoomTypeOK /\ RoomTypeOK'
      /\ \A g \in Runs : Find(g)' = {} <=> Find(g) = {}
  <2>1. Open(c)
    BY DEF OpenRoom
  <2> QED
    BY <2>1, RoomStep, RoomMoves, UserStep DEF CInv
<1>2. AutoJob \in JobIds /\ Runs \subseteq JobIds /\ AutoJob \notin Runs
  BY CausesAssumption DEF JobIds
<1>3. Q!Next
  BY <1>2 DEF OpenRoom, Q!QueueStep, Q!Next
<1>4. QP!IInv /\ QP!IInv'
  BY <1>3, QueueStays DEF CInv
<1>5. /\ status[AutoJob] = "absent" /\ effects' = effects
      /\ status' = [status EXCEPT ![AutoJob] = "queued"]
      /\ room = "scheduled" /\ room' = "open" /\ UNCHANGED agentVars
  BY DEF OpenRoom, Q!Enqueue, Open
<1>6. /\ \A j \in JobIds \ {AutoJob} : status'[j] = status[j]
      /\ effects[AutoJob] = 0
  BY <1>2, <1>4, <1>5, QueueSays
<1>7. AgentTypeOK' /\ AnswerIffCompleted'
  BY <1>1, <1>5 DEF CInv, AgentTypeOK, AnswerIffCompleted, agentVars
<1>8. RunsHaveJobs'
  BY <1>2, <1>5, <1>6 DEF CInv, RunsHaveJobs, agentVars
<1>9. SweptAreOver'
  BY <1>2, <1>5, <1>6 DEF CInv, SweptAreOver, AgentTypeOK, agentVars
<1>10. ClosedRoomIsQuiet' /\ CloseJobCloses'
  BY <1>5, <1>6 DEF ClosedRoomIsQuiet, CloseJobCloses
<1> QED
  BY <1>1, <1>3, <1>4, <1>7, <1>8, <1>9, <1>10 DEF CInv

\* A step that leaves the room's row and the ledger alone.
LEMMA StillRoom ==
  ASSUME CInv, UNCHANGED roomVars
  PROVE  RoomTypeOK' /\ room' = room /\ erasing' = erasing /\ \A c : Find(c)' = Find(c)
BY DEF roomVars, Find, RoomTypeOK, CInv

\* getOrCreateRunAndJob inserts the run and its job together.
LEMMA RequestStep ==
  ASSUME CInv, NEW a, NEW g \in Runs, NEW i \in 1 .. Len(log), RequestRun(a, g, i)
  PROVE  [Q!Next]_Q!vars /\ CInv'
<1>1. UNCHANGED roomVars
  BY DEF RequestRun
<1>2. RoomTypeOK' /\ room' = room /\ \A c : Find(c)' = Find(c)
  BY <1>1, StillRoom
<1>3. AutoJob \in JobIds /\ Runs \subseteq JobIds /\ AutoJob \notin Runs
  BY CausesAssumption DEF JobIds
<1>4. Q!Next
  BY <1>3 DEF RequestRun, Q!QueueStep, Q!Next
<1>5. QP!IInv /\ QP!IInv'
  BY <1>4, QueueStays DEF CInv
<1>6. /\ status[g] = "absent" /\ effects' = effects /\ run[g] = "absent" /\ room = "open"
      /\ status' = [status EXCEPT ![g] = "queued"]
      /\ run' = [run EXCEPT ![g] = "queued"] /\ trigger' = [trigger EXCEPT ![g] = i]
      /\ UNCHANGED <<enabled, sweep>>
  BY DEF RequestRun, Q!Enqueue
<1>7. run \in [Runs -> {"absent"} \cup Active \cup Settled]
  BY DEF CInv, AgentTypeOK
<1>8. /\ \A j \in JobIds \ {g} : status'[j] = status[j]
      /\ status'[g] = "queued"
      /\ run'[g] = "queued" /\ \A h \in Runs \ {g} : run'[h] = run[h]
  BY <1>3, <1>5, <1>6, <1>7, QueueSays
<1>9. AgentTypeOK'
  BY <1>6, <1>7 DEF CInv, AgentTypeOK, Active
<1>10. AnswerIffCompleted'
  BY <1>2, <1>6, <1>8 DEF CInv, AnswerIffCompleted
<1>11. RunsHaveJobs'
  BY <1>3, <1>8 DEF CInv, RunsHaveJobs
<1>12. SweptAreOver'
  BY <1>3, <1>6, <1>8 DEF CInv, SweptAreOver, AgentTypeOK
<1>13. ClosedRoomIsQuiet' /\ CloseJobCloses'
  BY <1>2, <1>3, <1>6, <1>8 DEF CInv, ClosedRoomIsQuiet, CloseJobCloses
<1> QED
  BY <1>2, <1>4, <1>5, <1>9, <1>10, <1>11, <1>12, <1>13 DEF CInv

\* cancelLocked withdraws the run and its job together.
LEMMA CancelStep ==
  ASSUME CInv, NEW g \in Runs, CancelLocked(g), ~erasing, enabled' \in BOOLEAN
  PROVE  [Q!Next]_Q!vars /\ CInv'
<1>1. UNCHANGED roomVars
  BY DEF CancelLocked
<1>2. RoomTypeOK' /\ room' = room /\ erasing' = erasing /\ \A c : Find(c)' = Find(c)
  BY <1>1, StillRoom
<1>3. AutoJob \in JobIds /\ Runs \subseteq JobIds /\ AutoJob \notin Runs
  BY CausesAssumption DEF JobIds
<1>4. /\ run[g] = "queued" /\ run' = [run EXCEPT ![g] = "cancelled"]
      /\ UNCHANGED <<trigger, sweep>> /\ Q!CancelAll({g})
  BY DEF CancelLocked, Active
<1>5. QP!IInv
  BY DEF CInv
<1>6. status[g] # "absent" /\ effects[g] = 0
  <2>1. effects[g] \in {0, 1}
    BY <1>3, <1>5, QueueSays
  <2> QED
    BY <1>4, <2>1 DEF CInv, RunsHaveJobs, AnswerIffCompleted
<1>7. Q!CancelRun(g)
  BY <1>2, <1>4, <1>6 DEF Q!CancelRun
<1>8. Q!Next
  BY <1>3, <1>7 DEF Q!Next
<1>9. QP!IInv'
  BY <1>8, QueueStays
<1>10. /\ status' = [j \in JobIds |-> IF j \in {g} THEN "cancelled" ELSE status[j]]
       /\ effects' = effects
  BY <1>4 DEF Q!CancelAll, Q!CancelRows
<1>11. run \in [Runs -> {"absent"} \cup Active \cup Settled]
  BY DEF CInv, AgentTypeOK
<1>12. /\ \A j \in JobIds \ {g} : status'[j] = status[j]
       /\ status'[g] = "cancelled"
       /\ run'[g] = "cancelled" /\ \A h \in Runs \ {g} : run'[h] = run[h]
  BY <1>3, <1>4, <1>10, <1>11
<1>13. AgentTypeOK'
  BY <1>4, <1>11 DEF CInv, AgentTypeOK, Settled
<1>14. AnswerIffCompleted'
  BY <1>2, <1>4, <1>10, <1>12 DEF CInv, AnswerIffCompleted
<1>15. RunsHaveJobs'
  BY <1>3, <1>12 DEF CInv, RunsHaveJobs
<1>16. SweptAreOver'
  BY <1>3, <1>4, <1>12 DEF CInv, SweptAreOver, AgentTypeOK
<1>17. ClosedRoomIsQuiet' /\ CloseJobCloses'
  BY <1>2, <1>3, <1>10, <1>12 DEF CInv, ClosedRoomIsQuiet, CloseJobCloses, Q!Live
<1> QED
  BY <1>2, <1>8, <1>9, <1>13, <1>14, <1>15, <1>16, <1>17 DEF CInv

\* The teacher's requests about runs.
LEMMA TeacherStep ==
  ASSUME CInv, (\E g \in Runs : CancelRun(g)) \/ (\E e \in BOOLEAN : SetEnabled(e))
  PROVE  [Q!Next]_Q!vars /\ CInv'
<1>1. enabled \in BOOLEAN
  BY DEF CInv, AgentTypeOK
<1>2. ASSUME NEW g \in Runs, CancelRun(g) PROVE [Q!Next]_Q!vars /\ CInv'
  BY <1>1, <1>2, CancelStep DEF CancelRun
<1>3. ASSUME NEW e \in BOOLEAN, SetEnabled(e) PROVE [Q!Next]_Q!vars /\ CInv'
  <2>1. ~erasing /\ enabled' \in BOOLEAN
    BY <1>3 DEF SetEnabled
  <2>2. CASE \E g \in Runs : CancelLocked(g)
    BY <2>1, <2>2, CancelStep
  <2>3. CASE UNCHANGED <<roomVars, queueVars, run, trigger, sweep>>
    <3>1. RoomTypeOK' /\ room' = room /\ erasing' = erasing /\ \A c : Find(c)' = Find(c)
      BY <2>3, StillRoom
    <3>2. UNCHANGED Q!vars
      BY <2>3, <3>1 DEF queueVars, Q!vars
    <3>3. QP!IInv'
      BY <3>2, QueueStays
    <3>4. AgentTypeOK'
      BY <2>1, <2>3 DEF CInv, AgentTypeOK
    <3>5. AnswerIffCompleted' /\ RunsHaveJobs' /\ SweptAreOver'
      BY <2>3, <3>1 DEF CInv, AnswerIffCompleted, RunsHaveJobs, SweptAreOver, queueVars
    <3>6. ClosedRoomIsQuiet' /\ CloseJobCloses'
      BY <2>3, <3>1 DEF CInv, ClosedRoomIsQuiet, CloseJobCloses, Q!Live, queueVars
    <3> QED
      BY <3>1, <3>2, <3>3, <3>4, <3>5, <3>6 DEF CInv
  <2> QED
    BY <1>3, <2>2, <2>3 DEF SetEnabled
<1> QED
  BY <1>2, <1>3

\* AgentRunReconciler selects runs whose job can no longer finish, and settles them.
LEMMA ReconcilerStep ==
  ASSUME CInv, (\E g \in Runs : SelectOrphan(g)) \/ (\E o \in sweep : SettleOrphan(o))
  PROVE  [Q!Next]_Q!vars /\ CInv'
<1>1. UNCHANGED <<roomVars, queueVars, trigger, enabled>>
  BY DEF SelectOrphan, SettleOrphan
<1>2. RoomTypeOK' /\ room' = room /\ erasing' = erasing /\ \A c : Find(c)' = Find(c)
  BY <1>1, StillRoom
<1>3. UNCHANGED Q!vars
  BY <1>1, <1>2 DEF queueVars, Q!vars
<1>4. QP!IInv'
  BY <1>3, QueueStays
<1>5. ClosedRoomIsQuiet' /\ CloseJobCloses'
  BY <1>1, <1>2 DEF CInv, ClosedRoomIsQuiet, CloseJobCloses, Q!Live, queueVars
<1>6. AutoJob \in JobIds /\ Runs \subseteq JobIds /\ AutoJob \notin Runs
  BY CausesAssumption DEF JobIds
<1> DEFINE Good == AgentTypeOK' /\ AnswerIffCompleted' /\ RunsHaveJobs' /\ SweptAreOver'
<1>7. ASSUME NEW g \in Runs, SelectOrphan(g) PROVE Good
  <2>1. /\ run[g] = "queued" /\ run' = run
        /\ room = "closed" \/ status[g] \in {"dead", "cancelled"}
        /\ \E s \in {"failed", "cancelled"} : sweep' = sweep \cup {<<g, s>>}
    BY <1>7 DEF SelectOrphan, Active, Orphan
  <2>2. status[g] \in {"dead", "cancelled"}
    <3>1. /\ status[g] \in {"absent", "queued", "running", "succeeded", "retryable", "dead", "cancelled"}
          /\ status[g] = "succeeded" => effects[g] = 1
      BY <1>6, QueueSays DEF CInv
    <3>2. status[g] # "absent" /\ effects[g] # 1
      BY <2>1 DEF CInv, RunsHaveJobs, AnswerIffCompleted
    <3>3. room = "closed" => status[g] \notin {"queued", "running", "retryable"}
      BY <1>6 DEF CInv, ClosedRoomIsQuiet, Q!Live
    <3> QED
      BY <2>1, <3>1, <3>2, <3>3
  <2>3. AgentTypeOK'
    BY <1>1, <2>1 DEF CInv, AgentTypeOK
  <2>4. AnswerIffCompleted' /\ RunsHaveJobs'
    BY <1>1, <1>2, <2>1 DEF CInv, AnswerIffCompleted, RunsHaveJobs, queueVars
  <2>5. SweptAreOver'
    BY <1>1, <2>1, <2>2 DEF CInv, SweptAreOver, queueVars
  <2> QED
    BY <2>3, <2>4, <2>5
<1>8. ASSUME NEW o \in sweep, SettleOrphan(o) PROVE Good
  <2>1. o[1] \in Runs /\ o[2] \in {"failed", "cancelled"} /\ status[o[1]] \in {"dead", "cancelled"}
    BY DEF CInv, AgentTypeOK, SweptAreOver
  <2>2. /\ sweep' \subseteq sweep
        /\ run' = [run EXCEPT ![o[1]] = IF run[o[1]] \in Active THEN o[2] ELSE run[o[1]]]
    BY <1>8 DEF SettleOrphan
  <2>3. run \in [Runs -> {"absent"} \cup Active \cup Settled]
    BY DEF CInv, AgentTypeOK
  <2>4. \A g \in Runs : \/ run'[g] = run[g]
                        \/ /\ run[g] = "queued" /\ run'[g] \in {"failed", "cancelled"}
                           /\ status[g] \in {"dead", "cancelled"}
    BY <2>1, <2>2, <2>3 DEF Active
  <2>5. AgentTypeOK'
    BY <1>1, <2>1, <2>2, <2>3 DEF CInv, AgentTypeOK, Settled
  <2>6. AnswerIffCompleted'
    BY <1>1, <1>2, <2>4 DEF CInv, AnswerIffCompleted, queueVars
  <2>7. RunsHaveJobs'
    BY <1>1, <2>4 DEF CInv, RunsHaveJobs, queueVars
  <2>8. SweptAreOver'
    BY <1>1, <2>2 DEF CInv, SweptAreOver, queueVars
  <2> QED
    BY <2>5, <2>6, <2>7, <2>8
<1> HIDE DEF Good
<1>9. Good
  BY <1>7, <1>8
<1> QED
  BY <1>2, <1>3, <1>4, <1>5, <1>9 DEF CInv, Good

\* /internal/agent/complete: the answer, the run's state and the receipt commit
\* together.  A claim that is still current has not committed, so its answer is new.
LEMMA CompleteStep ==
  ASSUME CInv, [ClassNext]_classVars, NEW c \in inflight, CompleteRun(c)
  PROVE  [Q!Next]_Q!vars /\ CInv'
<1> DEFINE g == c[1]
<1>1. AutoJob \in JobIds /\ Runs \subseteq JobIds /\ AutoJob \notin Runs
  BY CausesAssumption DEF JobIds
<1>2. g \in Runs /\ ~erasing /\ Q!Current(c) /\ Q!Commit(c)
  BY DEF CompleteRun
<1>3. effects[g] = 0
  BY <1>2, FenceSays DEF CInv
<1>4. Find(g) = {}
  BY <1>2, <1>3 DEF CInv, AnswerIffCompleted
<1>5. /\ run[g] \in Active /\ AgentAnswer(g) /\ run' = [run EXCEPT ![g] = "completed"]
      /\ UNCHANGED <<trigger, enabled, sweep>>
  BY <1>4 DEF CompleteRun
<1>6. /\ effects' = [effects EXCEPT ![g] = effects[g] + 1] /\ status' = status
  BY <1>2 DEF Q!Commit, Q!CompleteBusiness
<1>7. Q!Next
  <2>1. Q!RequestStep(c)
    BY <1>2 DEF Q!RequestStep
  <2> QED
    BY <2>1 DEF Q!Next
<1>8. QP!IInv /\ QP!IInv'
  BY <1>7, QueueStays DEF CInv
<1>9. RoomTypeOK /\ RoomTypeOK'
  BY RoomStep, RoomMoves DEF CInv
<1>10. /\ room' = room /\ room \in {"open", "paused"}
       /\ log' = Append(log, Message(g, "added", Nova, g, 0))
  BY <1>5 DEF AgentAnswer, Transact
<1>11. /\ Find(g)' # {}
       /\ \A h \in JobIds \ {g} : Find(h)' = Find(h)
  <2>1. Message(g, "added", Nova, g, 0) \in Events /\ Message(g, "added", Nova, g, 0).cause = g
    BY <1>2 DEF Message, Events, Messages, MessageTypes
  <2> HIDE DEF g
  <2> QED
    BY <1>9, <1>10, <2>1, CauseAdded DEF RoomTypeOK
<1>12. /\ run \in [Runs -> {"absent"} \cup Active \cup Settled]
       /\ effects \in [JobIds -> Nat]
  BY <1>8, QueueSays DEF CInv, AgentTypeOK
<1>13. /\ run'[g] = "completed" /\ \A h \in Runs \ {g} : run'[h] = run[h]
       /\ effects'[g] = 1 /\ \A j \in JobIds \ {g} : effects'[j] = effects[j]
  BY <1>1, <1>2, <1>3, <1>5, <1>6, <1>12
<1>14. AgentTypeOK'
  BY <1>5, <1>12 DEF CInv, AgentTypeOK, Settled
<1>15. AnswerIffCompleted'
  BY <1>1, <1>11, <1>13 DEF CInv, AnswerIffCompleted
<1>16. RunsHaveJobs' /\ SweptAreOver'
  BY <1>2, <1>5, <1>6, <1>13 DEF CInv, RunsHaveJobs, SweptAreOver, Q!Current
<1>17. ClosedRoomIsQuiet' /\ CloseJobCloses'
  BY <1>1, <1>2, <1>6, <1>10, <1>11, <1>13 DEF CInv, ClosedRoomIsQuiet, CloseJobCloses
<1> QED
  BY <1>7, <1>8, <1>9, <1>14, <1>15, <1>16, <1>17 DEF CInv

\* /internal/rooms/auto-close: a current close job finds its room not yet closed,
\* closes it, withdraws its other jobs and commits.
LEMMA CloseStep ==
  ASSUME CInv, [ClassNext]_classVars, NEW c \in inflight, CloseOverdue(c)
  PROVE  [Q!Next]_Q!vars /\ CInv'
<1>1. AutoJob \in JobIds /\ Runs \subseteq JobIds /\ AutoJob \notin Runs
  BY CausesAssumption DEF JobIds
<1>2. c[1] = AutoJob /\ Q!Current(c) /\ UNCHANGED agentVars
  BY DEF CloseOverdue
<1>3. effects[AutoJob] = 0 /\ status[AutoJob] = "running"
  BY <1>2, FenceSays DEF CInv, Q!Current
<1>4. room \in {"open", "paused"}
  BY <1>1, <1>3 DEF CInv, ClosedRoomIsQuiet, CloseJobCloses, Q!Live, RoomTypeOK, RoomStatus
<1>5. AutoClose /\ Q!CommitClosing(c)
  BY <1>4 DEF CloseOverdue
<1>6. /\ effects' = [effects EXCEPT ![AutoJob] = effects[AutoJob] + 1]
      /\ status' = [j \in JobIds |-> IF j \in Q!Withdrawn("room") \ {AutoJob} THEN "cancelled"
                                     ELSE status[j]]
  BY <1>1, <1>2, <1>5 DEF Q!CommitClosing, Q!CompleteBusiness, Q!CancelRows
<1>7. Q!Next
  <2>1. Q!RequestStep(c)
    BY <1>5 DEF Q!RequestStep
  <2> QED
    BY <2>1 DEF Q!Next
<1>8. QP!IInv /\ QP!IInv'
  BY <1>7, QueueStays DEF CInv
<1>9. RoomTypeOK /\ RoomTypeOK' /\ \A g \in Runs : Find(g)' = {} <=> Find(g) = {}
  BY <1>5, RoomStep, RoomMoves, UserStep DEF CInv
<1>10. room' = "closed" /\ log' = Append(log, Lifecycle(AutoJob, "closed", Clock))
  BY <1>5 DEF AutoClose, AppendAutomaticClose, Transact
<1>11. Find(AutoJob)' # {}
  <2>1. /\ Lifecycle(AutoJob, "closed", Clock) \in Events
        /\ Lifecycle(AutoJob, "closed", Clock).cause = AutoJob
    BY DEF Lifecycle, Events, LifecycleTypes
  <2> QED
    BY <1>9, <1>10, <2>1, CauseAdded DEF RoomTypeOK
<1>12. Q!Withdrawn("room") = {j \in JobIds : Q!Live(j)}
  BY DEF Q!Withdrawn, Q!Analytics
<1>13. /\ \A j \in JobIds \ {AutoJob} : status'[j] = IF Q!Live(j) THEN "cancelled" ELSE status[j]
       /\ \A j \in JobIds \ {AutoJob} : effects'[j] = effects[j]
       /\ effects'[AutoJob] = 1
  <2>1. effects \in [JobIds -> Nat]
    BY <1>8, QueueSays
  <2> QED
    BY <1>1, <1>3, <1>6, <1>12, <2>1
<1>14. AgentTypeOK' /\ AnswerIffCompleted'
  BY <1>1, <1>2, <1>9, <1>13 DEF CInv, AgentTypeOK, AnswerIffCompleted, agentVars
<1>15. RunsHaveJobs' /\ SweptAreOver'
  BY <1>1, <1>2, <1>13 DEF CInv, RunsHaveJobs, SweptAreOver, AgentTypeOK, agentVars, Q!Live
<1>16. ClosedRoomIsQuiet' /\ CloseJobCloses'
  BY <1>10, <1>11, <1>13 DEF ClosedRoomIsQuiet, CloseJobCloses, Q!Live
<1> QED
  BY <1>7, <1>8, <1>9, <1>14, <1>15, <1>16 DEF CInv

-----------------------------------------------------------------------------
(* The composition.                                                        *)

\* The classroom starts in order ...
LEMMA InitCInv == ClassInit => CInv
<1> SUFFICES ASSUME ClassInit PROVE CInv
  OBVIOUS
<1>1. AutoJob \in JobIds /\ Runs \subseteq JobIds
  BY DEF JobIds
<1>2. QP!IInv
  BY SameInit, QP!InitIInv, QueueAssumptions DEF ClassInit
<1>3. RoomInit /\ run = [g \in Runs |-> "absent"] /\ trigger = [g \in Runs |-> 0]
      /\ enabled = TRUE /\ sweep = {}
  BY DEF ClassInit
<1>4. status = [j \in JobIds |-> "absent"] /\ effects = [j \in JobIds |-> 0]
  BY DEF ClassInit, Q!Init
<1>5. RoomTypeOK
  <2>1. log \in Seq(Events)
    BY <1>3 DEF RoomInit
  <2> QED
    BY <1>3, <2>1 DEF RoomInit, RoomTypeOK, RoomStatus, Actors
<1>6. \A c : Find(c) = {}
  BY <1>3 DEF RoomInit, Find
<1>7. AgentTypeOK /\ AnswerIffCompleted /\ RunsHaveJobs /\ SweptAreOver
  BY <1>1, <1>3, <1>4, <1>6 DEF AgentTypeOK, AnswerIffCompleted, RunsHaveJobs, SweptAreOver
<1>8. ClosedRoomIsQuiet /\ CloseJobCloses
  BY <1>1, <1>3, <1>4 DEF RoomInit, ClosedRoomIsQuiet, CloseJobCloses
<1> QED
  BY <1>2, <1>5, <1>7, <1>8 DEF CInv

\* ... every transaction keeps it so, and is a transaction of the queue.
LEMMA NextCInv ==
  CInv /\ [ClassNext]_classVars => [Q!Next]_Q!vars /\ CInv'
<1> SUFFICES ASSUME CInv, [ClassNext]_classVars PROVE [Q!Next]_Q!vars /\ CInv'
  OBVIOUS
<1> DEFINE Kept == [Q!Next]_Q!vars /\ CInv'
<1>1. ASSUME NEW c \in LifecycleCommands, OpenRoom(c) PROVE Kept
  BY <1>1, OpenStep
<1>2. ASSUME NEW a \in Actors, NEW g \in Runs, NEW i \in 1 .. Len(log), RequestRun(a, g, i) PROVE Kept
  BY <1>2, RequestStep
<1>3. ASSUME NEW c \in inflight, CompleteRun(c) PROVE Kept
  BY <1>3, CompleteStep
<1>4. ASSUME NEW c \in inflight, CloseOverdue(c) PROVE Kept
  BY <1>4, CloseStep
<1>5. ASSUME (\E g \in Runs : CancelRun(g)) \/ (\E e \in BOOLEAN : SetEnabled(e)) PROVE Kept
  BY <1>5, TeacherStep
<1>6. ASSUME (\E g \in Runs : SelectOrphan(g)) \/ (\E o \in sweep : SettleOrphan(o)) PROVE Kept
  BY <1>6, ReconcilerStep
<1>7. ASSUME \/ \E k \in calls : LifecycleStep(k)
             \/ RoomOnly \/ CloseIfDue \/ DeleteRoom \/ QueueOnly
             \/ \E c \in inflight : RefuseIdentity(c) \/ RefuseForNow(c) \/ RejectStale(c)
             \/ \E w \in Workers : SkipSettled(w)
             \/ UNCHANGED classVars
      PROVE  Kept
  BY <1>7, QuietStep
<1> HIDE DEF Kept
<1>8. Kept
  BY <1>1, <1>2, <1>3, <1>4, <1>5, <1>6, <1>7 DEF ClassNext, Route
<1> QED
  BY <1>8 DEF Kept

\* The strengthened invariant holds in every state.
THEOREM ClassInvariant == ClassSpec => []CInv
<1>1. CInv /\ [ClassNext]_classVars => CInv'
  BY NextCInv
<1> QED
  BY <1>1, InitCInv, PTL DEF ClassSpec

\* Room, runs and queue tell one story (agent-repository.ts,
\* internal-auto-close-route.ts), for any number of runs, workers and attempts: Nova's
\* answer is in the ledger exactly when its run is completed and its job has committed,
\* a closed room leaves no work behind and its close job is honest.
THEOREM OneStory == ClassSpec => []ClassroomSafe
<1>1. CInv => ClassroomSafe
  <2> SUFFICES ASSUME CInv PROVE ClassroomSafe
    OBVIOUS
  <2>1. AutoJob \in JobIds
    BY DEF JobIds
  <2>2. status[AutoJob] = "succeeded" => effects[AutoJob] = 1
    BY <2>1, QueueSays DEF CInv
  <2>3. CloseJobHonest
    BY <2>2 DEF CInv, CloseJobCloses, CloseJobHonest
  <2> QED
    BY <2>3 DEF CInv, ClassroomSafe
<1> QED
  BY <1>1, ClassInvariant, PTL

\* The transactions that touch room and queue together respect the queue's own rules:
\* the composed system implements JobQueue, so what JobQueueProofs proves of the queue
\* holds in the classroom.
THEOREM ImplementsQueue == ClassSpec => QueueSpec
<1>1. ClassInit => Q!Init
  BY DEF ClassInit
<1>2. CInv /\ [ClassNext]_classVars => [Q!Next]_Q!vars
  BY NextCInv
<1> QED
  BY <1>1, <1>2, ClassInvariant, PTL DEF ClassSpec, QueueSpec, Q!Spec

\* The composed system implements RoomLedger ...
THEOREM ImplementsRoom == ClassSpec => RoomSpec
<1>1. ClassInit => RoomInit
  BY DEF ClassInit
<1> QED
  BY <1>1, RoomStep, PTL DEF ClassSpec, RoomSpec

\* ... so its ledger is sound while jobs, runs and sweeps interleave with the users.
THEOREM ClassroomLedgerIsSound == ClassSpec => []RoomSound
  BY ImplementsRoom, LedgerIsSound, PTL

\* A settled run stays as it was settled, whichever of the teacher, the worker and a
\* reconciler sweep that selected it earlier comes last.
THEOREM RunSettledOnce == ClassSpec => SettledRunStays
<1> DEFINE Stays == \A g \in Runs : run[g] \in Settled => run'[g] = run[g]
<1>1. ASSUME AgentTypeOK, [ClassNext]_classVars PROVE Stays
  <2>1. run \in [Runs -> {"absent"} \cup Active \cup Settled] /\ sweep \subseteq Runs \X {"failed", "cancelled"}
    BY <1>1 DEF AgentTypeOK
  <2>2. ASSUME run' = run PROVE Stays
    BY <2>2
  <2>3. ASSUME NEW g \in Runs, NEW s, run[g] \notin Settled, run' = [run EXCEPT ![g] = s] PROVE Stays
    BY <2>1, <2>3
  <2>4. "absent" \notin Settled /\ \A s \in Active : s \notin Settled
    BY DEF Settled, Active
  <2>5. ASSUME NEW g \in Runs, CancelLocked(g) PROVE Stays
    BY <2>3, <2>4, <2>5 DEF CancelLocked
  <2>6. ASSUME NEW a \in Actors, NEW g \in Runs, NEW i \in 1 .. Len(log), RequestRun(a, g, i) PROVE Stays
    BY <2>3, <2>4, <2>6 DEF RequestRun
  <2>7. ASSUME NEW o \in sweep, SettleOrphan(o) PROVE Stays
    <3>1. run' = [run EXCEPT ![o[1]] = IF run[o[1]] \in Active THEN o[2] ELSE run[o[1]]] /\ o[1] \in Runs
      BY <2>1, <2>7 DEF SettleOrphan
    <3> QED
      BY <2>1, <2>4, <3>1
  <2>8. ASSUME NEW c \in inflight, CompleteRun(c) PROVE Stays
    <3>1. CASE UNCHANGED agentVars
      BY <2>2, <3>1 DEF agentVars
    <3>2. CASE c[1] \in Runs /\ run[c[1]] \in Active /\ run' = [run EXCEPT ![c[1]] = "completed"]
      BY <2>3, <2>4, <3>2
    <3> QED
      BY <2>8, <3>1, <3>2 DEF CompleteRun
  <2> HIDE DEF Stays
  <2>9. CASE UNCHANGED agentVars
    BY <2>2, <2>9 DEF agentVars
  <2>10. ASSUME NEW g \in Runs, CancelRun(g) \/ SelectOrphan(g) PROVE Stays
    BY <2>2, <2>5, <2>10 DEF CancelRun, SelectOrphan
  <2>11. ASSUME NEW e \in BOOLEAN, SetEnabled(e) PROVE Stays
    BY <2>2, <2>5, <2>11 DEF SetEnabled
  <2>12. ASSUME NEW c \in inflight, Route(c) PROVE Stays
    BY <2>8, <2>9, <2>12 DEF Route, CloseOverdue, RefuseIdentity, RefuseForNow, RejectStale
  <2>13. ASSUME \/ \E c \in LifecycleCommands : OpenRoom(c)
                \/ \E k \in calls : LifecycleStep(k)
                \/ RoomOnly \/ CloseIfDue \/ DeleteRoom \/ QueueOnly
                \/ \E w \in Workers : SkipSettled(w)
                \/ UNCHANGED classVars
         PROVE  UNCHANGED agentVars
    BY <2>13 DEF OpenRoom, LifecycleStep, RoomOnly, CloseIfDue, DeleteRoom, QueueOnly,
       SkipSettled, classVars
  <2> QED
    BY <1>1, <2>6, <2>7, <2>9, <2>10, <2>11, <2>12, <2>13 DEF ClassNext
<1>2. CInv /\ [ClassNext]_classVars => [Stays]_classVars
  BY <1>1 DEF CInv
<1> QED
  BY <1>2, ClassInvariant, PTL DEF ClassSpec, SettledRunStays
===============================================================================

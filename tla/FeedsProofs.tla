------------------------------ MODULE FeedsProofs ------------------------------
(***************************************************************************)
(* Proofs about what follows the room on other clocks: the student's       *)
(* analytics panel (Visibility), the teacher's review console (Console) and *)
(* the status of Nova a page shows (Nova), for any number of promotions,   *)
(* versions, faults, frames, runs, texts and requests.                     *)
(***************************************************************************)
EXTENDS Visibility, Console, Nova, FiniteSetTheorems, SequenceTheorems,
        WellFoundedInduction, TLAPS

\* The bounds the counters keep between each other.
Counted ==
  /\ era <= promo.revision /\ (promo.state = "pending" => era < promo.revision)
  /\ head.epoch + head.version <= installs + 2
  /\ \A i \in DOMAIN notices : notices[i].revision <= promo.revision

\* Whatever tells the browser of a withdrawal names an era that is over.
ToldWhatIsOver ==
  /\ told <= Over
  /\ \A over \in announces : over <= Over
  /\ \A i \in DOMAIN wire : wire[i].type = "degraded" => wire[i].era <= Over

\* #projectionTask aborts the earlier task of the key.
OneTask == \A t, u \in tasks : t = u

\* An answer under way was authorised after the last withdrawal the browser knows
\* of, is not newer than the head and not older than what is shown.
AnswersCurrent ==
  \A t \in tasks : t.state = "content" =>
    /\ t.answer \in Content /\ t.answer.era > told
    /\ ~Older(head, t.answer)
    /\ slot.snapshot # None => ~Older(t.answer, slot.snapshot)

ShownIsCurrent ==
  slot.snapshot # None => slot.snapshot.era > told /\ ~Older(head, slot.snapshot)

VInv ==
  /\ VisibilityTypeOK
  /\ Counted /\ ToldWhatIsOver /\ OneTask /\ AnswersCurrent /\ ShownIsCurrent

-----------------------------------------------------------------------------
(* What the steps are made of.                                             *)

\* A row that may follow the present one: a new revision, or time has passed.
NextRow(p) ==
  \/ p.revision = promo.revision + 1
  \/ p.revision = promo.revision /\ p.state = "expired"
  \/ p.revision = promo.revision /\ p.state = "live" /\ promo.state = "pending"

\* A change of the row never makes an era over that was not, and the last era that
\* is over never goes back.
LEMMA RowTurns ==
  ASSUME VInv, NEW p \in Promotions, NEW announced \in BOOLEAN, Turned(p, announced),
         NextRow(p)
  PROVE  /\ promo' = p /\ promo.revision <= p.revision
         /\ era' \in 1..MaxRevision /\ era' <= p.revision /\ era <= era'
         /\ p.state = "pending" => era' < p.revision
         /\ withdrawn' \in 0..era' /\ told \in 0..era'
         /\ Over <= Over'
<1>1. /\ promo \in Promotions /\ era \in 1..MaxRevision /\ era <= promo.revision
      /\ promo.state = "pending" => era < promo.revision
      /\ withdrawn \in 0..era /\ told \in 0..era
  BY DEF VInv, VisibilityTypeOK, Counted
<1>2. p.revision \in 1..MaxRevision /\ promo.revision \in 1..MaxRevision /\ MaxRevision \in Nat
  BY <1>1, VisibilityAssumption DEF Promotions
<1>3. promo' = p /\ (era' = era \/ (era' = era + 1 /\ Allowed(p) /\ ~Allowed(promo)))
  BY DEF Turned
<1>4. /\ era' = era + 1 => p.revision = promo.revision + 1 \/ promo.state = "pending"
      /\ p.state = "pending" => era' = era /\ p.revision = promo.revision + 1
      /\ p.revision = promo.revision + 1 \/ p.revision = promo.revision
  BY <1>1, <1>3 DEF Allowed, NextRow
<1>5. /\ era' \in 1..MaxRevision /\ era' <= p.revision /\ era <= era'
      /\ p.state = "pending" => era' < p.revision
  BY <1>1, <1>2, <1>3, <1>4
<1>6. withdrawn' \in 0..era' /\ told \in 0..era'
  <2>1. withdrawn' = era \/ withdrawn' = withdrawn
    BY DEF Turned
  <2> QED
    BY <1>1, <1>2, <1>5, <2>1
<1>7. Over <= Over'
  <2>1. CASE Allowed(p) /\ ~Allowed(promo)
    BY <1>1, <1>3, <2>1 DEF Over, Turned
  <2>2. CASE ~(Allowed(p) /\ ~Allowed(promo))
    BY <1>1, <1>3, <2>2 DEF Over, Turned
  <2> QED
    BY <2>1, <2>2
<1>8. promo.revision <= p.revision
  BY <1>2, <1>4
<1> QED
  BY <1>3, <1>5, <1>6, <1>7, <1>8

\* A frame is appended, or the socket is down.
LEMMA WireGrows ==
  ASSUME wire \in Seq(Frame), NEW msg \in Frame, Push(msg)
  PROVE  /\ wire' \in Seq(Frame)
         /\ \A i \in DOMAIN wire' : wire'[i] = msg \/ \E j \in DOMAIN wire : wire'[i] = wire[j]
<1>1. CASE wire' = wire
  BY <1>1
<1>2. CASE wire' = Append(wire, msg)
  BY <1>2
<1> QED
  BY <1>1, <1>2 DEF Push

\* The shapes of frames.
LEMMA FrameShapes ==
  /\ \A ptr \in Pointer : [type |-> "projection", pointer |-> ptr] \in Frame
  /\ \A over \in 0..MaxRevision : [type |-> "degraded", era |-> over] \in Frame
  /\ [type |-> "resume_complete"] \in Frame
  /\ \A msg \in Frame :
        /\ msg.type \in {"projection", "degraded", "resume_complete"}
        /\ msg.type = "projection" => msg.pointer \in Pointer
        /\ msg.type = "degraded" => msg.era \in 0..MaxRevision
BY DEF Frame

\* Over is an era, or none.
LEMMA OverType == VInv => Over \in 0..era /\ Over \in 0..MaxRevision /\ (Allowed(promo) => Over = era - 1)
<1> SUFFICES ASSUME VInv
             PROVE  Over \in 0..era /\ Over \in 0..MaxRevision /\ (Allowed(promo) => Over = era - 1)
  OBVIOUS
<1>1. era \in 1..MaxRevision /\ MaxRevision \in Nat
  BY VisibilityAssumption DEF VInv, VisibilityTypeOK
<1>2. CASE Allowed(promo)
  BY <1>1, <1>2 DEF Over
<1>3. CASE ~Allowed(promo)
  BY <1>1, <1>3 DEF Over
<1> QED
  BY <1>2, <1>3

\* None is neither a pointer nor content.
LEMMA NoneApart == None \notin Pointer /\ None \notin Content
<1>1. 1..(MaxInstalls + 1) \subseteq Nat /\ 1..MaxRevision \subseteq Nat
  BY VisibilityAssumption
<1>2. Pointer \subseteq [epoch : Nat, version : Nat]
  BY <1>1 DEF Pointer
<1>3. Content \subseteq [epoch : Nat, version : Nat, era : Nat]
  BY <1>1 DEF Content
<1> QED
  BY <1>2, <1>3, VisibilityAssumption

\* Older is a strict order on what a panel may show.
LEMMA Versions ==
  /\ \A c \in Content \cup Pointer : c.epoch \in 1..(MaxInstalls + 1) /\ c.version \in 1..(MaxInstalls + 1)
  /\ \A a, b, c \in Content \cup Pointer : ~Older(a, b) /\ ~Older(b, c) => ~Older(a, c)
<1>1. \A c \in Content \cup Pointer : c.epoch \in 1..(MaxInstalls + 1) /\ c.version \in 1..(MaxInstalls + 1)
  BY DEF Content, Pointer
<1>2. MaxInstalls \in Nat
  BY VisibilityAssumption
<1> QED
  BY <1>1, <1>2 DEF Older

\* A task asked for the latest snapshot has no answer yet.
LEMMA LatestType ==
  ASSUME NEW target \in Pointer \cup {None}
  PROVE  Latest(target) \in Tasks /\ Latest(target).state = "asked"
BY VisibilityAssumption DEF Latest, Tasks

-----------------------------------------------------------------------------
(* The server's steps.                                                     *)

\* Steps that leave the projection, the answers and the slot alone.
LEMMA SameAnswers ==
  ASSUME VInv, UNCHANGED <<head, slot, tasks, told>>
  PROVE  OneTask' /\ AnswersCurrent' /\ ShownIsCurrent'
BY DEF VInv, OneTask, AnswersCurrent, ShownIsCurrent

\* A notice is appended, or nobody listens.
LEMMA NoticesGrow ==
  ASSUME notices \in Seq(Notices), NEW r \in 1..MaxRevision, NEW changed \in BOOLEAN,
         notices' = Notified(r, changed)
  PROVE  /\ notices' \in Seq(Notices)
         /\ \A i \in DOMAIN notices' :
              notices'[i].revision = r \/ \E j \in DOMAIN notices : notices'[i] = notices[j]
<1> DEFINE n == [revision |-> r, keys |-> IF changed THEN 1 ELSE 0]
<1>1. n \in Notices /\ n.revision = r
  BY DEF Notices
<1>2. CASE notices' = notices
  BY <1>2
<1>3. CASE notices' = Append(notices, n)
  <2> HIDE DEF n
  <2> QED
    BY <1>1, <1>3
<1> QED
  BY <1>2, <1>3 DEF Notified

\* A change of the promotion row, with or without its notification.
LEMMA RowStep ==
  ASSUME VInv, NEW p \in Promotions, NEW announced \in BOOLEAN, NEW changed \in BOOLEAN,
         Turned(p, announced),
         NextRow(p),
         notices' = notices \/ notices' = Notified(p.revision, changed),
         UNCHANGED <<listener, seen, announces, missed>>
  PROVE  VInv'
<1>1. /\ promo' = p /\ promo.revision <= p.revision
      /\ era' \in 1..MaxRevision /\ era' <= p.revision /\ era <= era'
      /\ p.state = "pending" => era' < p.revision
      /\ withdrawn' \in 0..era' /\ told \in 0..era'
      /\ Over <= Over'
  BY RowTurns
<1>2. UNCHANGED <<serverVars, faultVars, socket, wire, clientVars>>
  BY DEF Turned
<1>3. p.revision \in 1..MaxRevision /\ promo.revision \in 1..MaxRevision /\ MaxRevision \in Nat
  BY VisibilityAssumption DEF VInv, VisibilityTypeOK, Promotions
<1>4. /\ notices' \in Seq(Notices)
      /\ \A i \in DOMAIN notices' : notices'[i].revision <= p.revision
  <2>1. notices \in Seq(Notices) /\ \A i \in DOMAIN notices : notices[i].revision <= promo.revision
    BY DEF VInv, VisibilityTypeOK, Counted
  <2>2. \A i \in DOMAIN notices : notices[i].revision \in 1..MaxRevision
    <3>1. \A n \in Notices : n.revision \in 1..MaxRevision
      BY DEF Notices
    <3> QED
      BY <2>1, <3>1, ElementOfSeq
  <2>3. CASE notices' = notices
    BY <1>1, <1>3, <2>1, <2>2, <2>3
  <2>4. CASE notices' = Notified(p.revision, changed)
    <3>1. /\ notices' \in Seq(Notices)
          /\ \A i \in DOMAIN notices' :
               notices'[i].revision = p.revision \/ \E j \in DOMAIN notices : notices'[i] = notices[j]
      BY <1>3, <2>1, <2>4, NoticesGrow
    <3> QED
      BY <1>1, <1>3, <2>1, <2>2, <3>1
  <2> QED
    BY <2>3, <2>4
<1>5. VisibilityTypeOK'
  <2>1. seen' \in 0..p.revision
    <3>1. seen \in 0..promo.revision
      BY DEF VInv, VisibilityTypeOK
    <3> QED
      BY <1>1, <1>3, <3>1
  <2> QED
    BY <1>1, <1>2, <1>4, <2>1
    DEF VInv, VisibilityTypeOK, serverVars, faultVars, clientVars
<1>6. Counted'
  BY <1>1, <1>2, <1>4 DEF VInv, Counted, serverVars
<1>7. ToldWhatIsOver'
  <2>1. Over \in 0..MaxRevision /\ Over' \in Int
    <3>1. Over \in 0..MaxRevision
      BY OverType
    <3>2. Over' \in Int
      BY <1>1, <1>3 DEF Over
    <3> QED
      BY <3>1, <3>2
  <2>2. \A i \in DOMAIN wire : wire[i].type = "degraded" => wire[i].era \in Int
    BY FrameShapes, <1>3 DEF VInv, VisibilityTypeOK
  <2>3. told \in Int /\ announces \subseteq Int
    BY <1>3 DEF VInv, VisibilityTypeOK
  <2>4. /\ told <= Over
        /\ \A over \in announces : over <= Over
        /\ \A i \in DOMAIN wire : wire[i].type = "degraded" => wire[i].era <= Over
    BY DEF VInv, ToldWhatIsOver
  <2>5. told' = told /\ announces' = announces /\ wire' = wire
    BY <1>2 DEF clientVars
  <2>6. told <= Over' /\ \A over \in announces : over <= Over'
    BY <1>1, <1>3, <2>1, <2>3, <2>4
  <2>7. \A i \in DOMAIN wire : wire[i].type = "degraded" => wire[i].era <= Over'
    BY <1>1, <1>3, <2>1, <2>2, <2>4
  <2> QED
    BY <2>5, <2>6, <2>7 DEF ToldWhatIsOver
<1>8. OneTask' /\ AnswersCurrent' /\ ShownIsCurrent'
  BY <1>2, SameAnswers DEF serverVars, clientVars
<1> QED
  BY <1>5, <1>6, <1>7, <1>8 DEF VInv

\* grant, revoke and expires_at change the row and nothing a browser holds.
LEMMA PromotionStep ==
  ASSUME VInv, (\E state \in Grants : Grant(state)) \/ Revoke \/ Expire \/ Begin
  PROVE  VInv'
<1>1. promo \in Promotions /\ MaxRevision \in Nat
  BY VisibilityAssumption DEF VInv, VisibilityTypeOK
<1>2. ASSUME NEW state \in Grants, Grant(state) PROVE VInv'
  <2> DEFINE p == [state |-> state, revision |-> promo.revision + 1]
             changed == Allowed(promo) # (state # "unlisted")
  <2>1. p \in Promotions /\ p.revision = promo.revision + 1
    BY <1>1, <1>2 DEF Grant, Promotions, Grants
  <2>2. Turned(p, changed) /\ notices' = Notified(p.revision, changed)
        /\ UNCHANGED <<listener, seen, announces, missed>>
    BY <1>2 DEF Grant
  <2>3. changed \in BOOLEAN
    BY DEF Allowed
  <2> HIDE DEF p, changed
  <2> QED
    BY <2>1, <2>2, <2>3, RowStep DEF NextRow
<1>3. ASSUME Revoke PROVE VInv'
  <2> DEFINE p == [state |-> "revoked", revision |-> promo.revision + 1]
             changed == Allowed(promo)
  <2>1. p \in Promotions /\ p.revision = promo.revision + 1
    BY <1>1, <1>3 DEF Revoke, Promotions, Grants
  <2>2. Turned(p, changed) /\ notices' = Notified(p.revision, changed)
        /\ UNCHANGED <<listener, seen, announces, missed>>
    BY <1>3 DEF Revoke
  <2>3. changed \in BOOLEAN
    BY DEF Allowed
  <2> HIDE DEF p, changed
  <2> QED
    BY <2>1, <2>2, <2>3, RowStep DEF NextRow
<1>4. ASSUME Expire PROVE VInv'
  <2> DEFINE p == [state |-> "expired", revision |-> promo.revision]
  <2>1. p \in Promotions /\ p.revision = promo.revision /\ p.state = "expired"
    BY <1>1 DEF Promotions, Grants
  <2>2. Turned(p, FALSE) /\ UNCHANGED listenVars
    BY <1>4 DEF Expire
  <2> HIDE DEF p
  <2> QED
    BY <2>1, <2>2, RowStep DEF listenVars, NextRow
<1>5. ASSUME Begin PROVE VInv'
  <2> DEFINE p == [state |-> "live", revision |-> promo.revision]
  <2>1. p \in Promotions /\ p.revision = promo.revision /\ p.state = "live"
        /\ promo.state = "pending"
    BY <1>1, <1>5 DEF Promotions, Grants, Begin
  <2>2. Turned(p, FALSE) /\ UNCHANGED listenVars
    BY <1>5 DEF Begin
  <2> HIDE DEF p
  <2> QED
    BY <2>1, <2>2, RowStep DEF listenVars, NextRow
<1> QED
  BY <1>2, <1>3, <1>4, <1>5

\* The promotion row and the history of eras do not change.
Standing == UNCHANGED <<promo, era>>

\* Then the last era that is over stays the same.
LEMMA OverStands == Standing => Over' = Over
BY DEF Standing, Over, Allowed

\* A new version or epoch: what was not older than the head stays so.
LEMMA ProjectStep ==
  ASSUME VInv, Project
  PROVE  VInv'
<1>1. /\ head \in Pointer /\ installs \in 0..MaxInstalls /\ MaxInstalls \in Nat
      /\ head.epoch + head.version <= installs + 2
  BY VisibilityAssumption DEF VInv, VisibilityTypeOK, Counted
<1>2. head.epoch \in 1..(MaxInstalls + 1) /\ head.version \in 1..(MaxInstalls + 1)
  BY <1>1, Versions
<1>3. installs < MaxInstalls /\ installs' = installs + 1
  BY DEF Project
<1>4. \/ head' = [epoch |-> head.epoch, version |-> head.version + 1]
      \/ head' = [epoch |-> head.epoch + 1, version |-> 1]
  BY <1>1 DEF Project, Pointer
<1>5. head' \in Pointer /\ head'.epoch + head'.version <= installs' + 2
  BY <1>1, <1>2, <1>3, <1>4 DEF Pointer
<1>6. ~Older(head', head)
  BY <1>1, <1>2, <1>4 DEF Older
<1>7. UNCHANGED <<promoVars, listenVars, faultVars, socket, wire, clientVars>>
      /\ pointers' = pointers \cup {head'}
  BY DEF Project
<1>8. VisibilityTypeOK'
  BY <1>1, <1>3, <1>5, <1>7
  DEF VInv, VisibilityTypeOK, promoVars, listenVars, faultVars, clientVars
<1>9. Counted' /\ OneTask'
  BY <1>5, <1>7 DEF VInv, Counted, OneTask, promoVars, listenVars, clientVars
<1>10. ToldWhatIsOver'
  BY <1>7, OverStands DEF VInv, ToldWhatIsOver, Standing, promoVars, listenVars, clientVars
<1>11. \A c \in Content : ~Older(head, c) => ~Older(head', c)
  BY <1>1, <1>5, <1>6, Versions
<1>12. AnswersCurrent'
  BY <1>7, <1>11 DEF VInv, AnswersCurrent, clientVars
<1>13. ShownIsCurrent'
  BY <1>7, <1>11 DEF VInv, VisibilityTypeOK, Slots, ShownIsCurrent, clientVars
<1> QED
  BY <1>8, <1>9, <1>10, <1>12, <1>13 DEF VInv

\* A frame goes out: what it tells the browser is true.
LEMMA PushStep ==
  ASSUME VInv, NEW msg \in Frame, msg.type = "degraded" => msg.era <= Over,
         Push(msg), Standing, UNCHANGED <<withdrawn, told, head, slot, tasks, ref>>,
         announces' \subseteq announces, pointers' \subseteq pointers,
         UNCHANGED <<installs, listener, seen, notices>>
  PROVE  VInv'
<1>1. wire \in Seq(Frame)
  BY DEF VInv, VisibilityTypeOK
<1>2. /\ wire' \in Seq(Frame)
      /\ \A i \in DOMAIN wire' : wire'[i] = msg \/ \E j \in DOMAIN wire : wire'[i] = wire[j]
  BY <1>1, WireGrows
<1>3. VisibilityTypeOK'
  BY <1>2 DEF VInv, VisibilityTypeOK, Standing
<1>4. Counted'
  BY DEF VInv, Counted, Standing
<1>5. ToldWhatIsOver'
  BY <1>2, OverStands DEF VInv, ToldWhatIsOver
<1>6. OneTask' /\ AnswersCurrent' /\ ShownIsCurrent'
  BY SameAnswers
<1> QED
  BY <1>3, <1>4, <1>5, <1>6 DEF VInv

\* broadcastProjectionAuthorized sends a pointer, or a refusal that names an era that
\* is over.
LEMMA PublishStep ==
  ASSUME VInv, NEW ptr \in pointers, PublishPointer(ptr)
  PROVE  VInv'
<1>1. ptr \in Pointer
  BY DEF VInv, VisibilityTypeOK
<1>2. /\ Standing /\ UNCHANGED <<withdrawn, told, head, slot, tasks, ref>>
      /\ announces' \subseteq announces /\ pointers' \subseteq pointers
      /\ UNCHANGED <<installs, listener, seen, notices>>
  BY DEF PublishPointer, Standing, promoVars, listenVars, clientVars
<1>3. CASE dbUp /\ Allowed(promo)
  <2> DEFINE msg == [type |-> "projection", pointer |-> ptr]
  <2>1. msg \in Frame /\ msg.type # "degraded"
    BY <1>1, FrameShapes
  <2>2. Push(msg)
    BY <1>3 DEF PublishPointer
  <2> HIDE DEF msg
  <2> QED
    BY <1>2, <2>1, <2>2, PushStep
<1>4. CASE ~(dbUp /\ Allowed(promo))
  <2> DEFINE msg == [type |-> "degraded", era |-> Over]
  <2>1. msg \in Frame /\ msg.era <= Over
    BY OverType, FrameShapes, VisibilityAssumption
  <2>2. Push(msg)
    BY <1>4 DEF PublishPointer
  <2> HIDE DEF msg
  <2> QED
    BY <1>2, <2>1, <2>2, PushStep
<1> QED
  BY <1>3, <1>4

\* #announceWithheld sends what the durable row said when it was read.
LEMMA AnnounceStep ==
  ASSUME VInv, NEW over \in announces, Announce(over)
  PROVE  VInv'
<1>1. /\ Standing /\ UNCHANGED <<withdrawn, told, head, slot, tasks, ref>>
      /\ announces' \subseteq announces /\ pointers' \subseteq pointers
      /\ UNCHANGED <<installs, listener, seen, notices>>
  BY DEF Announce, Standing, promoVars, serverVars, clientVars
<1>2. CASE dbUp
  <2> DEFINE msg == [type |-> "degraded", era |-> over]
  <2>1. msg \in Frame
    BY FrameShapes DEF VInv, VisibilityTypeOK
  <2>2. msg.era <= Over
    BY DEF VInv, ToldWhatIsOver
  <2>3. Push(msg)
    BY <1>2 DEF Announce
  <2> HIDE DEF msg
  <2> QED
    BY <1>1, <2>1, <2>2, <2>3, PushStep
<1>3. CASE ~dbUp
  <2>1. wire' = wire
    BY <1>3 DEF Announce
  <2>2. VisibilityTypeOK'
    BY <1>1, <2>1 DEF VInv, VisibilityTypeOK, Standing
  <2>3. Counted'
    BY <1>1 DEF VInv, Counted, Standing
  <2>4. ToldWhatIsOver'
    BY <1>1, <2>1, OverStands DEF VInv, ToldWhatIsOver
  <2>5. OneTask' /\ AnswersCurrent' /\ ShownIsCurrent'
    BY <1>1, SameAnswers
  <2> QED
    BY <2>2, <2>3, <2>4, <2>5 DEF VInv
<1> QED
  BY <1>2, <1>3

\* The listener's calls: what it is about to announce is over.
LEMMA ListenerStep ==
  ASSUME VInv, Standing, UNCHANGED <<withdrawn, told, head, slot, tasks, ref>>,
         UNCHANGED <<installs, pointers>>,
         listener' \in {"down", "connected", "reconciling", "on", "stopped"},
         notices' = notices \/ notices' = <<>> \/ (notices # <<>> /\ notices' = Tail(notices)),
         announces' = announces \/ (announces' = announces \cup {era} /\ ~Allowed(promo)),
         seen' = seen \/ \E i \in DOMAIN notices : seen' = notices[i].revision,
         wire' = wire \/ wire' = <<>>
  PROVE  VInv'
<1>1. /\ notices \in Seq(Notices) /\ \A i \in DOMAIN notices : notices[i].revision <= promo.revision
      /\ seen \in 0..promo.revision /\ era \in 1..MaxRevision /\ promo \in Promotions
      /\ wire \in Seq(Frame) /\ announces \subseteq 0..MaxRevision
  BY DEF VInv, VisibilityTypeOK, Counted
<1>2. \A n \in Notices : n.revision \in 1..MaxRevision
  BY DEF Notices
<1>3. promo.revision \in 1..MaxRevision /\ MaxRevision \in Nat
  BY <1>1, VisibilityAssumption DEF Promotions
<1>4. notices' \in Seq(Notices) /\ \A i \in DOMAIN notices' : \E j \in DOMAIN notices : notices'[i] = notices[j]
  <2>1. CASE notices' = notices
    BY <1>1, <2>1
  <2>2. CASE notices' = <<>>
    BY <2>2
  <2>3. CASE notices # <<>> /\ notices' = Tail(notices)
    BY <1>1, <2>3
  <2> QED
    BY <2>1, <2>2, <2>3
<1>5. wire' \in Seq(Frame) /\ \A i \in DOMAIN wire' : wire'[i] = wire[i] /\ i \in DOMAIN wire
  <2>1. CASE wire' = wire
    BY <1>1, <2>1
  <2>2. CASE wire' = <<>>
    BY <2>2
  <2> QED
    BY <2>1, <2>2
<1>6. seen' \in 0..promo.revision
  <2>1. \A i \in DOMAIN notices : notices[i].revision \in 0..promo.revision
    BY <1>1, <1>2, <1>3, ElementOfSeq
  <2> QED
    BY <1>1, <2>1
<1>7. announces' \subseteq 0..MaxRevision
  <2>1. era \in 0..MaxRevision
    BY <1>1, <1>3
  <2> QED
    BY <1>1, <2>1
<1>8. VisibilityTypeOK'
  BY <1>4, <1>5, <1>6, <1>7 DEF VInv, VisibilityTypeOK, Standing
<1>9. Counted'
  BY <1>1, <1>4 DEF VInv, Counted, Standing
<1>10. ToldWhatIsOver'
  <2>1. ~Allowed(promo) => era <= Over
    BY <1>1, <1>3 DEF Over
  <2> QED
    BY <1>5, <2>1, OverStands DEF VInv, ToldWhatIsOver
<1>11. OneTask' /\ AnswersCurrent' /\ ShownIsCurrent'
  BY SameAnswers
<1> QED
  BY <1>8, <1>9, <1>10, <1>11 DEF VInv

\* The policy listener, its faults and the socket's.
LEMMA ListenerSteps ==
  ASSUME VInv,
         ListenerConnect \/ Listen \/ Reconcile \/ Apply \/ ConnectionDrops \/ OutageStarts
           \/ OutageEnds \/ SocketDrops \/ SocketConnects
  PROVE  VInv'
<1>1. notices \in Seq(Notices) /\ listener \in {"down", "connected", "reconciling", "on", "stopped"}
  BY DEF VInv, VisibilityTypeOK
<1> DEFINE Rest == UNCHANGED <<promoVars, serverVars, clientVars>>
           Calm == announces' = announces /\ seen' = seen
<1>2. ASSUME Rest PROVE Standing /\ UNCHANGED <<withdrawn, told, head, slot, tasks, ref>>
                        /\ UNCHANGED <<installs, pointers>>
  BY <1>2 DEF Standing, promoVars, serverVars, clientVars
<1>3. CASE ListenerConnect \/ Listen
  <2>1. Rest /\ Calm /\ notices' = notices /\ wire' = wire
        /\ listener' \in {"connected", "stopped", "reconciling"}
    BY <1>3 DEF ListenerConnect, Listen
  <2> QED
    BY <1>2, <2>1, ListenerStep
<1>4. CASE Reconcile
  <2>1. Rest /\ seen' = seen /\ notices' = notices /\ wire' = wire /\ listener' = "on"
    BY <1>4 DEF Reconcile, ReadAllowlist
  <2>2. announces' = announces \/ (announces' = announces \cup {era} /\ ~Allowed(promo))
    BY <1>4 DEF Reconcile, ReadAllowlist
  <2> QED
    BY <1>2, <2>1, <2>2, ListenerStep
<1>5. CASE Apply
  <2>1. Rest /\ notices # <<>> /\ notices' = Tail(notices) /\ wire' = wire /\ listener' = listener
    BY <1>5 DEF Apply, ReadAllowlist
  <2>2. announces' = announces \/ (announces' = announces \cup {era} /\ ~Allowed(promo))
    BY <1>5 DEF Apply, ReadAllowlist
  <2>3. seen' = seen \/ seen' = notices[1].revision
    BY <1>1, <1>5 DEF Apply
  <2>4. 1 \in DOMAIN notices
    BY <1>1, <2>1
  <2> QED
    BY <1>1, <1>2, <2>1, <2>2, <2>3, <2>4, ListenerStep
<1>6. CASE ConnectionDrops \/ OutageStarts
  <2>1. Rest /\ Calm /\ notices' = <<>> /\ wire' = wire /\ listener' \in {"down", listener}
    BY <1>6 DEF ConnectionDrops, OutageStarts, LoseListener
  <2> QED
    BY <1>1, <1>2, <2>1, ListenerStep
<1>7. CASE OutageEnds \/ SocketDrops \/ SocketConnects
  <2>1. Rest /\ Calm /\ notices' = notices /\ (wire' = wire \/ wire' = <<>>) /\ listener' = listener
    BY <1>7 DEF OutageEnds, SocketDrops, SocketConnects, listenVars
  <2> QED
    BY <1>1, <1>2, <2>1, ListenerStep
<1> QED
  BY <1>3, <1>4, <1>5, <1>6, <1>7

\* The end of the catch-up tells nobody of a withdrawal.
LEMMA ResumeStep ==
  ASSUME VInv, ResumeEnds
  PROVE  VInv'
<1> DEFINE msg == [type |-> "resume_complete"]
<1>1. msg \in Frame /\ msg.type # "degraded"
  BY FrameShapes
<1>2. Push(msg)
  BY DEF ResumeEnds
<1>3. /\ Standing /\ UNCHANGED <<withdrawn, told, head, slot, tasks, ref>>
      /\ announces' \subseteq announces /\ pointers' \subseteq pointers
      /\ UNCHANGED <<installs, listener, seen, notices>>
  BY DEF ResumeEnds, Standing, promoVars, serverVars, listenVars, clientVars
<1> HIDE DEF msg
<1> QED
  BY <1>1, <1>2, <1>3, PushStep

-----------------------------------------------------------------------------
(* The browser's steps.                                                    *)

\* A step of the browser: the tasks, the slot and what was told are in order.
LEMMA BrowserStep ==
  ASSUME VInv, Standing, UNCHANGED <<withdrawn, serverVars, listenVars>>,
         wire' = wire \/ (wire # <<>> /\ wire' = Tail(wire)),
         ref' \in Pointer \cup {None}, slot' \in Slots, tasks' \subseteq Tasks,
         told' \in 0..Over, OneTask', AnswersCurrent', ShownIsCurrent'
  PROVE  VInv'
<1>1. Over \in 0..era /\ era \in 1..MaxRevision /\ MaxRevision \in Nat
  BY OverType, VisibilityAssumption DEF VInv, VisibilityTypeOK
<1>2. told' \in 0..era /\ told' <= Over
  BY <1>1
<1>3. wire \in Seq(Frame)
  BY DEF VInv, VisibilityTypeOK
<1>4. wire' \in Seq(Frame) /\ \A i \in DOMAIN wire' : \E j \in DOMAIN wire : wire'[i] = wire[j]
  <2>1. CASE wire' = wire
    BY <1>3, <2>1
  <2>2. CASE wire # <<>> /\ wire' = Tail(wire)
    BY <1>3, <2>2
  <2> QED
    BY <2>1, <2>2
<1>5. VisibilityTypeOK'
  BY <1>2, <1>4 DEF VInv, VisibilityTypeOK, Standing, serverVars, listenVars
<1>6. Counted'
  BY DEF VInv, Counted, Standing, serverVars, listenVars
<1>7. ToldWhatIsOver'
  BY <1>2, <1>4, OverStands DEF VInv, ToldWhatIsOver, listenVars
<1> QED
  BY <1>5, <1>6, <1>7 DEF VInv

\* A task that is asked has no answer, so it asks nothing of the slot.
LEMMA AskingStep ==
  ASSUME VInv, NEW task \in Tasks, task.state = "asked", StartTask(task), UNCHANGED <<told, head>>
  PROVE  /\ slot' \in Slots /\ tasks' \subseteq Tasks
         /\ OneTask' /\ AnswersCurrent' /\ ShownIsCurrent'
<1>1. slot \in Slots
  BY DEF VInv, VisibilityTypeOK
<1>2. slot' \in Slots /\ slot'.snapshot = slot.snapshot /\ tasks' = {task}
  BY <1>1 DEF StartTask, Slots
<1>3. ShownIsCurrent'
  BY <1>2 DEF VInv, ShownIsCurrent
<1> QED
  BY <1>2, <1>3 DEF OneTask, AnswersCurrent

\* #acceptControl: a pointer, a refusal or the end of the catch-up.
LEMMA FrameStep ==
  ASSUME VInv, AcceptFrame
  PROVE  VInv'
<1>1. /\ wire \in Seq(Frame) /\ slot \in Slots /\ ref \in Pointer \cup {None} /\ told \in 0..era
      /\ era \in 1..MaxRevision /\ MaxRevision \in Nat /\ MaxInstalls \in Nat /\ tasks \subseteq Tasks
  BY VisibilityAssumption DEF VInv, VisibilityTypeOK
<1>2. Over \in 0..era /\ told <= Over
  BY OverType DEF VInv, ToldWhatIsOver
<1>3. Standing /\ UNCHANGED <<withdrawn, serverVars, listenVars>> /\ wire # <<>> /\ wire' = Tail(wire)
  BY DEF AcceptFrame, Standing, promoVars
<1> DEFINE msg == Head(wire)
<1>4. msg \in Frame /\ msg = wire[1] /\ 1 \in DOMAIN wire
  BY <1>1, <1>3
<1>5. told \in 0..Over
  BY <1>1, <1>2
<1>6. CASE msg.type = "projection" /\ AcceptPointer(msg.pointer)
  <2> DEFINE ptr == msg.pointer
  <2>1. ptr \in Pointer
    BY <1>4, <1>6, FrameShapes
  <2>2. ref' \in Pointer \cup {None} /\ told' = told
    BY <1>1, <1>6, <2>1 DEF AcceptPointer
  <2>3. CASE UNCHANGED <<slot, tasks>>
    <3>1. OneTask' /\ AnswersCurrent' /\ ShownIsCurrent'
      BY <1>3, <2>2, <2>3, SameAnswers DEF serverVars
    <3> QED
      BY <1>1, <1>3, <1>5, <2>2, <2>3, <3>1, BrowserStep
  <2>4. CASE StartTask(TaskFor(ptr, Verdict(ptr)))
    <3> DEFINE task == TaskFor(ptr, Verdict(ptr))
    <3>1. task \in Tasks /\ task.state = "asked"
      <4>1. CASE task = Latest(ptr)
        BY <2>1, <4>1, LatestType
      <4>2. CASE slot.snapshot # None
                 /\ task = [Latest(ptr) EXCEPT !.route = "patches", !.after = slot.snapshot.version]
        <5>1. slot.snapshot \in Content
          BY <1>1, <4>2 DEF Slots
        <5>2. slot.snapshot.version \in 0..(MaxInstalls + 1)
          BY <1>1, <5>1, Versions
        <5> QED
          BY <2>1, <4>2, <5>2 DEF Latest, Tasks
      <4> QED
        BY <4>1, <4>2 DEF TaskFor
    <3> HIDE DEF task
    <3>2. /\ slot' \in Slots /\ tasks' \subseteq Tasks
          /\ OneTask' /\ AnswersCurrent' /\ ShownIsCurrent'
      BY <1>3, <2>2, <2>4, <3>1, AskingStep DEF serverVars, task
    <3> QED
      BY <1>3, <1>5, <2>2, <3>2, BrowserStep
  <2> QED
    BY <1>6, <2>3, <2>4 DEF AcceptPointer
<1>7. CASE msg.type = "degraded" /\ AcceptWithheld(msg.era)
  <2>1. msg.era \in 0..MaxRevision /\ msg.era <= Over
    BY <1>4, <1>7, FrameShapes DEF VInv, ToldWhatIsOver
  <2>2. told' \in 0..Over
    <3>1. told' = msg.era \/ told' = told
      BY <1>7 DEF AcceptWithheld
    <3> QED
      BY <1>1, <1>2, <1>5, <2>1, <3>1
  <2>3. ref' = None /\ tasks' = {} /\ slot' = [availability |-> "not_available_by_policy", snapshot |-> None]
    BY <1>7 DEF AcceptWithheld
  <2>4. slot' \in Slots /\ slot'.snapshot = None
    BY <2>3 DEF Slots
  <2>5. OneTask' /\ AnswersCurrent' /\ ShownIsCurrent'
    BY <2>3, <2>4 DEF OneTask, AnswersCurrent, ShownIsCurrent
  <2> QED
    BY <1>3, <2>2, <2>3, <2>4, <2>5, BrowserStep
<1>8. CASE msg.type = "resume_complete" /\ StartTask(Latest(None)) /\ UNCHANGED <<ref, told>>
  <2>1. Latest(None) \in Tasks /\ Latest(None).state = "asked"
    BY LatestType
  <2>2. /\ slot' \in Slots /\ tasks' \subseteq Tasks
        /\ OneTask' /\ AnswersCurrent' /\ ShownIsCurrent'
    BY <1>3, <1>8, <2>1, AskingStep DEF serverVars
  <2> QED
    BY <1>1, <1>3, <1>5, <1>8, <2>2, BrowserStep
<1> QED
  BY <1>6, <1>7, <1>8 DEF AcceptFrame

\* A read is authorised against the row as it is: its answer is from the era that
\* is not over, and from the head.
LEMMA ReadStep ==
  ASSUME VInv, NEW t \in tasks, ReadRoute(t)
  PROVE  VInv'
<1>1. /\ slot \in Slots /\ ref \in Pointer \cup {None} /\ told \in 0..era /\ head \in Pointer
      /\ era \in 1..MaxRevision /\ MaxRevision \in Nat /\ MaxInstalls \in Nat /\ tasks \subseteq Tasks
  BY VisibilityAssumption DEF VInv, VisibilityTypeOK
<1>2. Over \in 0..era /\ told <= Over /\ (Allowed(promo) => Over = era - 1)
  BY OverType DEF VInv, ToldWhatIsOver
<1>3. /\ Standing /\ UNCHANGED <<withdrawn, serverVars, listenVars>> /\ wire' = wire
      /\ ref' = ref /\ slot' = slot /\ told' = told /\ head' = head
  BY DEF ReadRoute, Standing, promoVars, serverVars
<1> DEFINE got == [epoch |-> head.epoch, version |-> head.version, era |-> era]
           state == CASE ~dbUp -> "error"
                      [] dbUp /\ ~Allowed(promo) -> "policy"
                      [] dbUp /\ Allowed(promo) /\ t.route = "patches"
                           /\ (head.epoch # t.target.epoch \/ t.after > head.version) -> "resync"
                      [] OTHER -> "content"
           read == [t EXCEPT !.state = state, !.answer = got]
<1>4. got \in Content /\ got.era = era /\ got.epoch = head.epoch /\ got.version = head.version
  BY <1>1, Versions DEF Content
<1>5. state \in {"error", "policy", "resync", "content"} /\ (state = "content" => Allowed(promo))
  <2>1. CASE ~dbUp
    BY <2>1
  <2>2. CASE dbUp /\ ~Allowed(promo)
    BY <2>2
  <2>3. CASE dbUp /\ Allowed(promo)
    BY <2>3
  <2> QED
    BY <2>1, <2>2, <2>3
<1>6. tasks' = {read}
  BY DEF VInv, OneTask, ReadRoute
<1> HIDE DEF got, state
<1>7. read \in Tasks /\ read.state = state /\ read.answer = got
  BY <1>1, <1>4, <1>5 DEF Tasks
<1> HIDE DEF read
<1>8. OneTask'
  BY <1>6 DEF OneTask
<1>9. ~Older(head, got) /\ (slot.snapshot # None => ~Older(got, slot.snapshot))
  <2>1. ~Older(head, got)
    BY <1>1, <1>4, Versions DEF Older
  <2>2. slot.snapshot # None => ~Older(got, slot.snapshot)
    BY <1>4 DEF VInv, ShownIsCurrent, Older
  <2> QED
    BY <2>1, <2>2
<1>10. AnswersCurrent'
  <2>1. state = "content" => era > told
    BY <1>1, <1>2, <1>5
  <2> QED
    BY <1>3, <1>4, <1>6, <1>7, <1>9, <2>1 DEF AnswersCurrent
<1>11. ShownIsCurrent'
  BY <1>3 DEF VInv, ShownIsCurrent
<1>12. told' \in 0..Over /\ tasks' \subseteq Tasks
  BY <1>1, <1>2, <1>3, <1>6, <1>7
<1> QED
  BY <1>1, <1>3, <1>8, <1>10, <1>11, <1>12, BrowserStep

\* The fallback to the latest snapshot asks again.
LEMMA FallbackStep ==
  ASSUME VInv, NEW t \in tasks, Fallback(t)
  PROVE  VInv'
<1>1. /\ slot \in Slots /\ ref \in Pointer \cup {None} /\ told \in 0..era
      /\ tasks \subseteq Tasks /\ t.target \in Pointer \cup {None} /\ era \in 1..MaxRevision
      /\ MaxRevision \in Nat
  BY VisibilityAssumption DEF VInv, VisibilityTypeOK, Tasks
<1>2. Over \in 0..era /\ told <= Over
  BY OverType DEF VInv, ToldWhatIsOver
<1>3. /\ Standing /\ UNCHANGED <<withdrawn, serverVars, listenVars>> /\ wire' = wire
      /\ ref' = ref /\ slot' = slot /\ told' = told /\ head' = head
  BY DEF Fallback, Standing, promoVars, serverVars
<1>4. tasks' = {Latest(t.target)}
  BY DEF VInv, OneTask, Fallback
<1>5. Latest(t.target) \in Tasks /\ Latest(t.target).state = "asked"
  BY <1>1, LatestType
<1>6. OneTask' /\ AnswersCurrent'
  BY <1>4, <1>5 DEF OneTask, AnswersCurrent
<1>7. ShownIsCurrent'
  BY <1>3 DEF VInv, ShownIsCurrent
<1>8. told' \in 0..Over /\ tasks' \subseteq Tasks
  BY <1>1, <1>2, <1>3, <1>4, <1>5
<1> QED
  BY <1>1, <1>3, <1>6, <1>7, <1>8, BrowserStep

\* The three ways a task ends, and what the slot then shows.
LEMMA TaskEnds ==
  ASSUME VInv, NEW t \in tasks, EndTask(t)
  PROVE  /\ slot' \in Slots /\ ref' \in Pointer \cup {None}
         /\ \/ slot'.snapshot = None
            \/ slot'.snapshot = slot.snapshot
            \/ t.state = "content" /\ slot'.snapshot = t.answer
<1>1. slot \in Slots /\ ref \in Pointer \cup {None}
  BY DEF VInv, VisibilityTypeOK
<1>2. t.state = "content" => t.answer \in Content
  BY DEF VInv, AnswersCurrent
<1>3. CASE slot' = [slot EXCEPT !.availability = "failed"] /\ ref' = ref
  BY <1>1, <1>3 DEF Slots
<1>4. CASE /\ t.state = "content"
           /\ slot' = [availability |-> "ready", snapshot |-> t.answer]
           /\ ref' = [epoch |-> t.answer.epoch, version |-> t.answer.version]
  <2>1. ref' \in Pointer
    BY <1>2, <1>4, Versions DEF Pointer
  <2>2. slot' \in Slots /\ slot'.snapshot = t.answer
    BY <1>2, <1>4 DEF Slots
  <2> QED
    BY <1>4, <2>1, <2>2
<1>5. CASE slot' = [availability |-> "not_available_by_policy", snapshot |-> None] /\ ref' = None
  BY <1>5 DEF Slots
<1> QED
  BY <1>3, <1>4, <1>5 DEF EndTask

\* #projectionTask ends.
LEMMA EndStep ==
  ASSUME VInv, NEW t \in tasks, EndTask(t)
  PROVE  VInv'
<1>1. /\ told \in 0..era /\ era \in 1..MaxRevision /\ MaxRevision \in Nat /\ tasks \subseteq Tasks
  BY VisibilityAssumption DEF VInv, VisibilityTypeOK
<1>2. Over \in 0..era /\ told <= Over
  BY OverType DEF VInv, ToldWhatIsOver
<1>3. /\ Standing /\ UNCHANGED <<withdrawn, serverVars, listenVars>> /\ wire' = wire
      /\ told' = told /\ head' = head
  BY DEF EndTask, Standing, promoVars, serverVars
<1>4. tasks' = {}
  BY DEF VInv, OneTask, EndTask
<1>5. OneTask' /\ AnswersCurrent'
  BY <1>4 DEF OneTask, AnswersCurrent
<1>6. ShownIsCurrent'
  BY <1>3, TaskEnds DEF VInv, ShownIsCurrent, AnswersCurrent
<1>7. told' \in 0..Over
  BY <1>1, <1>2, <1>3
<1> QED
  BY <1>3, <1>4, <1>5, <1>6, <1>7, TaskEnds, BrowserStep

-----------------------------------------------------------------------------
(* The invariant and what it gives.                                        *)

\* The lesson under way is in order.
LEMMA InitVInv == VisibilityInit => VInv
<1> SUFFICES ASSUME VisibilityInit PROVE VInv
  OBVIOUS
<1>1. MaxRevision \in Nat \ {0} /\ MaxInstalls \in Nat
  BY VisibilityAssumption
<1> DEFINE first == [epoch |-> 1, version |-> 1, era |-> 1]
<1>2. head = [epoch |-> 1, version |-> 1] /\ head \in Pointer /\ first \in Content
  BY <1>1 DEF VisibilityInit, Pointer, Content
<1>3. slot \in Slots /\ slot.snapshot = first
  BY <1>2 DEF VisibilityInit, Slots
<1>4. promo \in Promotions
  BY <1>1 DEF VisibilityInit, Promotions, Grants
<1>5. Over = 0
  BY DEF VisibilityInit, Over, Allowed
<1>6. VisibilityTypeOK
  <2>1. /\ notices \in Seq(Notices) /\ wire \in Seq(Frame) /\ tasks \subseteq Tasks
        /\ announces \subseteq 0..MaxRevision /\ pointers \subseteq Pointer
    BY DEF VisibilityInit
  <2>2. /\ era \in 1..MaxRevision /\ withdrawn \in 0..era /\ told \in 0..era
        /\ installs \in 0..MaxInstalls /\ seen \in 0..promo.revision
    BY <1>1 DEF VisibilityInit
  <2>3. listener \in {"down", "connected", "reconciling", "on", "stopped"} /\ ref \in Pointer \cup {None}
    BY <1>2 DEF VisibilityInit
  <2> QED
    BY <1>2, <1>3, <1>4, <2>1, <2>2, <2>3 DEF VisibilityTypeOK
<1>7. Counted
  BY <1>2 DEF VisibilityInit, Counted
<1>8. ToldWhatIsOver
  BY <1>5 DEF VisibilityInit, ToldWhatIsOver
<1>9. OneTask /\ AnswersCurrent
  BY DEF VisibilityInit, OneTask, AnswersCurrent
<1>10. ShownIsCurrent
  BY <1>2, <1>3 DEF VisibilityInit, ShownIsCurrent, Older
<1> QED
  BY <1>6, <1>7, <1>8, <1>9, <1>10 DEF VInv

\* One case per group of actions.
LEMMA NextVInv == VInv /\ [VisibilityNext]_visibilityVars => VInv'
<1> SUFFICES ASSUME VInv, [VisibilityNext]_visibilityVars PROVE VInv'
  OBVIOUS
<1>1. CASE Settling
  <2>1. CASE OutageEnds \/ ListenerConnect \/ Listen \/ Reconcile \/ Apply \/ SocketConnects
    BY <2>1, ListenerSteps
  <2>2. CASE \E over \in announces : Announce(over)
    BY <2>2, AnnounceStep
  <2>3. CASE \E ptr \in pointers : PublishPointer(ptr)
    BY <2>3, PublishStep
  <2>4. CASE ResumeEnds
    BY <2>4, ResumeStep
  <2>5. CASE AcceptFrame
    BY <2>5, FrameStep
  <2>6. CASE \E t \in tasks : ReadRoute(t) \/ Fallback(t) \/ EndTask(t)
    BY <2>6, ReadStep, FallbackStep, EndStep
  <2> QED
    BY <1>1, <2>1, <2>2, <2>3, <2>4, <2>5, <2>6 DEF Settling
<1>2. CASE Disturbing
  <2>1. CASE (\E state \in Grants : Grant(state)) \/ Revoke \/ Expire \/ Begin
    BY <2>1, PromotionStep
  <2>2. CASE Project
    BY <2>2, ProjectStep
  <2>3. CASE ConnectionDrops \/ OutageStarts \/ SocketDrops
    BY <2>3, ListenerSteps
  <2> QED
    BY <1>2, <2>1, <2>2, <2>3 DEF Disturbing
<1>3. CASE UNCHANGED visibilityVars
  <2>1. /\ Standing /\ UNCHANGED <<withdrawn, serverVars, listenVars>> /\ wire' = wire
        /\ ref' = ref /\ slot' = slot /\ tasks' = tasks /\ told' = told /\ head' = head
    BY <1>3 DEF visibilityVars, Standing, promoVars, serverVars, listenVars, clientVars
  <2>2. VisibilityTypeOK'
    BY <2>1 DEF VInv, VisibilityTypeOK, Standing, serverVars, listenVars
  <2>3. Counted' /\ ToldWhatIsOver'
    BY <2>1, OverStands DEF VInv, Counted, ToldWhatIsOver, Standing, serverVars, listenVars
  <2>4. OneTask' /\ AnswersCurrent' /\ ShownIsCurrent'
    BY <2>1, SameAnswers
  <2> QED
    BY <2>2, <2>3, <2>4 DEF VInv
<1> QED
  BY <1>1, <1>2, <1>3 DEF VisibilityNext

\* VInv is an invariant of the panel.
LEMMA AlwaysVInv == VisibilitySpec => []VInv
<1>1. VisibilityInit => VInv
  BY InitVInv
<1>2. VInv /\ [VisibilityNext]_visibilityVars => VInv'
  BY NextVInv
<1> QED
  BY <1>1, <1>2, PTL DEF VisibilitySpec

(* Once the browser has handled a withheld notice, nothing read under the  *)
(* visibility that notice ended is on the screen (hydrated-session-state.ts, *)
(* degraded; student-analytics-policy-listener.ts), for any number of      *)
(* promotions, versions, frames and faults.                                *)
THEOREM WithheldIsGone == VisibilitySpec => []VisibilitySafe
<1>1. VInv => VisibilitySafe
  BY DEF VInv, ShownIsCurrent, VisibilitySafe, WithheldNotShown
<1> QED
  BY <1>1, AlwaysVInv, PTL

(* What the panel shows never goes back to an earlier version or epoch     *)
(* (#projectionTask, ProjectionSync.accept).                               *)
THEOREM PanelGoesForward == VisibilitySpec => PanelNeverRegresses
<1> DEFINE Forward == slot.snapshot # None /\ slot'.snapshot # None
                        => ~Older(slot'.snapshot, slot.snapshot)
<1>1. ASSUME VInv, [VisibilityNext]_visibilityVars PROVE Forward
  <2> DEFINE Same == slot'.snapshot = slot.snapshot \/ slot'.snapshot = None
  <2>1. slot \in Slots /\ MaxInstalls \in Nat
    BY <1>1, VisibilityAssumption DEF VInv, VisibilityTypeOK
  <2>2. Same => Forward
    <3>1. slot.snapshot # None => slot.snapshot \in Content
      BY <2>1 DEF Slots
    <3> QED
      BY <2>1, <3>1, Versions DEF Older
  <2>3. ASSUME NEW t \in tasks, EndTask(t) PROVE Forward
    <3>1. t.state = "content" /\ slot.snapshot # None => ~Older(t.answer, slot.snapshot)
      BY <1>1 DEF VInv, AnswersCurrent
    <3> QED
      BY <1>1, <2>2, <2>3, <3>1, TaskEnds
  <2>4. CASE AcceptFrame
    <3>1. \A task : StartTask(task) => slot'.snapshot = slot.snapshot
      BY <2>1 DEF StartTask, Slots
    <3>2. Same
      BY <2>4, <3>1 DEF AcceptFrame, AcceptPointer, AcceptWithheld
    <3> QED
      BY <2>2, <3>2
  <2>5. CASE \E t \in tasks : ReadRoute(t) \/ Fallback(t)
    <3>1. slot' = slot
      BY <2>5 DEF ReadRoute, Fallback
    <3> QED
      BY <2>2, <3>1
  <2>6. CASE \/ OutageEnds \/ ListenerConnect \/ Listen \/ Reconcile \/ Apply \/ SocketConnects
             \/ ResumeEnds \/ Project \/ ConnectionDrops \/ OutageStarts \/ SocketDrops
    <3>1. slot' = slot
      BY <2>6 DEF OutageEnds, ListenerConnect, Listen, Reconcile, Apply, ReadAllowlist,
         SocketConnects,
             ResumeEnds, Project, ConnectionDrops, OutageStarts, SocketDrops, clientVars
    <3> QED
      BY <2>2, <3>1
  <2>7. CASE \/ \E over \in announces : Announce(over)
             \/ \E ptr \in pointers : PublishPointer(ptr)
             \/ (\E state \in Grants : Grant(state)) \/ Revoke \/ Expire \/ Begin
    <3>1. slot' = slot
      BY <2>7 DEF Announce, PublishPointer, Grant, Revoke, Expire, Begin, Turned, clientVars
    <3> QED
      BY <2>2, <3>1
  <2>8. CASE UNCHANGED visibilityVars
    <3>1. slot' = slot
      BY <2>8 DEF visibilityVars, clientVars
    <3> QED
      BY <2>2, <3>1
  <2> HIDE DEF Forward
  <2> QED
    BY <1>1, <2>3, <2>4, <2>5, <2>6, <2>7, <2>8 DEF VisibilityNext, Settling, Disturbing
<1>2. VInv /\ [VisibilityNext]_visibilityVars => [Forward]_visibilityVars
  BY <1>1
<1> QED
  BY <1>2, AlwaysVInv, PTL DEF VisibilitySpec, PanelNeverRegresses

-----------------------------------------------------------------------------
(* The status of Nova.                                                     *)

RunRows == [state : {"queued"} \cup TerminalRun, at : Nat]
RunsShown == [id : Nat, state : {"idle", "queued"} \cup TerminalRun]
Answers == [run : RunsShown, runAt : Nat, health : Healths, allowed : BOOLEAN, at : Nat]
Asks    == [by : Nat, step : {"asked", "health", "answered"},
            health : SUBSET Healths, told : SUBSET Answers]

NovaTypes ==
  /\ now \in Nat /\ health \in Healths /\ allowed \in BOOLEAN
  /\ runs \in Seq(RunRows)
  /\ refreshes \in Nat /\ asks \subseteq Asks
  /\ runAt \in 0..now /\ metaAt \in 0..now /\ answer \subseteq Answers

\* The room's lock: runs follow each other, and only the last may be active.
RunsInTurn ==
  /\ \A i \in DOMAIN runs : runs[i].at <= now
  /\ \A i, j \in DOMAIN runs : i < j => runs[i].at < runs[j].at /\ runs[i].state \in TerminalRun

\* One request per generation, and what each step of it holds.
AsksInTurn ==
  /\ \A a \in asks : a.by <= refreshes
  /\ \A a, b \in asks : a.by = b.by => a = b
  /\ \A a \in asks : /\ a.step = "health" => \E h \in Healths : a.health = {h}
                     /\ a.step = "answered" => \E c \in Answers : a.told = {c}
                     /\ a.step # "answered" => a.told = {}

\* What was true of run `run' at the time `at' and what has become of it since.
WasTrue(run, at) ==
  /\ run.id = 0 => run.state = "idle" /\ \A i \in DOMAIN runs : at < runs[i].at
  /\ run.id # 0 =>
       /\ run.id \in DOMAIN runs /\ run.state # "idle" /\ at <= runs[run.id].at
       /\ runs[run.id].state = run.state \/ (run.state = "queued" /\ runs[run.id].state \in TerminalRun)
       /\ \A j \in DOMAIN runs : j > run.id => at < runs[j].at

ToldIsTrue ==
  \A a \in asks : \A c \in a.told : c.runAt <= now /\ c.at <= now /\ WasTrue(c.run, c.runAt)

PageIsTrue ==
  /\ ~live => answer = {} /\ ~statusPending /\ ~unsure
  /\ \A c \in answer : answer = {c} /\ metaAt = c.at /\ WasTrue(c.run, runAt)
  /\ frame = {[run |-> c.run, health |-> c.health, allowed |-> c.allowed] : c \in answer}

\* An answer read after the page's: newer, and its run is the page's or comes after it.
Follows(old, c) ==
  /\ c.at > metaAt
  /\ old.id = 0 => c.run = old \/ (c.run.id # 0 /\ c.runAt > runAt)
  /\ old.id # 0 =>
       /\ c.run.id # 0 /\ c.runAt >= runAt
       /\ c.run.id # old.id => c.runAt > runAt
       /\ c.run.id = old.id => c.run = old \/ (old.state = "queued" /\ c.run.state \in TerminalRun)

AwaitedFollows ==
  \A a \in asks : a.by = refreshes => \A c \in a.told, f \in answer : Follows(f.run, c)

NInv == NovaTypes /\ RunsInTurn /\ AsksInTurn /\ ToldIsTrue /\ PageIsTrue /\ AwaitedFollows

\* The only element of a singleton.
LEMMA OnlyOne == \A c : (CHOOSE x \in {c} : TRUE) = c
OBVIOUS

\* A change of the runs: rows are added or end at the stamp of the step.
RunsMove ==
  /\ runs' \in Seq(RunRows) /\ now' = now + 1
  /\ DOMAIN runs \subseteq DOMAIN runs'
  /\ \A i \in DOMAIN runs' \ DOMAIN runs : runs'[i].at = now'
  /\ \A i \in DOMAIN runs :
       \/ runs'[i] = runs[i]
       \/ runs[i].state = "queued" /\ runs'[i].state \in TerminalRun /\ runs'[i].at = now'

\* What was true of a run stays what was true of it.
LEMMA TruthStays ==
  ASSUME NInv, RunsMove, NEW run \in RunsShown, NEW at \in 0..now, WasTrue(run, at)
  PROVE  WasTrue(run, at)'
<1>0. \A rows \in Seq(RunRows) : \A i \in DOMAIN rows : i \in Nat /\ rows[i].at \in Nat
  <2>1. \A row \in RunRows : row.at \in Nat
    BY DEF RunRows
  <2> QED
    BY <2>1
<1>1. now \in Nat /\ now' = now + 1 /\ \A i \in DOMAIN runs' : runs'[i].at \in Nat /\ i \in Nat
  BY <1>0 DEF NInv, NovaTypes, RunsMove
<1>2. \A i \in DOMAIN runs : runs[i].at \in Nat /\ runs[i].at <= now
  BY <1>0 DEF NInv, NovaTypes, RunsInTurn
<1>3. \A i \in DOMAIN runs' : at < runs'[i].at \/ (i \in DOMAIN runs /\ runs'[i] = runs[i])
  BY <1>1, <1>2 DEF RunsMove
<1>4. \A i \in DOMAIN runs : runs[i].at <= runs'[i].at
  BY <1>1, <1>2 DEF RunsMove
<1>5. CASE run.id = 0
  BY <1>3, <1>5 DEF WasTrue
<1>6. CASE run.id # 0
  <2>1. /\ run.id \in DOMAIN runs /\ run.state # "idle" /\ at <= runs[run.id].at
        /\ runs[run.id].state = run.state \/ (run.state = "queued" /\ runs[run.id].state \in TerminalRun)
        /\ \A j \in DOMAIN runs : j > run.id => at < runs[j].at
    BY <1>6 DEF WasTrue
  <2>2. run.id \in DOMAIN runs' /\ at <= runs'[run.id].at
    BY <1>1, <1>2, <1>4, <2>1 DEF RunsMove
  <2>3. runs'[run.id].state = run.state \/ (run.state = "queued" /\ runs'[run.id].state \in TerminalRun)
    <3>1. "queued" \notin TerminalRun
      BY DEF TerminalRun
    <3> QED
      BY <2>1, <3>1 DEF RunsMove
  <2>4. \A j \in DOMAIN runs' : j > run.id => at < runs'[j].at
    BY <1>3, <2>1
  <2> QED
    BY <1>6, <2>1, <2>2, <2>3, <2>4 DEF WasTrue
<1> QED
  BY <1>5, <1>6

\* A step of the room that keeps the turns of the runs.
LEMMA RoomStep ==
  ASSUME NInv, RunsMove, RunsInTurn', health' = health, allowed' \in BOOLEAN, UNCHANGED novaPage
  PROVE  NInv'
<1>1. now \in Nat /\ now' = now + 1 /\ runs' \in Seq(RunRows)
  BY DEF NInv, NovaTypes, RunsMove
<1>2. NovaTypes'
  BY <1>1 DEF NInv, NovaTypes, novaPage
<1>3. AsksInTurn'
  BY DEF NInv, AsksInTurn, novaPage
<1>4. ToldIsTrue'
  <2> SUFFICES ASSUME NEW a \in asks, NEW c \in a.told
               PROVE  c.runAt <= now' /\ c.at <= now' /\ WasTrue(c.run, c.runAt)'
    BY DEF ToldIsTrue, novaPage
  <2>1. c \in Answers
    BY DEF NInv, NovaTypes, Asks
  <2>2. c.runAt <= now /\ c.at <= now /\ WasTrue(c.run, c.runAt)
    BY DEF NInv, ToldIsTrue
  <2>3. c.run \in RunsShown /\ c.runAt \in 0..now /\ c.at \in Nat
    BY <1>1, <2>1, <2>2 DEF Answers
  <2>4. WasTrue(c.run, c.runAt)'
    BY <2>2, <2>3, TruthStays
  <2> QED
    BY <1>1, <2>2, <2>3, <2>4
<1>5. PageIsTrue'
  <2>1. \A c \in answer : WasTrue(c.run, runAt)'
    <3> SUFFICES ASSUME NEW c \in answer PROVE WasTrue(c.run, runAt)'
      OBVIOUS
    <3>1. c.run \in RunsShown /\ runAt \in 0..now /\ WasTrue(c.run, runAt)
      BY DEF NInv, NovaTypes, PageIsTrue, Answers
    <3> QED
      BY <3>1, TruthStays DEF novaPage
  <2> QED
    BY <2>1 DEF NInv, PageIsTrue, novaPage
<1>6. AwaitedFollows'
  BY DEF NInv, AwaitedFollows, Follows, novaPage
<1> QED
  BY <1>2, <1>3, <1>4, <1>5, <1>6 DEF NInv

\* AgentService.request: the new run is the last and the only active one.
LEMMA RequestStep ==
  ASSUME NInv, RequestRun
  PROVE  NInv'
<1>1. now \in Nat /\ runs \in Seq(RunRows) /\ allowed \in BOOLEAN
  BY DEF NInv, NovaTypes
<1> DEFINE row == [state |-> "queued", at |-> now + 1]
<1>2. row \in RunRows /\ row.at = now + 1
  BY <1>1 DEF RunRows
<1>3. runs' = Append(runs, row) /\ now' = now + 1 /\ health' = health /\ allowed' = allowed
      /\ UNCHANGED novaPage /\ Active = {}
  BY DEF RequestRun, Stamped, Stamp
<1> HIDE DEF row
<1>4. /\ runs' \in Seq(RunRows) /\ DOMAIN runs' = 1..(Len(runs) + 1) /\ DOMAIN runs = 1..Len(runs)
      /\ Len(runs) \in Nat /\ runs'[Len(runs) + 1] = row
      /\ \A i \in 1..Len(runs) : runs'[i] = runs[i]
  BY <1>1, <1>2, <1>3
<1>5. \A i \in 1..Len(runs) : runs[i].state \in TerminalRun /\ runs[i].at \in Nat /\ runs[i].at <= now
  <2>1. \A i \in 1..Len(runs) : runs[i] \in RunRows
    BY <1>1
  <2>2. \A i \in 1..Len(runs) : runs[i].state # "queued"
    BY <1>3, <1>4 DEF Active
  <2> QED
    BY <1>4, <2>1, <2>2 DEF RunRows, NInv, RunsInTurn
<1>6. RunsMove
  BY <1>1, <1>2, <1>3, <1>4 DEF RunsMove
<1>7. RunsInTurn'
  <2>1. \A i \in DOMAIN runs' : runs'[i].at <= now'
    BY <1>1, <1>2, <1>3, <1>4, <1>5
  <2>2. \A i, j \in DOMAIN runs' : i < j => runs'[i].at < runs'[j].at /\ runs'[i].state \in TerminalRun
    <3> SUFFICES ASSUME NEW i \in DOMAIN runs', NEW j \in DOMAIN runs', i < j
                 PROVE  runs'[i].at < runs'[j].at /\ runs'[i].state \in TerminalRun
      OBVIOUS
    <3>1. i \in 1..Len(runs) /\ runs'[i] = runs[i]
      BY <1>4
    <3>2. CASE j \in 1..Len(runs)
      BY <1>4, <3>1, <3>2 DEF NInv, RunsInTurn
    <3>3. CASE j = Len(runs) + 1
      BY <1>1, <1>2, <1>4, <1>5, <3>1, <3>3
    <3> QED
      BY <1>4, <3>2, <3>3
  <2> QED
    BY <2>1, <2>2 DEF RunsInTurn
<1> QED
  BY <1>1, <1>3, <1>6, <1>7, RoomStep

\* Some active runs end at the stamp of the step: each was the last one.
LEMMA EndsStep ==
  ASSUME NInv, NEW E \in SUBSET Active, NEW st \in TerminalRun, Stamped, allowed' \in BOOLEAN,
         runs' = [i \in DOMAIN runs |-> IF i \in E THEN [state |-> st, at |-> Stamp] ELSE runs[i]],
         health' = health, UNCHANGED novaPage
  PROVE  NInv'
<1>1. now \in Nat /\ runs \in Seq(RunRows) /\ now' = now + 1
  BY DEF NInv, NovaTypes, Stamped, Stamp
<1>2. [state |-> st, at |-> Stamp] \in RunRows
  BY <1>1 DEF RunRows, Stamp
<1>3. Len(runs) \in Nat /\ DOMAIN runs = 1..Len(runs) /\ \A i \in DOMAIN runs : runs[i] \in RunRows
  BY <1>1
<1>4. \A i \in DOMAIN runs : /\ i \in E => runs'[i].state = st /\ runs'[i].at = now + 1 /\ runs'[i] \in RunRows
                             /\ i \notin E => runs'[i] = runs[i]
  BY <1>2 DEF Stamp
<1>5. runs' \in Seq(RunRows) /\ DOMAIN runs' = DOMAIN runs
  <2>1. DOMAIN runs' = 1..Len(runs) /\ \A i \in 1..Len(runs) : runs'[i] \in RunRows
    BY <1>3, <1>4
  <2>2. runs' = [i \in 1..Len(runs) |-> runs'[i]]
    BY <1>3
  <2> QED
    BY <1>3, <2>1, <2>2
<1>6. \A i \in E : i \in DOMAIN runs /\ runs[i].state = "queued"
  BY DEF Active
<1>7. RunsMove
  BY <1>1, <1>4, <1>5, <1>6 DEF RunsMove
<1>8. \A i \in DOMAIN runs : runs[i].at \in Nat /\ runs[i].at <= now
  BY <1>3 DEF NInv, RunsInTurn, RunRows
<1>9. RunsInTurn'
  <2>1. \A i \in DOMAIN runs' : runs'[i].at <= now'
    BY <1>1, <1>4, <1>5, <1>8
  <2>2. \A i, j \in DOMAIN runs' : i < j => runs'[i].at < runs'[j].at /\ runs'[i].state \in TerminalRun
    <3> SUFFICES ASSUME NEW i \in DOMAIN runs, NEW j \in DOMAIN runs, i < j
                 PROVE  runs'[i].at < runs'[j].at /\ runs'[i].state \in TerminalRun
      BY <1>5
    <3>1. runs[i].at < runs[j].at /\ runs[i].state \in TerminalRun
      BY DEF NInv, RunsInTurn
    <3>2. i \notin E
      BY <1>6, <3>1 DEF TerminalRun
    <3>3. CASE j \in E
      BY <1>1, <1>4, <1>8, <3>1, <3>2, <3>3
    <3>4. CASE j \notin E
      BY <1>4, <3>1, <3>2, <3>4
    <3> QED
      BY <3>3, <3>4
  <2> QED
    BY <2>1, <2>2 DEF RunsInTurn
<1> QED
  BY <1>7, <1>9, RoomStep

\* The worker, the reconciler or a teacher ends a run.
LEMMA SettleStep ==
  ASSUME NInv, NEW i \in DOMAIN runs, NEW st \in TerminalRun, SettleRun(i, st)
  PROVE  NInv'
<1>1. {i} \in SUBSET Active
  BY DEF SettleRun
<1>2. runs' = [k \in DOMAIN runs |-> IF k \in {i} THEN [state |-> st, at |-> Stamp] ELSE runs[k]]
  <2>1. runs \in Seq(RunRows)
    BY DEF NInv, NovaTypes
  <2> QED
    BY <2>1 DEF SettleRun
<1>3. Stamped /\ allowed' = allowed /\ health' = health /\ UNCHANGED novaPage
  BY DEF SettleRun
<1>4. allowed \in BOOLEAN
  BY DEF NInv, NovaTypes
<1> QED
  BY <1>1, <1>2, <1>3, <1>4, EndsStep

\* setEnabled: disabling ends the active run.
LEMMA EnabledStep ==
  ASSUME NInv, NEW e \in BOOLEAN, SetEnabled(e)
  PROVE  NInv'
<1> DEFINE E == IF e THEN {} ELSE Active
<1>1. E \in SUBSET Active /\ "cancelled" \in TerminalRun
  BY DEF TerminalRun
<1>2. runs' = [k \in DOMAIN runs |-> IF k \in E THEN [state |-> "cancelled", at |-> Stamp] ELSE runs[k]]
  BY DEF SetEnabled
<1>3. Stamped /\ allowed' = e /\ health' = health /\ UNCHANGED novaPage
  BY DEF SetEnabled
<1> HIDE DEF E
<1> QED
  BY <1>1, <1>2, <1>3, EndsStep

-----------------------------------------------------------------------------
(* The page's steps.                                                       *)

\* The provider's health is no part of what was true of a run.
LEMMA HealthStep ==
  ASSUME NInv, HealthMoves
  PROVE  NInv'
<1>1. health' \in Healths /\ UNCHANGED <<now, novaRoom, novaPage>>
  BY DEF HealthMoves
<1>2. NovaTypes'
  BY <1>1 DEF NInv, NovaTypes, novaRoom, novaPage
<1>3. RunsInTurn' /\ AsksInTurn' /\ AwaitedFollows'
  BY <1>1 DEF NInv, RunsInTurn, AsksInTurn, AwaitedFollows, Follows, novaRoom, novaPage
<1>4. ToldIsTrue' /\ PageIsTrue'
  BY <1>1 DEF NInv, ToldIsTrue, PageIsTrue, WasTrue, novaRoom, novaPage
<1> QED
  BY <1>2, <1>3, <1>4 DEF NInv

\* A request is made: nobody answered it yet, and older ones are no longer awaited.
LEMMA ResumeCompleteStep ==
  ASSUME NInv, ResumeComplete
  PROVE  NInv'
<1> DEFINE a == [by |-> refreshes + 1, step |-> "asked", health |-> {}, told |-> {}]
<1>1. /\ refreshes' = refreshes + 1 /\ asks' = asks \cup {a} /\ statusPending' = TRUE /\ live = TRUE
      /\ UNCHANGED <<now, health, novaRoom, live, frame, runAt, metaAt, unsure, answer>>
  BY DEF ResumeComplete, Refreshing
<1>2. refreshes \in Nat /\ asks \subseteq Asks
  BY DEF NInv, NovaTypes
<1>3. a \in Asks /\ a.by = refreshes + 1 /\ a.step = "asked" /\ a.told = {}
  BY <1>2 DEF Asks
<1> HIDE DEF a
<1>4. \A b \in asks : b.by \in Nat /\ b.by <= refreshes
  BY <1>2 DEF NInv, AsksInTurn, Asks
<1>5. NovaTypes'
  BY <1>1, <1>2, <1>3 DEF NInv, NovaTypes, novaRoom
<1>6. RunsInTurn'
  BY <1>1 DEF NInv, RunsInTurn, novaRoom
<1>7. AsksInTurn'
  <2>1. \A b \in asks' : b.by <= refreshes'
    BY <1>1, <1>2, <1>3, <1>4
  <2>2. \A b, c \in asks' : b.by = c.by => b = c
    BY <1>1, <1>2, <1>3, <1>4 DEF NInv, AsksInTurn
  <2> QED
    BY <1>1, <1>3, <2>1, <2>2 DEF NInv, AsksInTurn
<1>8. ToldIsTrue'
  BY <1>1, <1>3 DEF NInv, ToldIsTrue, WasTrue, novaRoom
<1>9. PageIsTrue'
  BY <1>1 DEF NInv, PageIsTrue, WasTrue, novaRoom
<1>10. AwaitedFollows'
  BY <1>1, <1>2, <1>3, <1>4 DEF AwaitedFollows
<1> QED
  BY <1>5, <1>6, <1>7, <1>8, <1>9, <1>10 DEF NInv

\* A request moves on: only what it holds changes.
LEMMA AskMoves ==
  ASSUME NInv, NEW a \in asks, NEW b \in Asks, b.by = a.by, asks' = (asks \ {a}) \cup {b},
         now' \in {now, now + 1},
         UNCHANGED <<health, novaRoom, live, refreshes, frame, runAt, metaAt, statusPending,
                     unsure, answer>>,
         b.step = "health" => \E h \in Healths : b.health = {h},
         b.step = "answered" => \E c \in Answers : b.told = {c},
         b.step # "answered" => b.told = {},
         \A c \in b.told : c.runAt <= now' /\ c.at <= now' /\ WasTrue(c.run, c.runAt),
         b.by = refreshes => \A c \in b.told, f \in answer : Follows(f.run, c)
  PROVE  NInv'
<1>1. now \in Nat /\ now' \in Nat /\ now <= now' /\ asks \subseteq Asks
  BY DEF NInv, NovaTypes
<1>2. NovaTypes'
  <2>1. runAt' \in 0..now' /\ metaAt' \in 0..now'
    BY <1>1 DEF NInv, NovaTypes
  <2> QED
    BY <1>1, <2>1 DEF NInv, NovaTypes, novaRoom
<1>3. RunsInTurn'
  <2>1. \A i \in DOMAIN runs : runs[i].at \in Nat
    <3>1. \A row \in RunRows : row.at \in Nat
      BY DEF RunRows
    <3> QED
      BY <3>1 DEF NInv, NovaTypes
  <2> QED
    BY <1>1, <2>1 DEF NInv, RunsInTurn, novaRoom
<1>4. AsksInTurn'
  BY DEF NInv, AsksInTurn
<1>5. ToldIsTrue'
  <2>1. \A c \in Answers : c.runAt \in Nat /\ c.at \in Nat
    BY DEF Answers
  <2>2. \A d \in asks, c \in Answers : c \in d.told => c.runAt <= now' /\ c.at <= now'
    BY <1>1, <2>1 DEF NInv, ToldIsTrue
  <2>3. \A d \in asks : \A c \in d.told : c \in Answers
    BY <1>1 DEF Asks
  <2>4. \A run, at : WasTrue(run, at)' = WasTrue(run, at)
    BY DEF WasTrue, novaRoom
  <2> QED
    BY <2>2, <2>3, <2>4 DEF NInv, ToldIsTrue, WasTrue, novaRoom
<1>6. PageIsTrue'
  BY DEF NInv, PageIsTrue, WasTrue, novaRoom
<1>7. AwaitedFollows'
  BY DEF NInv, AwaitedFollows, Follows
<1> QED
  BY <1>2, <1>3, <1>4, <1>5, <1>6, <1>7 DEF NInv

\* getCurrent, first half.
LEMMA ReadHealthStep ==
  ASSUME NInv, NEW a \in asks, ReadHealth(a)
  PROVE  NInv'
<1> DEFINE b == [a EXCEPT !.step = "health", !.health = {health}]
<1>1. a \in Asks /\ health \in Healths /\ a.told = {}
  BY DEF NInv, NovaTypes, AsksInTurn, ReadHealth
<1>2. b \in Asks /\ b.by = a.by /\ b.step = "health" /\ b.health = {health} /\ b.told = {}
  BY <1>1 DEF Asks
<1>3. /\ asks' = (asks \ {a}) \cup {b} /\ now' = now
      /\ UNCHANGED <<health, novaRoom, live, refreshes, frame, runAt, metaAt, statusPending,
                     unsure, answer>>
  BY DEF ReadHealth
<1> HIDE DEF b
<1> QED
  BY <1>1, <1>2, <1>3, AskMoves

\* The latest run is the last one, and the answer about it is true and follows what
\* the page took before.
LEMMA ReadCurrentStep ==
  ASSUME NInv, NEW a \in asks, ReadCurrent(a)
  PROVE  NInv'
<1> DEFINE L == Len(runs)
           run == ShownRun(LatestRun)
           at == IF LatestRun = {} THEN Stamp ELSE runs[CHOOSE j \in LatestRun : TRUE].at
           c == [run |-> run, runAt |-> at, health |-> CHOOSE h \in a.health : TRUE,
                 allowed |-> allowed, at |-> Stamp]
           b == [a EXCEPT !.step = "answered", !.told = {c}]
<1>1. /\ now \in Nat /\ Stamp = now + 1 /\ a \in Asks /\ allowed \in BOOLEAN /\ runs \in Seq(RunRows)
      /\ a.step = "health" /\ refreshes \in Nat /\ runAt \in 0..now /\ metaAt \in 0..now
  BY DEF NInv, NovaTypes, ReadCurrent, Stamp
<1>2. L \in Nat /\ DOMAIN runs = 1..L /\ \A i \in 1..L : runs[i].at \in Nat /\ runs[i].at <= now
                 /\ runs[i].state \in {"queued"} \cup TerminalRun
  <2>1. \A row \in RunRows : row.at \in Nat /\ row.state \in {"queued"} \cup TerminalRun
    BY DEF RunRows
  <2> QED
    BY <1>1, <2>1 DEF NInv, RunsInTurn
<1> HIDE DEF L
<1>3. /\ L = 0 => LatestRun = {}
      /\ L > 0 => LatestRun = {L}
  <2>1. L = 0 => LatestRun = {}
    BY <1>2 DEF LatestRun
  <2>2. ASSUME L > 0 PROVE LatestRun = {L}
    <3>1. \A i \in 1..L : i # L => runs[i].at < runs[L].at
      <4>1. L \in 1..L /\ \A i \in 1..L : i # L => i < L
        BY <1>2, <2>2
      <4> QED
        BY <1>2, <4>1 DEF NInv, RunsInTurn
    <3>2. L \in LatestRun
      BY <1>2, <2>2, <3>1 DEF LatestRun
    <3>3. \A i \in LatestRun : i = L
      BY <1>2, <2>2, <3>1 DEF LatestRun
    <3> QED
      BY <3>2, <3>3
  <2> QED
    BY <2>1, <2>2
<1>4. /\ L = 0 => run = [id |-> 0, state |-> "idle"] /\ at = now + 1
      /\ L > 0 => run = [id |-> L, state |-> runs[L].state] /\ at = runs[L].at
  BY <1>1, <1>3, OnlyOne DEF ShownRun
<1> HIDE DEF run, at
<1>5. run \in RunsShown /\ at \in Nat /\ at <= now + 1
  BY <1>1, <1>2, <1>4 DEF RunsShown
<1>6. WasTrue(run, at)
  <2>1. CASE L = 0
    BY <1>2, <1>4, <2>1 DEF WasTrue
  <2>2. CASE L > 0
    BY <1>2, <1>4, <2>2, ElementOfSeq DEF WasTrue, TerminalRun
  <2> QED
    BY <1>2, <2>1, <2>2
<1>7. \E h \in Healths : a.health = {h}
  BY <1>1 DEF NInv, AsksInTurn
<1>8. c \in Answers /\ c.run = run /\ c.runAt = at /\ c.at = now + 1
  <2>1. (CHOOSE h \in a.health : TRUE) \in Healths
    BY <1>7, OnlyOne
  <2> QED
    BY <1>1, <1>5, <2>1 DEF Answers
<1>9. \A f \in answer : Follows(f.run, c)
  <2> SUFFICES ASSUME NEW f \in answer PROVE Follows(f.run, c)
    OBVIOUS
  <2>1. WasTrue(f.run, runAt) /\ f.run \in RunsShown
    BY DEF NInv, PageIsTrue, NovaTypes, Answers
  <2>2. f.run.id \in Nat /\ f.run = [id |-> f.run.id, state |-> f.run.state]
    BY <2>1 DEF RunsShown
  <2> HIDE DEF c
  <2>3. c.at > metaAt
    BY <1>1, <1>8
  <2>4. CASE f.run.id = 0
    <3>1. L = 0 => run = f.run
      BY <1>4, <2>1, <2>2, <2>4 DEF WasTrue
    <3>2. L > 0 => run.id # 0 /\ at > runAt
      BY <1>2, <1>4, <2>1, <2>4 DEF WasTrue
    <3> QED
      BY <1>2, <1>8, <2>3, <2>4, <3>1, <3>2 DEF Follows
  <2>5. CASE f.run.id # 0
    <3>1. f.run.id \in 1..L /\ L > 0
      BY <1>2, <2>1, <2>5 DEF WasTrue
    <3>2. run.id = L /\ run.state = runs[L].state /\ at = runs[L].at
      BY <1>4, <3>1
    <3>3. CASE f.run.id = L
      <4>1. at >= runAt
        BY <1>1, <1>2, <2>1, <2>5, <3>1, <3>2, <3>3 DEF WasTrue
      <4>2. run = f.run \/ (f.run.state = "queued" /\ run.state \in TerminalRun)
        <5>1. runs[L].state = f.run.state \/ (f.run.state = "queued" /\ runs[L].state \in TerminalRun)
          BY <2>1, <2>5, <3>3 DEF WasTrue
        <5> QED
          BY <1>4, <2>2, <3>1, <3>2, <3>3, <5>1
      <4> QED
        BY <1>8, <2>3, <2>5, <3>1, <3>2, <3>3, <4>1, <4>2 DEF Follows
    <3>4. CASE f.run.id # L
      <4>1. runAt < at
        BY <1>2, <2>1, <2>5, <3>1, <3>2, <3>4 DEF WasTrue
      <4> QED
        BY <1>1, <1>5, <1>8, <2>3, <2>5, <3>1, <3>2, <3>4, <4>1 DEF Follows
    <3> QED
      BY <3>3, <3>4
  <2> QED
    BY <2>4, <2>5
<1>10. /\ asks' = (asks \ {a}) \cup {b} /\ now' = now + 1
       /\ UNCHANGED <<health, novaRoom, live, refreshes, frame, runAt, metaAt, statusPending,
                      unsure, answer>>
  BY DEF ReadCurrent, Stamped, Stamp, run, at
<1> HIDE DEF c
<1>11. b \in Asks /\ b.by = a.by /\ b.step = "answered" /\ b.told = {c}
  BY <1>1, <1>8 DEF Asks
<1>12. c.runAt <= now' /\ c.at <= now' /\ WasTrue(c.run, c.runAt)
  BY <1>1, <1>5, <1>6, <1>8, <1>10
<1> HIDE DEF b
<1> QED
  BY <1>8, <1>9, <1>10, <1>11, <1>12, AskMoves

\* The merge of an answer that follows the page's gives that answer.
LEMMA MergeIsAnswer ==
  ASSUME NInv, NEW c \in Answers, Merge(c), WasTrue(c.run, c.runAt), c.runAt <= now, c.at <= now,
         \A f \in answer : Follows(f.run, c)
  PROVE  /\ frame' = {[run |-> c.run, health |-> c.health, allowed |-> c.allowed]}
         /\ metaAt' = c.at /\ runAt' \in 0..now /\ WasTrue(c.run, runAt')
<1>1. /\ now \in Nat /\ runAt \in 0..now /\ metaAt \in 0..now /\ answer \subseteq Answers
      /\ frame = {[run |-> f.run, health |-> f.health, allowed |-> f.allowed] : f \in answer}
  BY DEF NInv, NovaTypes, PageIsTrue
<1>2. c.runAt \in Nat /\ c.at \in Nat /\ c.run \in RunsShown
  BY DEF Answers
<1>3. CASE frame = {}
  BY <1>1, <1>2, <1>3 DEF Merge
<1>4. CASE frame # {}
  <2>1. PICK f \in answer : TRUE
    BY <1>1, <1>4
  <2>2. answer = {f} /\ WasTrue(f.run, runAt) /\ Follows(f.run, c) /\ f \in Answers
    BY <1>1 DEF NInv, PageIsTrue
  <2> DEFINE old == [run |-> f.run, health |-> f.health, allowed |-> f.allowed]
  <2>3. (CHOOSE g \in frame : TRUE) = old
    <3>1. frame = {old}
      BY <1>1, <2>2
    <3> QED
      BY <3>1, OnlyOne
  <2>4. old.run = f.run
    OBVIOUS
  <2> HIDE DEF old
  <2>5. c.at > metaAt
    BY <2>2 DEF Follows
  <2>6. CASE AcceptRun(f.run, c.run, c.runAt)
    <3>1. frame' = {[run |-> c.run, health |-> c.health, allowed |-> c.allowed]} /\ metaAt' = c.at
      BY <1>4, <2>3, <2>4, <2>5, <2>6 DEF Merge
    <3>2. runAt' = c.runAt
      BY <1>4, <2>3, <2>4, <2>6 DEF Merge
    <3> QED
      BY <1>1, <1>2, <3>1, <3>2
  <2>7. CASE ~AcceptRun(f.run, c.run, c.runAt)
    <3>1. f.run \in RunsShown /\ f.run.id \in Nat /\ c.run.id \in Nat
      BY <1>2, <2>2 DEF Answers, RunsShown
    <3>2. c.run = f.run
      BY <1>1, <1>2, <2>2, <2>7, <3>1 DEF AcceptRun, Follows, TerminalRun
    <3> QED
      BY <1>1, <1>2, <1>4, <2>2, <2>3, <2>4, <2>5, <2>7, <3>2 DEF Merge
  <2> QED
    BY <2>6, <2>7
<1> QED
  BY <1>3, <1>4

\* Requests go away and the page stays.
LEMMA DroppedAsk ==
  ASSUME NInv, NEW a \in asks, asks' = asks \ {a},
         UNCHANGED <<now, health, novaRoom, live, refreshes, frame, runAt, metaAt, answer>>,
         ~live => UNCHANGED <<unsure, statusPending>>
  PROVE  NInv'
<1>1. NovaTypes'
  BY DEF NInv, NovaTypes, novaRoom
<1>2. RunsInTurn' /\ AsksInTurn'
  BY DEF NInv, RunsInTurn, AsksInTurn, novaRoom
<1>3. ToldIsTrue' /\ PageIsTrue'
  BY DEF NInv, ToldIsTrue, PageIsTrue, WasTrue, novaRoom
<1>4. AwaitedFollows'
  BY DEF NInv, AwaitedFollows, Follows
<1> QED
  BY <1>1, <1>2, <1>3, <1>4 DEF NInv

\* #refreshAgentCurrent takes the answer it awaits and drops any other.
LEMMA ReceiveStep ==
  ASSUME NInv, NEW a \in asks, ReceiveCurrent(a)
  PROVE  NInv'
<1>1. asks' = asks \ {a} /\ UNCHANGED <<now, health, novaRoom, live, refreshes>> /\ a.step = "answered"
  BY DEF ReceiveCurrent
<1>2. CASE ~Awaited(a)
  BY <1>1, <1>2, DroppedAsk DEF ReceiveCurrent
<1>3. CASE Awaited(a)
  <2>1. PICK c \in Answers : a.told = {c}
    BY <1>1 DEF NInv, AsksInTurn
  <2>2. c = (CHOOSE d \in a.told : TRUE)
    BY <2>1, OnlyOne
  <2>3. Merge(c) /\ answer' = {c} /\ unsure' = FALSE /\ statusPending' = FALSE
    BY <1>3, <2>2 DEF ReceiveCurrent
  <2>4. c.runAt <= now /\ c.at <= now /\ WasTrue(c.run, c.runAt)
    BY <2>1 DEF NInv, ToldIsTrue
  <2>5. \A f \in answer : Follows(f.run, c)
    BY <1>3, <2>1 DEF NInv, AwaitedFollows, Awaited
  <2>6. /\ frame' = {[run |-> c.run, health |-> c.health, allowed |-> c.allowed]}
        /\ metaAt' = c.at /\ runAt' \in 0..now /\ WasTrue(c.run, runAt')
    BY <2>3, <2>4, <2>5, MergeIsAnswer
  <2>7. NovaTypes'
    <3>1. metaAt' \in 0..now
      BY <2>4, <2>6 DEF Answers, NInv, NovaTypes
    <3> QED
      BY <1>1, <2>3, <2>6, <3>1 DEF NInv, NovaTypes, novaRoom
  <2>8. RunsInTurn' /\ AsksInTurn'
    BY <1>1 DEF NInv, RunsInTurn, AsksInTurn, novaRoom
  <2>9. ToldIsTrue'
    BY <1>1 DEF NInv, ToldIsTrue, WasTrue, novaRoom
  <2>10. PageIsTrue'
    <3>1. WasTrue(c.run, runAt)'
      BY <1>1, <2>6 DEF WasTrue, novaRoom
    <3>2. live'
      BY <1>1, <1>3 DEF Awaited
    <3> QED
      BY <2>3, <2>6, <3>1, <3>2 DEF PageIsTrue
  <2>11. AwaitedFollows'
    <3>1. \A d \in asks' : d.by # refreshes'
      BY <1>1, <1>3 DEF NInv, AsksInTurn, Awaited
    <3> QED
      BY <3>1 DEF AwaitedFollows
  <2> QED
    BY <2>7, <2>8, <2>9, <2>10, <2>11 DEF NInv
<1> QED
  BY <1>2, <1>3

\* A refusal, or the timer: the page is cleared or stays as it is.
LEMMA RefuseStep ==
  ASSUME NInv, NEW a \in asks, NEW code, RefuseCurrent(a, code)
  PROVE  NInv'
<1>1. CASE FailCurrent(a)
  BY <1>1, DroppedAsk DEF FailCurrent, Awaited
<1>2. CASE ClearPage(a)
  <2>1. /\ asks' = asks \ {a} /\ UNCHANGED <<now, health, novaRoom>> /\ refreshes' = refreshes + 1
        /\ frame' = {} /\ runAt' = 0 /\ metaAt' = 0 /\ answer' = {}
        /\ live' = FALSE /\ statusPending' = FALSE /\ unsure' = FALSE
    BY <1>2 DEF ClearPage
  <2>2. refreshes \in Nat /\ now \in Nat /\ \A b \in asks : b.by \in Nat
    BY DEF NInv, NovaTypes, Asks
  <2>3. NovaTypes'
    BY <2>1, <2>2 DEF NInv, NovaTypes, novaRoom
  <2>4. RunsInTurn'
    BY <2>1 DEF NInv, RunsInTurn, novaRoom
  <2>5. AsksInTurn'
    BY <2>1, <2>2 DEF NInv, AsksInTurn
  <2>6. ToldIsTrue'
    BY <2>1 DEF NInv, ToldIsTrue, WasTrue, novaRoom
  <2>7. PageIsTrue' /\ AwaitedFollows'
    BY <2>1 DEF PageIsTrue, AwaitedFollows
  <2> QED
    BY <2>3, <2>4, <2>5, <2>6, <2>7 DEF NInv
<1> QED
  BY <1>1, <1>2 DEF RefuseCurrent

-----------------------------------------------------------------------------

\* A page that has asked for nothing.
LEMMA InitNInv == NovaInit => NInv
<1> SUFFICES ASSUME NovaInit PROVE NInv
  OBVIOUS
<1>1. NovaTypes
  BY DEF NovaInit, NovaTypes
<1>2. RunsInTurn /\ AsksInTurn /\ ToldIsTrue /\ AwaitedFollows
  BY DEF NovaInit, RunsInTurn, AsksInTurn, ToldIsTrue, AwaitedFollows
<1>3. PageIsTrue
  BY DEF NovaInit, PageIsTrue
<1> QED
  BY <1>1, <1>2, <1>3 DEF NInv

\* One case per action.
LEMMA NextNInv == NInv /\ [NovaNext]_novaVars => NInv'
<1> SUFFICES ASSUME NInv, [NovaNext]_novaVars PROVE NInv'
  OBVIOUS
<1>1. CASE HealthMoves \/ RequestRun \/ ResumeComplete
  BY <1>1, HealthStep, RequestStep, ResumeCompleteStep
<1>2. CASE \E i \in DOMAIN runs, st \in TerminalRun : SettleRun(i, st)
  BY <1>2, SettleStep
<1>3. CASE \E a \in asks : ReadHealth(a) \/ ReadCurrent(a) \/ ReceiveCurrent(a)
  BY <1>3, ReadHealthStep, ReadCurrentStep, ReceiveStep
<1>4. CASE \E a \in asks, code \in RoomLost \cup Unanswered : RefuseCurrent(a, code)
  BY <1>4, RefuseStep
<1>5. CASE \E e \in BOOLEAN : SetEnabled(e)
  BY <1>5, EnabledStep
<1>6. CASE UNCHANGED novaVars
  <2>1. UNCHANGED <<now, health, novaRoom, novaPage>>
    BY <1>6 DEF novaVars
  <2>2. NovaTypes'
    BY <2>1 DEF NInv, NovaTypes, novaRoom, novaPage
  <2>3. RunsInTurn' /\ AsksInTurn' /\ AwaitedFollows'
    BY <2>1 DEF NInv, RunsInTurn, AsksInTurn, AwaitedFollows, Follows, novaRoom, novaPage
  <2>4. ToldIsTrue' /\ PageIsTrue'
    BY <2>1 DEF NInv, ToldIsTrue, PageIsTrue, WasTrue, novaRoom, novaPage
  <2> QED
    BY <2>2, <2>3, <2>4 DEF NInv
<1> QED
  BY <1>1, <1>2, <1>3, <1>4, <1>5, <1>6 DEF NovaNext

(* However many requests supersede each other, and whatever happens to the *)
(* runs between two answers, the frame the panel reads is exactly the      *)
(* latest answer the page took (#mergeAgentFrame, acceptAgentRunTransition). *)
THEOREM StatusIsLatestAnswer == NovaSpec => []FrameIsLatestAnswer
<1>1. NovaInit => NInv
  BY InitNInv
<1>2. NInv /\ [NovaNext]_novaVars => NInv'
  BY NextNInv
<1>3. NInv => FrameIsLatestAnswer
  <2> SUFFICES ASSUME NInv PROVE FrameIsLatestAnswer
    OBVIOUS
  <2>1. frame = {[run |-> c.run, health |-> c.health, allowed |-> c.allowed] : c \in answer}
    BY DEF NInv, PageIsTrue
  <2>2. ASSUME ~live PROVE Says = "nothing"
    <3>1. answer = {} /\ ~statusPending /\ ~unsure
      BY <2>2 DEF NInv, PageIsTrue
    <3>2. frame = {}
      BY <2>1, <3>1
    <3> QED
      BY <3>1, <3>2 DEF Says
  <2> QED
    BY <2>1, <2>2 DEF FrameIsLatestAnswer
<1> QED
  BY <1>1, <1>2, <1>3, PTL DEF NovaSpec

-----------------------------------------------------------------------------
(* The teacher's console.                                                  *)

ArtifactPages == [items : Seq(Artifacts), next : Nat]

\* The four request slots have their shapes.
CallsKnown ==
  /\ calls = [load |-> calls.load, more |-> calls.more, act |-> calls.act, look |-> calls.look]
  /\ calls.load \in [state : {"idle", "sent", "refused"}]
                      \cup [state : {"accepted", "refused"}, page : ArtifactPages]
  /\ calls.more \in [state : {"idle", "refused"}]
                      \cup [state : {"sent", "refused"}, after : Nat]
                      \cup [state : {"accepted", "refused"}, page : ArtifactPages]
  /\ calls.act # Idle =>
       calls.act = [state |-> calls.act.state, fact |-> calls.act.fact,
                    picked |-> calls.act.picked, command |-> calls.act.command]

ConsoleTypes ==
  /\ board.version \in Nat \ {0} /\ 0 \notin board.reviewed
  /\ echo.version \in Nat /\ echo.version <= board.version
  /\ prepared \in Nat /\ next \in Nat /\ queue \in Seq(Artifacts)
  /\ CallsKnown
  /\ echo.version = 0 => calls.more = Idle

\* The selectors are those of the queue's authority, and a command under way names
\* an authority that was published.
SelectorsSet ==
  /\ Prepared => picked = echo.version
  /\ calls.act # Idle => calls.act.command.key \in Nat /\ calls.act.command.key <= board.version

Unreviewed(q) == \A i \in 1..Len(q) : q[i] \notin board.reviewed
InOrder(q) == \A i, j \in 1..Len(q) : i < j => q[i] < q[j]
UpTo(q, n) == \A i \in 1..Len(q) : q[i] <= n
Before(q, r) == \A i \in 1..Len(q), j \in 1..Len(r) : q[i] < r[j]

\* The first page of the queue as it stands.
FirstPage == ArtifactPage(0)

\* A list of the queue in its order, and the cursor behind it.
PageSound(page) ==
  /\ InOrder(page.items) /\ Unreviewed(page.items)
  /\ page.next # 0 => UpTo(page.items, page.next)
                      /\ \E i \in 1..Len(page.items) : page.items[i] = page.next

\* What is listed is in order and unreviewed, and its cursor is behind it and behind
\* the first page.
QueueSorted ==
  Prepared => /\ InOrder(queue) /\ Unreviewed(queue)
              /\ next # 0 => UpTo(queue, next) /\ UpTo(FirstPage.items, next)

\* A next page asked for, or on its way, comes behind what is listed and behind the
\* first page, which a reload may list again.
NextIsBehind ==
  /\ calls.more.state = "sent" => /\ UpTo(FirstPage.items, calls.more.after)
                                  /\ Prepared => UpTo(queue, calls.more.after)
  /\ calls.more.state = "accepted" =>
       /\ PageSound(calls.more.page)
       /\ Before(FirstPage.items, calls.more.page.items)
       /\ Prepared => Before(queue, calls.more.page.items)

\* While the shown projection is the newest, every list belongs to it.
ListsCurrent ==
  echo.version = board.version =>
    /\ calls.load.state = "accepted" => calls.load.page = FirstPage
    /\ QueueSorted /\ NextIsBehind

CInv == ConsoleTypes /\ SelectorsSet /\ ListsCurrent /\ TargetsAsShown

\* A set of numbers that is not empty has a smallest one.
LEMMA SmallestNumber ==
    ASSUME NEW T \in SUBSET Nat, T # {}
    PROVE  \E x \in T : \A y \in T : x <= y
<1> DEFINE R == OpToRel(<, Nat)
<1>1. IsWellFoundedOn(R, Nat)
  BY NatLessThanWellFounded
<1>2. \A x, y \in Nat : x < y => <<x, y>> \in R
  BY DEF OpToRel
<1> HIDE DEF R
<1>3. PICK x \in T : \A y \in T : ~(<<y, x>> \in R)
  BY <1>1, WFMin
<1>4. \A y \in T : ~(y < x)
  BY <1>2, <1>3
<1>5. \A y \in T : x <= y
  BY <1>4
<1> QED
  BY <1>5

\* The texts of S before n, and how many they are.
Earlier(S, n) == {r \in S : r < n}
Place(S, n) == Cardinality(Earlier(S, n))

\* The texts of a room are finitely many, and so are those of a part of them.
LEMMA PlaceIsNat ==
    ASSUME NEW S \in SUBSET Artifacts, NEW n \in Nat
    PROVE  /\ IsFiniteSet(S) /\ Cardinality(S) \in Nat
           /\ IsFiniteSet(Earlier(S, n)) /\ Place(S, n) \in Nat
<1>1. IsFiniteSet(Artifacts)
  BY FS_Interval, ConsoleBounds DEF Artifacts
<1>2. IsFiniteSet(S)
  BY <1>1, FS_Subset
<1>3. Earlier(S, n) \in SUBSET S
  BY DEF Earlier
<1>4. IsFiniteSet(Earlier(S, n))
  BY <1>2, <1>3, FS_Subset
<1> QED
  BY <1>2, <1>4, FS_CardinalityType DEF Place

\* The place grows at the texts, by one.
LEMMA PlaceStep ==
    ASSUME NEW S \in SUBSET Artifacts, NEW n \in Nat
    PROVE  Place(S, n + 1) = IF n \in S THEN Place(S, n) + 1 ELSE Place(S, n)
<1>1. S \subseteq Nat
  BY ConsoleBounds DEF Artifacts
<1>2. IsFiniteSet(Earlier(S, n)) /\ n \notin Earlier(S, n)
  BY <1>1, PlaceIsNat DEF Earlier
<1>3. \A r \in S : r < n + 1 <=> r < n \/ r = n
  BY <1>1
<1>4. CASE n \in S
  <2>1. Earlier(S, n + 1) = Earlier(S, n) \cup {n}
    BY <1>3, <1>4, Zenon DEF Earlier
  <2> QED
    BY <2>1, <1>2, <1>4, FS_AddElement DEF Place
<1>5. CASE n \notin S
  <2>1. Earlier(S, n + 1) = Earlier(S, n)
    BY <1>3, <1>5, Zenon DEF Earlier
  <2> QED
    BY <2>1, <1>5 DEF Place
<1> QED
  BY <1>4, <1>5

\* A later text is not at an earlier place.
LEMMA PlaceOrder ==
    ASSUME NEW S \in SUBSET Artifacts, NEW s \in S, NEW t \in S, t <= s
    PROVE  Place(S, t) <= Place(S, s)
<1>1. S \subseteq Nat
  BY ConsoleBounds DEF Artifacts
<1>2. \A r \in S : r < t => r < s
  BY <1>1
<1>3. Earlier(S, t) \in SUBSET Earlier(S, s)
  BY <1>2, Zenon DEF Earlier
<1>4. IsFiniteSet(Earlier(S, s))
  BY <1>1, PlaceIsNat
<1> QED
  BY <1>3, <1>4, FS_Subset DEF Place

\* Every place below the size is taken.
LEMMA PlaceTaken ==
    ASSUME NEW S \in SUBSET Artifacts, NEW i \in 1 .. Cardinality(S)
    PROVE  \E s \in S : Place(S, s) = i - 1
<1> DEFINE T == {n \in Nat : Place(S, n) >= i}
<1>1. S \subseteq Nat /\ MaxArtifacts + 1 \in Nat /\ Cardinality(S) \in Nat
  BY ConsoleBounds, PlaceIsNat DEF Artifacts
<1>2. MaxArtifacts + 1 \in T
  <2>0. \A r \in S : r < MaxArtifacts + 1
    BY ConsoleBounds DEF Artifacts
  <2>1. Earlier(S, MaxArtifacts + 1) = S
    BY <2>0, Zenon DEF Earlier
  <2> QED
    BY <2>1, <1>1 DEF Place
<1>3. PICK n \in T : \A m \in T : n <= m
  BY <1>2, SmallestNumber
<1>4. n \in Nat /\ Place(S, n) >= i /\ Place(S, n) \in Nat
  BY <1>3, PlaceIsNat
<1>5. n # 0
  <2>0. \A r \in S : ~(r < 0)
    BY <1>1
  <2>1. Earlier(S, 0) = {}
    BY <2>0, Zenon DEF Earlier
  <2>2. Place(S, 0) = 0
    BY <2>1, FS_EmptySet DEF Place
  <2> QED
    BY <2>2, <1>4, <1>1
<1>6. n - 1 \in Nat /\ n = (n - 1) + 1 /\ Place(S, n - 1) \in Nat
  BY <1>4, <1>5, PlaceIsNat
<1>7. ~(Place(S, n - 1) >= i)
  BY <1>3, <1>4, <1>6
<1>8. Place(S, n) = IF n - 1 \in S THEN Place(S, n - 1) + 1 ELSE Place(S, n - 1)
  BY <1>6, PlaceStep
<1>9. n - 1 \in S /\ Place(S, n - 1) = i - 1
  BY <1>1, <1>4, <1>6, <1>7, <1>8
<1> QED
  BY <1>9

\* What listArtifacts answers: the texts behind the cursor, in order, none of them
\* reviewed, and a cursor that is the last of them.
LEMMA PageFacts ==
    ASSUME NEW after \in Nat
    PROVE  LET page == ArtifactPage(after)
           IN  /\ page \in ArtifactPages /\ PageSound(page)
               /\ \A i \in 1..Len(page.items) : page.items[i] > after
<1> DEFINE left == {a \in Artifacts \ board.reviewed : a > after}
           more == Cardinality(left) > PageSize
           n == IF more THEN PageSize ELSE Cardinality(left)
           pick(i) == CHOOSE a \in left : Place(left, a) = i - 1
           items == [i \in 1..n |-> pick(i)]
           page == ArtifactPage(after)
<1>1. page = [items |-> items, next |-> IF more THEN items[PageSize] ELSE 0]
  BY DEF ArtifactPage, Place, Earlier
<1>2. left \in SUBSET Artifacts /\ left \subseteq Nat /\ Artifacts \subseteq Nat
  BY ConsoleBounds DEF Artifacts
<1>3. \A a \in left : a \in Artifacts /\ a \notin board.reviewed /\ a > after
  OBVIOUS
<1> HIDE DEF left
<1>4. /\ Cardinality(left) \in Nat /\ n \in Nat /\ n <= Cardinality(left)
      /\ (more => n = PageSize /\ PageSize >= 1)
  <2>1. Cardinality(left) \in Nat
    BY <1>2, PlaceIsNat
  <2> QED
    BY <2>1, ConsoleBounds
<1>5. \A i \in 1..n : pick(i) \in left /\ Place(left, pick(i)) = i - 1
  <2>1. \A i \in 1..n : i \in 1..Cardinality(left)
    BY <1>4
  <2>2. \A i \in 1..n : \E a \in left : Place(left, a) = i - 1
    BY <2>1, <1>2, PlaceTaken
  <2> QED
    BY <2>2
<1> HIDE DEF pick, n, more
<1>6. items \in Seq(Artifacts) /\ Len(items) = n /\ \A i \in 1..n : items[i] = pick(i)
  <2>1. \A i \in 1..n : pick(i) \in Artifacts
    BY <1>2, <1>5
  <2> QED
    BY <2>1, <1>4
<1>7. InOrder(items)
  <2>1. SUFFICES ASSUME NEW i \in 1..n, NEW j \in 1..n, i < j
                 PROVE  pick(i) < pick(j)
    BY <1>6 DEF InOrder
  <2>2. /\ Place(left, pick(i)) = i - 1 /\ Place(left, pick(j)) = j - 1
        /\ pick(i) \in left /\ pick(j) \in left
    BY <1>5
  <2>3. ~(pick(j) <= pick(i))
    <3>1. ~(j - 1 <= i - 1)
      BY <2>1, <1>4
    <3> QED
      BY <3>1, <2>2, <1>2, PlaceOrder
  <2>4. pick(i) \in Nat /\ pick(j) \in Nat
    BY <2>2, <1>2
  <2> QED
    BY <2>3, <2>4
<1> HIDE DEF items
<1>8. Unreviewed(items) /\ \A i \in 1..Len(items) : items[i] > after
  BY <1>3, <1>5, <1>6 DEF Unreviewed
<1>9. CASE more
  <2>1. PageSize \in 1..Len(items) /\ Len(items) = PageSize /\ PageSize \in Nat
    BY <1>4, <1>6, <1>9
  <2>2. \A i \in 1..Len(items) : items[i] \in Nat
    BY <1>2, <1>5, <1>6
  <2>3. UpTo(items, items[PageSize])
    <3> SUFFICES ASSUME NEW i \in 1..Len(items) PROVE items[i] <= items[PageSize]
      BY DEF UpTo
    <3>1. i = PageSize \/ i < PageSize
      BY <2>1
    <3> QED
      BY <3>1, <2>1, <2>2, <1>7 DEF InOrder
  <2>4. page.items = items /\ page.next = items[PageSize]
    BY <1>1, <1>9
  <2>5. page \in ArtifactPages
    BY <1>1, <1>6, <1>9, <2>1, <2>2 DEF ArtifactPages
  <2>6. PageSound(page)
    BY <2>1, <2>3, <2>4, <1>7, <1>8 DEF PageSound
  <2> QED
    BY <2>4, <2>5, <2>6, <1>8
<1>10. CASE ~more
  <2>1. page.items = items /\ page.next = 0
    BY <1>1, <1>10
  <2>2. page \in ArtifactPages
    BY <1>1, <1>6, <1>10 DEF ArtifactPages
  <2>3. PageSound(page)
    BY <2>1, <1>7, <1>8 DEF PageSound
  <2> QED
    BY <2>1, <2>2, <2>3, <1>8
<1> QED
  BY <1>9, <1>10

\* One slot is replaced, and the others stay.
LEMMA SlotFacts ==
    ASSUME CallsKnown, NEW x
    PROVE  /\ [calls EXCEPT !.load = x] =
                [load |-> x, more |-> calls.more, act |-> calls.act, look |-> calls.look]
           /\ [calls EXCEPT !.more = x] =
                [load |-> calls.load, more |-> x, act |-> calls.act, look |-> calls.look]
           /\ [calls EXCEPT !.act = x] =
                [load |-> calls.load, more |-> calls.more, act |-> x, look |-> calls.look]
           /\ [calls EXCEPT !.look = x] =
                [load |-> calls.load, more |-> calls.more, act |-> calls.act, look |-> x]
<1> DEFINE a == calls.load
           b == calls.more
           c == calls.act
           d == calls.look
<1>1. calls = [load |-> a, more |-> b, act |-> c, look |-> d]
  BY DEF CallsKnown
<1> HIDE DEF a, b, c, d
<1>2. /\ [calls EXCEPT !.load = x] = [load |-> x, more |-> b, act |-> c, look |-> d]
      /\ [calls EXCEPT !.more = x] = [load |-> a, more |-> x, act |-> c, look |-> d]
      /\ [calls EXCEPT !.act = x] = [load |-> a, more |-> b, act |-> x, look |-> d]
      /\ [calls EXCEPT !.look = x] = [load |-> a, more |-> b, act |-> c, look |-> x]
  BY <1>1
<1> QED
  BY <1>2 DEF a, b, c, d

\* Two slots are replaced, and the others stay.
LEMMA TwoSlots ==
    ASSUME CallsKnown, NEW x, NEW y
    PROVE  [calls EXCEPT !.load = x, !.more = y] =
             [load |-> x, more |-> y, act |-> calls.act, look |-> calls.look]
<1> DEFINE b == calls.more
           c == calls.act
           d == calls.look
           z == [calls EXCEPT !.load = x]
<1>1. z = [load |-> x, more |-> b, act |-> c, look |-> d]
  BY SlotFacts
<1>2. [calls EXCEPT !.load = x, !.more = y] = [z EXCEPT !.more = y]
  OBVIOUS
<1> HIDE DEF b, c, d, z
<1>3. [z EXCEPT !.more = y] = [load |-> x, more |-> y, act |-> c, look |-> d]
  BY <1>1
<1> QED
  BY <1>2, <1>3 DEF b, c, d

\* The invariant holds when the page opens.
LEMMA ConsoleInitInv == ConsoleInit => CInv
<1> SUFFICES ASSUME ConsoleInit PROVE CInv
  OBVIOUS
<1>1. board.version = 1 /\ board.reviewed = {} /\ echo.version = 0
  BY DEF ConsoleInit
<1>2. /\ calls = [load |-> Idle, more |-> Idle, act |-> Idle, look |-> Idle]
      /\ prepared = 0 /\ next = 0 /\ queue = <<>>
  BY DEF ConsoleInit
<1>3. calls.load = Idle /\ calls.more = Idle /\ calls.act = Idle /\ calls.look = Idle
  BY <1>2
<1>4. CallsKnown
  BY <1>2, <1>3 DEF CallsKnown, Idle
<1>5. ConsoleTypes
  BY <1>1, <1>2, <1>3, <1>4 DEF ConsoleTypes
<1> QED
  BY <1>1, <1>3, <1>5 DEF CInv, SelectorsSet, ListsCurrent, TargetsAsShown, Prepared, Shown

\* A step that leaves the board, the lists and their requests alone keeps the lists.
LEMMA ListsAlone ==
    ASSUME CInv, UNCHANGED <<board, echo, prepared, queue, next>>,
           calls'.load = calls.load, calls'.more = calls.more, CallsKnown'
    PROVE  ConsoleTypes' /\ ListsCurrent' /\ (Prepared' <=> Prepared)
<1> USE DEF CInv
<1>1. ConsoleTypes'
  BY DEF ConsoleTypes
<1>2. Prepared' <=> Prepared
  BY DEF Prepared, Shown
<1>3. FirstPage' = FirstPage
  BY DEF FirstPage, ArtifactPage
<1>4. QueueSorted => QueueSorted'
  BY <1>2, <1>3 DEF QueueSorted, Unreviewed
<1>5. NextIsBehind => NextIsBehind'
  BY <1>2, <1>3 DEF NextIsBehind, PageSound, Unreviewed
<1> QED
  BY <1>1, <1>2, <1>3, <1>4, <1>5 DEF ListsCurrent

\* A command that stays, or is answered for, names what it named.
LEMMA ActAlone ==
    ASSUME CInv, UNCHANGED board,
           \/ calls'.act = Idle
           \/ /\ calls.act # Idle
              /\ calls'.act.picked = calls.act.picked /\ calls'.act.command = calls.act.command
    PROVE  /\ TargetsAsShown'
           /\ calls'.act # Idle => calls'.act.command.key \in Nat
                                   /\ calls'.act.command.key <= board'.version
BY DEF CInv, TargetsAsShown, SelectorsSet

\* The slot of the action when its request is answered, lost or refused.
LEMMA ActSlot ==
    ASSUME CallsKnown, calls.act # Idle, NEW st, st # "idle",
           \/ calls' = [calls EXCEPT !.act.state = st]
           \/ \E f : calls' = [calls EXCEPT !.act.state = st, !.act.fact = f]
    PROVE  /\ CallsKnown' /\ calls'.load = calls.load /\ calls'.more = calls.more
           /\ calls'.act.picked = calls.act.picked /\ calls'.act.command = calls.act.command
<1> DEFINE a == calls.act
<1>1. a = [state |-> a.state, fact |-> a.fact, picked |-> a.picked, command |-> a.command]
  BY DEF CallsKnown
<1>2. PICK b : /\ calls' = [calls EXCEPT !.act = b]
               /\ \/ b = [a EXCEPT !.state = st]
                  \/ \E f : b = [a EXCEPT !.state = st, !.fact = f]
  <2>1. CASE calls' = [calls EXCEPT !.act.state = st]
    <3>1. calls' = [calls EXCEPT !.act = [a EXCEPT !.state = st]]
      BY <2>1
    <3> QED
      BY <3>1
  <2>2. CASE \E f : calls' = [calls EXCEPT !.act.state = st, !.act.fact = f]
    <3>1. PICK f : calls' = [calls EXCEPT !.act.state = st, !.act.fact = f]
      BY <2>2
    <3> DEFINE b == [a EXCEPT !.state = st, !.fact = f]
    <3>2. [calls EXCEPT !.act.state = st, !.act.fact = f] = [calls EXCEPT !.act = b]
      <4>1. calls = [load |-> calls.load, more |-> calls.more, act |-> a, look |-> calls.look]
        BY DEF CallsKnown
      <4> QED
        BY <4>1, <1>1
    <3> QED
      BY <3>1, <3>2
  <2> QED
    BY <2>1, <2>2
<1>3. calls' = [load |-> calls.load, more |-> calls.more, act |-> b, look |-> calls.look]
  BY <1>2, SlotFacts
<1>4. PICK g : b = [state |-> st, fact |-> g, picked |-> a.picked, command |-> a.command]
  <2>1. CASE b = [a EXCEPT !.state = st]
    BY <2>1, <1>1
  <2>2. CASE \E f : b = [a EXCEPT !.state = st, !.fact = f]
    BY <2>2, <1>1
  <2> QED
    BY <1>2, <2>1, <2>2
<1>5. /\ calls'.load = calls.load /\ calls'.more = calls.more /\ calls'.act = b
      /\ calls'.look = calls.look
  BY <1>3
<1>6. b.state = st /\ b.picked = a.picked /\ b.command = a.command /\ b.fact = g
  BY <1>4
<1> HIDE DEF a
<1>7. b = [state |-> b.state, fact |-> b.fact, picked |-> b.picked, command |-> b.command]
  BY <1>4, <1>6
<1>8. CallsKnown'
  BY <1>3, <1>5, <1>7 DEF CallsKnown
<1> QED
  BY <1>5, <1>6, <1>8 DEF a

\* A step that leaves the board, the lists and the selectors alone, and sends no
\* command, keeps the invariant.
LEMMA AsideKeeps ==
    ASSUME CInv, UNCHANGED <<board, echo, prepared, queue, next, picked>>,
           calls'.load = calls.load, calls'.more = calls.more, CallsKnown',
           \/ calls'.act = Idle
           \/ /\ calls.act # Idle
              /\ calls'.act.picked = calls.act.picked /\ calls'.act.command = calls.act.command
    PROVE  CInv'
<1>1. ConsoleTypes' /\ ListsCurrent' /\ (Prepared' <=> Prepared)
  BY ListsAlone
<1>2. /\ TargetsAsShown'
      /\ calls'.act # Idle => calls'.act.command.key \in Nat
                              /\ calls'.act.command.key <= board'.version
  BY ActAlone
<1>3. SelectorsSet'
  BY <1>1, <1>2 DEF CInv, SelectorsSet
<1> QED
  BY <1>1, <1>2, <1>3 DEF CInv

\* The server's answer to a command, and everything that only concerns the action,
\* the newest correction or the room, keep the invariant.
LEMMA ActionKeeps ==
    ASSUME CInv, \/ ServeAction \/ OtherTab \/ ReceiveAction \/ CorrectionNoticed
                 \/ ReceiveLookup \/ CloseRoom \/ Lose("act") \/ Lose("look")
    PROVE  CInv'
<1>1. CallsKnown
  BY DEF CInv, ConsoleTypes
<1>2. UNCHANGED <<board, echo, prepared, queue, next, picked>>
  BY DEF ServeAction, Review, OtherTab, ReceiveAction, CorrectionNoticed, ReceiveLookup,
     CloseRoom, Lose, server, form
<1>3. CASE ServeAction \/ Lose("act")
  <2>1. calls.act # Idle
    BY <1>3 DEF ServeAction, Lose, Idle
  <2>2. \E st \in {"accepted", "refused"} :
           \/ calls' = [calls EXCEPT !.act.state = st]
           \/ \E f : calls' = [calls EXCEPT !.act.state = st, !.act.fact = f]
    <3>1. CASE ServeAction
      BY <3>1 DEF ServeAction, Review
    <3>2. CASE Lose("act")
      BY <3>2 DEF Lose
    <3> QED
      BY <3>1, <3>2, <1>3
  <2>3. /\ CallsKnown' /\ calls'.load = calls.load /\ calls'.more = calls.more
        /\ calls'.act.picked = calls.act.picked /\ calls'.act.command = calls.act.command
    BY <2>1, <2>2, <1>1, ActSlot
  <2> QED
    BY <2>1, <2>3, <1>2, AsideKeeps
<1>4. CASE ReceiveAction
  <2>1. calls' = [load |-> calls.load, more |-> calls.more, act |-> Idle, look |-> calls.look]
    BY <1>4, <1>1, SlotFacts DEF ReceiveAction
  <2>2. /\ calls'.load = calls.load /\ calls'.more = calls.more /\ calls'.act = Idle
        /\ calls'.look = calls.look
    BY <2>1
  <2>3. CallsKnown'
    BY <2>1, <2>2, <1>1 DEF CallsKnown
  <2> QED
    BY <2>2, <2>3, <1>2, AsideKeeps
<1>5. CASE CorrectionNoticed \/ ReceiveLookup \/ Lose("look")
  <2>1. PICK x : calls' = [calls EXCEPT !.look = x]
    <3>1. CASE CorrectionNoticed
      BY <3>1 DEF CorrectionNoticed
    <3>2. CASE ReceiveLookup
      BY <3>2 DEF ReceiveLookup
    <3>3. CASE Lose("look")
      <4>1. calls' = [calls EXCEPT !.look = [calls.look EXCEPT !.state = "refused"]]
        BY <3>3 DEF Lose
      <4> QED
        BY <4>1
    <3> QED
      BY <3>1, <3>2, <3>3, <1>5
  <2>2. calls' = [load |-> calls.load, more |-> calls.more, act |-> calls.act, look |-> x]
    BY <2>1, <1>1, SlotFacts
  <2>3. /\ calls'.load = calls.load /\ calls'.more = calls.more /\ calls'.act = calls.act
        /\ calls'.look = x
    BY <2>2
  <2>4. CallsKnown'
    BY <2>2, <2>3, <1>1 DEF CallsKnown
  <2> QED
    BY <2>3, <2>4, <1>2, AsideKeeps
<1>6. CASE OtherTab \/ CloseRoom
  <2>1. calls' = calls
    BY <1>6 DEF OtherTab, CloseRoom
  <2>2. CallsKnown'
    BY <2>1, <1>1 DEF CallsKnown
  <2> QED
    BY <2>1, <2>2, <1>2, AsideKeeps
<1> QED
  BY <1>3, <1>4, <1>5, <1>6

\* The worker publishes: what is shown, and every command, is older than the board.
LEMMA PublishKeeps ==
    ASSUME CInv, Publish
    PROVE  CInv'
<1> USE DEF CInv
<1>1. /\ board'.version = board.version + 1 /\ 0 \notin board'.reviewed
      /\ UNCHANGED <<echo, prepared, queue, next, picked, calls>>
  BY DEF Publish, form
<1>2. /\ board.version \in Nat /\ echo.version \in Nat /\ echo.version <= board.version
      /\ calls.act # Idle => calls.act.command.key \in Nat
                             /\ calls.act.command.key <= board.version
  BY DEF ConsoleTypes, SelectorsSet
<1>3. /\ board'.version \in Nat \ {0} /\ echo.version <= board'.version
      /\ echo.version # board'.version
      /\ calls.act # Idle => /\ calls.act.command.key <= board'.version
                             /\ calls.act.command.key # board'.version
  BY <1>1, <1>2
<1>4. CallsKnown'
  BY <1>1 DEF CallsKnown, ConsoleTypes
<1>5. ConsoleTypes'
  BY <1>1, <1>3, <1>4 DEF ConsoleTypes
<1>6. SelectorsSet' /\ TargetsAsShown'
  BY <1>1, <1>2, <1>3 DEF SelectorsSet, TargetsAsShown, Prepared, Shown
<1>7. ListsCurrent'
  BY <1>1, <1>3 DEF ListsCurrent
<1> QED
  BY <1>5, <1>6, <1>7

\* The first page as it stands is a page in order.
LEMMA FirstPageSound == FirstPage \in ArtifactPages /\ PageSound(FirstPage)
<1>1. 0 \in Nat
  OBVIOUS
<1> QED
  BY <1>1, PageFacts DEF FirstPage

\* A projection reaches the panel: the list is emptied, and a next page under way
\* goes on only under the same authority.
LEMMA EchoKeeps ==
    ASSUME CInv, EchoArrives
    PROVE  CInv'
<1> USE DEF CInv
<1>1. /\ echo'.version = board.version /\ prepared' = 0 /\ queue' = <<>> /\ next' = 0
      /\ UNCHANGED <<board, picked>>
      /\ calls' = [calls EXCEPT !.load = [state |-> "sent"], !.more = PageAfterEcho]
  BY DEF EchoArrives, server
<1>2. /\ CallsKnown /\ board.version \in Nat \ {0} /\ echo.version \in Nat
      /\ echo.version <= board.version /\ 0 \notin board.reviewed
      /\ echo.version = 0 => calls.more = Idle
  BY DEF ConsoleTypes
<1>3. calls' = [load |-> [state |-> "sent"], more |-> PageAfterEcho, act |-> calls.act,
                look |-> calls.look]
  BY <1>1, <1>2, TwoSlots
<1>4. /\ calls'.load = [state |-> "sent"] /\ calls'.more = PageAfterEcho
      /\ calls'.act = calls.act /\ calls'.look = calls.look
  BY <1>3
<1>5. \/ PageAfterEcho = Idle
      \/ PageAfterEcho = calls.more /\ echo.version = board.version
  BY <1>2 DEF PageAfterEcho
<1>6. CallsKnown'
  <2>1. calls'.load \in [state : {"idle", "sent", "refused"}]
    BY <1>4
  <2>2. calls'.more = calls.more \/ calls'.more \in [state : {"idle", "refused"}]
    BY <1>4, <1>5 DEF Idle
  <2> QED
    BY <2>1, <2>2, <1>2, <1>3, <1>4 DEF CallsKnown
<1>7. ConsoleTypes'
  BY <1>1, <1>2, <1>6 DEF ConsoleTypes
<1>8. ~Prepared'
  BY <1>1, <1>2 DEF Prepared, Shown
<1>9. SelectorsSet' /\ TargetsAsShown'
  BY <1>1, <1>4, <1>8 DEF SelectorsSet, TargetsAsShown
<1>10. FirstPage' = FirstPage
  BY <1>1 DEF FirstPage, ArtifactPage
<1>11. NextIsBehind'
  <2>1. CASE calls'.more = Idle
    BY <2>1 DEF NextIsBehind, Idle
  <2>2. CASE calls'.more = calls.more /\ echo.version = board.version
    <3>1. NextIsBehind
      BY <2>2 DEF ListsCurrent
    <3> QED
      BY <3>1, <2>2, <1>1, <1>8, <1>10 DEF NextIsBehind, PageSound, Unreviewed
  <2> QED
    BY <2>1, <2>2, <1>4, <1>5
<1>12. ListsCurrent'
  BY <1>4, <1>8, <1>11 DEF ListsCurrent, QueueSorted
<1> QED
  BY <1>7, <1>9, <1>12

\* The reload of the queue keeps the invariant: it lists the first page of the board
\* the page shows, or the page shows an older one.
LEMMA LoadKeeps ==
    ASSUME CInv, ServeLoad \/ ReceiveLoad \/ Lose("load")
    PROVE  CInv'
<1> USE DEF CInv
<1>1. CallsKnown /\ UNCHANGED <<board, echo>>
  BY DEF ConsoleTypes, ServeLoad, ReceiveLoad, Lose, server
<1>2. PICK x : /\ calls' = [calls EXCEPT !.load = x]
               /\ \/ x = [state |-> "accepted", page |-> FirstPage]
                  \/ x = Idle
                  \/ x = [calls.load EXCEPT !.state = "refused"]
  <2>1. CASE ServeLoad
    BY <2>1 DEF ServeLoad, FirstPage
  <2>2. CASE ReceiveLoad
    BY <2>2 DEF ReceiveLoad
  <2>3. CASE Lose("load")
    <3>1. calls' = [calls EXCEPT !.load = [calls.load EXCEPT !.state = "refused"]]
      BY <2>3 DEF Lose
    <3> QED
      BY <3>1
  <2> QED
    BY <2>1, <2>2, <2>3
<1>3. calls' = [load |-> x, more |-> calls.more, act |-> calls.act, look |-> calls.look]
  BY <1>1, <1>2, SlotFacts
<1>4. /\ calls'.load = x /\ calls'.more = calls.more /\ calls'.act = calls.act
      /\ calls'.look = calls.look
  BY <1>3
<1>5. /\ x \in [state : {"idle", "sent", "refused"}]
                 \cup [state : {"accepted", "refused"}, page : ArtifactPages]
      /\ x.state = "accepted" => x.page = FirstPage
  <2>1. CASE x = [state |-> "accepted", page |-> FirstPage]
    BY <2>1, FirstPageSound
  <2>2. CASE x = Idle
    BY <2>2 DEF Idle
  <2>3. CASE x = [calls.load EXCEPT !.state = "refused"]
    <3>1. calls.load \in [state : {"idle", "sent", "refused"}]
                           \cup [state : {"accepted", "refused"}, page : ArtifactPages]
      BY <1>1 DEF CallsKnown
    <3>2. CASE calls.load \in [state : {"idle", "sent", "refused"}]
      BY <2>3, <3>2
    <3>3. CASE calls.load \in [state : {"accepted", "refused"}, page : ArtifactPages]
      BY <2>3, <3>3
    <3> QED
      BY <3>1, <3>2, <3>3
  <2> QED
    BY <1>2, <2>1, <2>2, <2>3
<1>6. CallsKnown'
  BY <1>1, <1>3, <1>4, <1>5 DEF CallsKnown
<1>7. FirstPage' = FirstPage
  BY <1>1 DEF FirstPage, ArtifactPage
<1>8. CASE UNCHANGED <<queue, next, picked, prepared>>
  <2>1. ConsoleTypes'
    BY <1>8, <1>1, <1>4, <1>6 DEF ConsoleTypes
  <2>2. Prepared' <=> Prepared
    BY <1>8, <1>1 DEF Prepared, Shown
  <2>3. SelectorsSet' /\ TargetsAsShown'
    BY <2>2, <1>1, <1>4, <1>8 DEF SelectorsSet, TargetsAsShown
  <2>4. QueueSorted => QueueSorted'
    BY <2>2, <1>1, <1>7, <1>8 DEF QueueSorted, Unreviewed
  <2>5. NextIsBehind => NextIsBehind'
    BY <2>2, <1>1, <1>4, <1>7, <1>8 DEF NextIsBehind, PageSound, Unreviewed
  <2>6. ListsCurrent'
    BY <2>4, <2>5, <1>1, <1>4, <1>5, <1>7 DEF ListsCurrent
  <2> QED
    BY <2>1, <2>3, <2>6
<1>9. CASE ReceiveLoad /\ calls.load.state = "accepted"
  <2>1. /\ queue' = calls.load.page.items /\ next' = calls.load.page.next
        /\ picked' = echo.version /\ prepared' = echo.version
    BY <1>9 DEF ReceiveLoad
  <2>2. calls.load.page \in ArtifactPages
    <3>1. calls.load \in [state : {"idle", "sent", "refused"}]
                           \cup [state : {"accepted", "refused"}, page : ArtifactPages]
      BY <1>1 DEF CallsKnown
    <3> QED
      BY <3>1, <1>9
  <2>3. ConsoleTypes'
    BY <2>1, <2>2, <1>1, <1>4, <1>6 DEF ConsoleTypes, ArtifactPages
  <2>4. SelectorsSet' /\ TargetsAsShown'
    BY <2>1, <1>1, <1>4 DEF SelectorsSet, TargetsAsShown
  <2>5. ASSUME echo.version = board.version
        PROVE  QueueSorted' /\ NextIsBehind'
    <3>1. calls.load.page = FirstPage /\ NextIsBehind
      BY <2>5, <1>9 DEF ListsCurrent
    <3>2. QueueSorted'
      BY <3>1, <2>1, <1>1, <1>7, FirstPageSound DEF QueueSorted, PageSound, Unreviewed
    <3>3. NextIsBehind'
      BY <3>1, <2>1, <1>1, <1>4, <1>7 DEF NextIsBehind, PageSound, Unreviewed
    <3> QED
      BY <3>2, <3>3
  <2>6. ListsCurrent'
    BY <2>5, <1>1, <1>4, <1>5, <1>7 DEF ListsCurrent
  <2> QED
    BY <2>3, <2>4, <2>6
<1> QED
  BY <1>8, <1>9 DEF ServeLoad, ReceiveLoad, Lose, form

\* A list in order, continued by one that comes behind it, is in order.
LEMMA JoinedInOrder ==
    ASSUME NEW q \in Seq(Artifacts), NEW r \in Seq(Artifacts)
    PROVE  /\ q \o r \in Seq(Artifacts)
           /\ InOrder(q) /\ InOrder(r) /\ Before(q, r) => InOrder(q \o r)
           /\ Unreviewed(q) /\ Unreviewed(r) => Unreviewed(q \o r)
           /\ \A n : UpTo(q, n) /\ UpTo(r, n) => UpTo(q \o r, n)
<1> DEFINE s == q \o r
<1>1. /\ s \in Seq(Artifacts) /\ Len(s) = Len(q) + Len(r) /\ Len(q) \in Nat /\ Len(r) \in Nat
      /\ \A i \in 1..Len(q) + Len(r) : s[i] = IF i <= Len(q) THEN q[i] ELSE r[i - Len(q)]
  BY ConcatProperties, LenProperties
<1> HIDE DEF s
<1>2. \A i \in 1..Len(s) : \/ i \in 1..Len(q) /\ s[i] = q[i]
                           \/ /\ i > Len(q) /\ i - Len(q) \in 1..Len(r)
                              /\ s[i] = r[i - Len(q)]
  <2> SUFFICES ASSUME NEW i \in 1..Len(s)
               PROVE  \/ i \in 1..Len(q) /\ s[i] = q[i]
                      \/ i > Len(q) /\ i - Len(q) \in 1..Len(r) /\ s[i] = r[i - Len(q)]
    OBVIOUS
  <2>1. s[i] = IF i <= Len(q) THEN q[i] ELSE r[i - Len(q)]
    BY <1>1
  <2>2. CASE i <= Len(q)
    BY <2>1, <2>2, <1>1
  <2>3. CASE ~(i <= Len(q))
    <3>1. i > Len(q) /\ i - Len(q) \in 1..Len(r)
      BY <2>3, <1>1
    <3> QED
      BY <3>1, <2>1, <2>3
  <2> QED
    BY <2>2, <2>3
<1>3. ASSUME InOrder(q), InOrder(r), Before(q, r), NEW i \in 1..Len(s), NEW j \in 1..Len(s), i < j
      PROVE  s[i] < s[j]
  <2>1. CASE j \in 1..Len(q) /\ s[j] = q[j]
    <3>1. i \in 1..Len(q) /\ s[i] = q[i]
      <4>1. ~(i > Len(q))
        BY <2>1, <1>1, <1>3
      <4> QED
        BY <4>1, <1>2
    <3> QED
      BY <3>1, <2>1, <1>3 DEF InOrder
  <2>2. CASE j > Len(q) /\ j - Len(q) \in 1..Len(r) /\ s[j] = r[j - Len(q)]
    <3>1. CASE i \in 1..Len(q) /\ s[i] = q[i]
      BY <3>1, <2>2, <1>3 DEF Before
    <3>2. CASE i > Len(q) /\ i - Len(q) \in 1..Len(r) /\ s[i] = r[i - Len(q)]
      <4>1. i - Len(q) < j - Len(q)
        BY <3>2, <2>2, <1>1, <1>3
      <4> QED
        BY <4>1, <3>2, <2>2, <1>3 DEF InOrder
    <3> QED
      BY <3>1, <3>2, <1>2
  <2> QED
    BY <2>1, <2>2, <1>2
<1>4. InOrder(q) /\ InOrder(r) /\ Before(q, r) => InOrder(s)
  BY <1>3 DEF InOrder
<1>5. Unreviewed(q) /\ Unreviewed(r) => Unreviewed(s)
  BY <1>2 DEF Unreviewed
<1>6. \A n : UpTo(q, n) /\ UpTo(r, n) => UpTo(s, n)
  BY <1>2 DEF UpTo
<1> QED
  BY <1>1, <1>4, <1>5, <1>6 DEF s

\* The next page of the queue keeps the invariant: it is read behind the cursor.
LEMMA MoreKeeps ==
    ASSUME CInv, LoadMore \/ ServeMore \/ ReceiveMore \/ Lose("more")
    PROVE  CInv'
<1> USE DEF CInv
<1>1. CallsKnown /\ UNCHANGED <<board, echo, prepared, picked>>
  BY DEF ConsoleTypes, LoadMore, ServeMore, ReceiveMore, Lose, server, form
<1>2. PICK x : /\ calls' = [calls EXCEPT !.more = x]
               /\ \/ LoadMore /\ x = [state |-> "sent", after |-> next]
                  \/ ServeMore /\ x = [state |-> "accepted", page |-> ArtifactPage(calls.more.after)]
                  \/ ServeMore /\ x = [state |-> "refused"]
                  \/ ReceiveMore /\ x = Idle
                  \/ Lose("more") /\ x = [calls.more EXCEPT !.state = "refused"]
  <2>1. CASE LoadMore
    BY <2>1 DEF LoadMore
  <2>2. CASE ServeMore
    BY <2>2 DEF ServeMore
  <2>3. CASE ReceiveMore
    BY <2>3 DEF ReceiveMore
  <2>4. CASE Lose("more")
    <3>1. calls' = [calls EXCEPT !.more = [calls.more EXCEPT !.state = "refused"]]
      BY <2>4 DEF Lose
    <3> QED
      BY <3>1, <2>4
  <2> QED
    BY <2>1, <2>2, <2>3, <2>4
<1>3. calls' = [load |-> calls.load, more |-> x, act |-> calls.act, look |-> calls.look]
  BY <1>1, <1>2, SlotFacts
<1>4. /\ calls'.load = calls.load /\ calls'.more = x /\ calls'.act = calls.act
      /\ calls'.look = calls.look
  BY <1>3
<1>5. FirstPage' = FirstPage /\ (Prepared' <=> Prepared)
  BY <1>1 DEF FirstPage, ArtifactPage, Prepared, Shown
<1>6. SelectorsSet' /\ TargetsAsShown'
  BY <1>1, <1>4, <1>5 DEF SelectorsSet, TargetsAsShown
<1>7. calls.more \in [state : {"idle", "refused"}]
                       \cup [state : {"sent", "refused"}, after : Nat]
                       \cup [state : {"accepted", "refused"}, page : ArtifactPages]
  BY <1>1 DEF CallsKnown
<1>8. /\ board.version \in Nat \ {0} /\ 0 \notin board.reviewed
      /\ echo.version \in Nat /\ echo.version <= board.version
      /\ prepared \in Nat /\ next \in Nat /\ queue \in Seq(Artifacts)
      /\ echo.version = 0 => calls.more = Idle
  BY DEF ConsoleTypes
<1>9. ASSUME x \in [state : {"idle", "refused"}]
                     \cup [state : {"sent", "refused"}, after : Nat]
                     \cup [state : {"accepted", "refused"}, page : ArtifactPages],
             echo.version = 0 => x = Idle, next' \in Nat, queue' \in Seq(Artifacts)
      PROVE  ConsoleTypes'
  <2>1. CallsKnown'
    BY <1>9, <1>1, <1>3, <1>4 DEF CallsKnown
  <2> QED
    BY <2>1, <1>1, <1>4, <1>8, <1>9 DEF ConsoleTypes
<1>10. ASSUME echo.version = board.version => QueueSorted' /\ NextIsBehind'
       PROVE  ListsCurrent'
  BY <1>1, <1>4, <1>5, <1>10 DEF ListsCurrent
<1>11. UNCHANGED <<queue, next>> /\ QueueSorted => QueueSorted'
  BY <1>1, <1>5 DEF QueueSorted, Unreviewed
<1>12. CASE LoadMore /\ x = [state |-> "sent", after |-> next]
  <2>1. Prepared /\ next # 0 /\ UNCHANGED <<queue, next>>
    BY <1>12 DEF LoadMore
  <2>2. ConsoleTypes'
    BY <2>1, <1>8, <1>9, <1>12 DEF Prepared, Shown
  <2>3. echo.version = board.version => QueueSorted /\ NextIsBehind'
    BY <2>1, <1>4, <1>5, <1>12 DEF ListsCurrent, QueueSorted, NextIsBehind
  <2> QED
    BY <2>1, <2>2, <2>3, <1>6, <1>10, <1>11
<1>13. CASE ServeMore /\ x = [state |-> "accepted", page |-> ArtifactPage(calls.more.after)]
  <2> DEFINE after == calls.more.after
             pg == ArtifactPage(after)
  <2>1. calls.more.state = "sent" /\ UNCHANGED <<queue, next>>
    BY <1>13 DEF ServeMore, form
  <2>2. after \in Nat /\ calls.more # Idle
    BY <2>1, <1>7 DEF Idle
  <2>3. /\ pg \in ArtifactPages /\ PageSound(pg)
        /\ \A i \in 1..Len(pg.items) : pg.items[i] > after
    BY <2>2, PageFacts
  <2>4. \A i \in 1..Len(pg.items) : pg.items[i] \in Nat
    BY <2>3, ConsoleBounds DEF ArtifactPages, Artifacts
  <2>5. x.state = "accepted" /\ x.page = pg
    BY <1>13
  <2>6. ConsoleTypes'
    BY <2>1, <2>2, <2>3, <1>8, <1>9, <1>13
  <2> HIDE DEF pg, after
  <2>7. ASSUME NEW q \in Seq(Artifacts), UpTo(q, after)
        PROVE  Before(q, pg.items)
    <3>1. \A i \in 1..Len(q) : q[i] \in Nat
      BY ConsoleBounds DEF Artifacts
    <3> QED
      BY <3>1, <2>2, <2>3, <2>4, <2>7 DEF UpTo, Before
  <2>8. ASSUME echo.version = board.version
        PROVE  QueueSorted /\ NextIsBehind'
    <3>1. /\ UpTo(FirstPage.items, after) /\ (Prepared => UpTo(queue, after))
          /\ QueueSorted
      BY <2>8, <2>1 DEF ListsCurrent, NextIsBehind, after
    <3>2. FirstPage.items \in Seq(Artifacts)
      BY FirstPageSound DEF ArtifactPages
    <3>3. Before(FirstPage.items, pg.items) /\ (Prepared => Before(queue, pg.items))
      BY <3>1, <3>2, <2>7, <1>8
    <3> QED
      BY <3>1, <3>3, <2>1, <2>3, <2>5, <1>1, <1>4, <1>5 DEF NextIsBehind, PageSound, Unreviewed
  <2> QED
    BY <2>1, <2>6, <2>8, <1>6, <1>10, <1>11
<1>14. CASE \/ ServeMore /\ x = [state |-> "refused"]
            \/ Lose("more") /\ x = [calls.more EXCEPT !.state = "refused"]
  <2>1. UNCHANGED <<queue, next>>
    BY <1>14 DEF ServeMore, Lose, form
  <2>2. calls.more # Idle
    BY <1>14 DEF ServeMore, Lose, Idle
  <2>3. /\ x.state = "refused"
        /\ x \in [state : {"idle", "refused"}]
                   \cup [state : {"sent", "refused"}, after : Nat]
                   \cup [state : {"accepted", "refused"}, page : ArtifactPages]
    <3>1. CASE x = [state |-> "refused"]
      BY <3>1
    <3>2. CASE x = [calls.more EXCEPT !.state = "refused"]
      <4>1. CASE calls.more \in [state : {"idle", "refused"}]
        BY <4>1, <3>2
      <4>2. CASE calls.more \in [state : {"sent", "refused"}, after : Nat]
        BY <4>2, <3>2
      <4>3. CASE calls.more \in [state : {"accepted", "refused"}, page : ArtifactPages]
        BY <4>3, <3>2
      <4> QED
        BY <4>1, <4>2, <4>3, <1>7
    <3> QED
      BY <3>1, <3>2, <1>14
  <2>4. ConsoleTypes'
    BY <2>1, <2>2, <2>3, <1>8, <1>9
  <2>5. NextIsBehind'
    BY <2>3, <1>4 DEF NextIsBehind
  <2> QED
    BY <2>1, <2>4, <2>5, <1>6, <1>10, <1>11 DEF ListsCurrent
<1>15. CASE ReceiveMore /\ x = Idle
  <2>1. NextIsBehind'
    BY <1>15, <1>4 DEF NextIsBehind, Idle
  <2>2. CASE calls.more.state # "accepted"
    <3>1. UNCHANGED <<queue, next>>
      BY <2>2, <1>15 DEF ReceiveMore
    <3>2. ConsoleTypes'
      BY <3>1, <1>8, <1>9, <1>15 DEF Idle
    <3> QED
      BY <3>1, <3>2, <2>1, <1>6, <1>10, <1>11 DEF ListsCurrent
  <2>3. CASE calls.more.state = "accepted"
    <3> DEFINE pg == calls.more.page
    <3>1. queue' = queue \o pg.items /\ next' = pg.next
      BY <2>3, <1>15 DEF ReceiveMore
    <3>2. pg \in ArtifactPages
      BY <2>3, <1>7
    <3>3. pg.items \in Seq(Artifacts) /\ pg.next \in Nat
      BY <3>2 DEF ArtifactPages
    <3>4. queue' \in Seq(Artifacts) /\ next' \in Nat
      BY <3>1, <3>3, <1>8, JoinedInOrder
    <3>5. ConsoleTypes'
      BY <3>4, <1>8, <1>9, <1>15 DEF Idle
    <3>6. ASSUME echo.version = board.version, Prepared
          PROVE  /\ InOrder(queue') /\ Unreviewed(queue)'
                 /\ next' # 0 => UpTo(queue', next') /\ UpTo(FirstPage.items, next')
      <4>1. /\ PageSound(pg) /\ Before(FirstPage.items, pg.items) /\ Before(queue, pg.items)
            /\ InOrder(queue) /\ Unreviewed(queue)
        BY <3>6, <2>3 DEF ListsCurrent, NextIsBehind, QueueSorted
      <4> HIDE DEF pg
      <4>2. InOrder(queue') /\ Unreviewed(queue')
        BY <4>1, <3>1, <3>3, <1>8, JoinedInOrder DEF PageSound
      <4>3. Unreviewed(queue)'
        BY <4>2, <1>1 DEF Unreviewed
      <4>4. ASSUME next' # 0
            PROVE  UpTo(queue', next') /\ UpTo(FirstPage.items, next')
        <5>1. PICK i \in 1..Len(pg.items) : pg.items[i] = pg.next
          BY <4>1, <4>4, <3>1 DEF PageSound
        <5>2. UpTo(pg.items, pg.next)
          BY <4>1, <4>4, <3>1 DEF PageSound
        <5>3. ASSUME NEW q \in Seq(Artifacts), Before(q, pg.items)
              PROVE  UpTo(q, pg.next)
          <6>1. \A j \in 1..Len(q) : q[j] \in Nat /\ q[j] < pg.next
            BY <5>1, <5>3, ConsoleBounds DEF Before, Artifacts
          <6> QED
            BY <6>1, <3>3 DEF UpTo
        <5>4. UpTo(queue, pg.next) /\ UpTo(FirstPage.items, pg.next)
          BY <5>3, <4>1, <1>8, FirstPageSound DEF ArtifactPages
        <5> QED
          BY <5>2, <5>4, <3>1, <3>3, <1>8, JoinedInOrder
      <4> QED
        BY <4>2, <4>3, <4>4
    <3>7. echo.version = board.version => QueueSorted'
      BY <3>6, <1>5 DEF QueueSorted
    <3> QED
      BY <3>5, <3>7, <2>1, <1>6, <1>10
  <2> QED
    BY <2>2, <2>3
<1> QED
  BY <1>2, <1>12, <1>13, <1>14, <1>15

\* The teacher sets the selectors, or sends a command built from what is shown.
LEMMA FormKeeps ==
    ASSUME CInv, PickText \/ \E kind \in Kinds, art \in Artifacts \cup {0} : Submit(kind, art)
    PROVE  CInv'
<1> USE DEF CInv
<1>1. /\ CallsKnown /\ UNCHANGED <<board, echo, prepared, queue, next>>
      /\ echo.version \in Nat /\ echo.version <= board.version /\ 0 \notin board.reviewed
  BY DEF ConsoleTypes, PickText, Submit, server, form
<1>2. CASE PickText
  <2>1. calls' = calls /\ picked' = echo.version
    BY <1>2 DEF PickText
  <2>2. CallsKnown'
    BY <2>1, <1>1 DEF CallsKnown
  <2>3. ConsoleTypes' /\ ListsCurrent'
    BY <2>1, <2>2, <1>1, ListsAlone
  <2>4. SelectorsSet' /\ TargetsAsShown'
    BY <2>1, <1>1 DEF SelectorsSet, TargetsAsShown
  <2> QED
    BY <2>3, <2>4
<1>3. ASSUME NEW kind \in Kinds, NEW art \in Artifacts \cup {0}, Submit(kind, art)
      PROVE  CInv'
  <2> DEFINE cmd == Command(kind, art)
             a == [state |-> "sent", fact |-> 0, picked |-> picked, command |-> cmd]
  <2>1. /\ Prepared /\ CanSubmit(kind, art) /\ UNCHANGED picked
        /\ calls' = [calls EXCEPT !.act = a]
    BY <1>3 DEF Submit, FormOpen, form
  <2>2. cmd.key = echo.version /\ cmd.art = art
    BY DEF Command
  <2> HIDE DEF cmd
  <2>3. a.picked = picked /\ a.command = cmd /\ a # Idle
    BY DEF Idle
  <2>4. a = [state |-> a.state, fact |-> a.fact, picked |-> a.picked, command |-> a.command]
    OBVIOUS
  <2> HIDE DEF a
  <2>5. calls' = [load |-> calls.load, more |-> calls.more, act |-> a, look |-> calls.look]
    BY <2>1, <1>1, SlotFacts
  <2>6. /\ calls'.load = calls.load /\ calls'.more = calls.more /\ calls'.act = a
        /\ calls'.look = calls.look
    BY <2>5
  <2>7. CallsKnown'
    BY <2>4, <2>5, <2>6, <1>1 DEF CallsKnown
  <2>8. ConsoleTypes' /\ ListsCurrent' /\ (Prepared' <=> Prepared)
    BY <2>6, <2>7, <1>1, ListsAlone
  <2>9. picked = echo.version
    BY <2>1 DEF SelectorsSet
  <2>10. board.version = echo.version => art \notin board.reviewed
    <3>1. SUFFICES ASSUME board.version = echo.version PROVE art \notin board.reviewed
      OBVIOUS
    <3>2. art = 0 \/ art \in ToSet(queue)
      BY <2>1 DEF CanSubmit, Kinds
    <3>3. Unreviewed(queue)
      BY <3>1, <2>1 DEF ListsCurrent, QueueSorted
    <3>4. \A y \in ToSet(queue) : y \notin board.reviewed
      <4>1. DOMAIN queue = 1..Len(queue)
        BY LenProperties DEF ConsoleTypes
      <4> QED
        BY <4>1, <3>3 DEF Unreviewed, ToSet
    <3> QED
      BY <3>2, <3>4, <1>1
  <2>11. SelectorsSet' /\ TargetsAsShown'
    BY <2>1, <2>2, <2>3, <2>6, <2>8, <2>9, <2>10, <1>1 DEF SelectorsSet, TargetsAsShown
  <2> QED
    BY <2>8, <2>11
<1> QED
  BY <1>2, <1>3

\* Every step of the server, the worker, the second tab and the panel keeps the
\* invariant.
LEMMA ConsoleNextInv ==
    ASSUME CInv, [ConsoleNext]_consoleVars
    PROVE  CInv'
<1>1. CASE ConsoleNext
  <2>1. ASSUME NEW k \in DOMAIN calls, Lose(k)
        PROVE  CInv'
    <3>1. k \in {"load", "more", "act", "look"}
      <4>1. calls = [load |-> calls.load, more |-> calls.more, act |-> calls.act,
                     look |-> calls.look]
        BY DEF CInv, ConsoleTypes, CallsKnown
      <4>2. DOMAIN calls = {"load", "more", "act", "look"}
        BY <4>1
      <4> QED
        BY <4>2
    <3> QED
      BY <3>1, <2>1, LoadKeeps, MoreKeeps, ActionKeeps
  <2>2. CASE \/ ServeAction \/ OtherTab \/ ReceiveAction \/ CorrectionNoticed
             \/ ReceiveLookup \/ CloseRoom
    BY <2>2, ActionKeeps
  <2>3. CASE ServeLoad \/ ReceiveLoad
    BY <2>3, LoadKeeps
  <2>4. CASE LoadMore \/ ServeMore \/ ReceiveMore
    BY <2>4, MoreKeeps
  <2>5. CASE PickText \/ \E kind \in Kinds, art \in Artifacts \cup {0} : Submit(kind, art)
    BY <2>5, FormKeeps
  <2>6. CASE Publish
    BY <2>6, PublishKeeps
  <2>7. CASE EchoArrives
    BY <2>7, EchoKeeps
  <2> QED
    BY <1>1, <2>1, <2>2, <2>3, <2>4, <2>5, <2>6, <2>7 DEF ConsoleNext
<1>2. CASE UNCHANGED consoleVars
  <2>1. UNCHANGED <<board, echo, prepared, queue, next, picked, calls>>
    BY <1>2 DEF consoleVars, server, form
  <2>2. CallsKnown'
    BY <2>1 DEF CInv, ConsoleTypes, CallsKnown
  <2>3. ConsoleTypes' /\ ListsCurrent' /\ (Prepared' <=> Prepared)
    BY <2>1, <2>2, ListsAlone
  <2>4. SelectorsSet' /\ TargetsAsShown'
    BY <2>1, <2>3 DEF CInv, SelectorsSet, TargetsAsShown
  <2> QED
    BY <2>3, <2>4 DEF CInv
<1> QED
  BY <1>1, <1>2

\* For any number of texts, versions, lost requests and refetches, and any page size:
\* a command names what the teacher was looking at, and while the shown projection is
\* the newest the queue is listed in order and without repetition
\* (teacher-control-panel.tsx, listArtifacts).
THEOREM ConsoleIsSafe == ConsoleSpec => []ConsoleSafe
<1>1. CInv => ConsoleSafe
  <2> SUFFICES ASSUME CInv PROVE ConsoleSafe
    OBVIOUS
  <2>1. QueueInOrder
    <3>1. SUFFICES ASSUME Prepared, echo.version = board.version
                   PROVE  \A i, j \in DOMAIN queue : i < j => queue[i] < queue[j]
      BY DEF QueueInOrder
    <3>2. InOrder(queue)
      BY <3>1 DEF CInv, ListsCurrent, QueueSorted
    <3>3. DOMAIN queue = 1..Len(queue)
      BY LenProperties DEF CInv, ConsoleTypes
    <3> QED
      BY <3>2, <3>3 DEF InOrder
  <2> QED
    BY <2>1 DEF CInv, ConsoleSafe
<1> QED
  BY <1>1, ConsoleInitInv, ConsoleNextInv, PTL DEF ConsoleSpec
===============================================================================

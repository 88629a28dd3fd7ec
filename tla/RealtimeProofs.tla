---------------------------- MODULE RealtimeProofs ----------------------------
(***************************************************************************)
(* Proofs about the delivery of room events: the browser's ledger is a      *)
(* prefix of the room's, a replay ends where the browser is, nothing comes  *)
(* back after clearState, a snapshot always starts its recovery, and rows   *)
(* published in order leave no gap.                                        *)
(***************************************************************************)
EXTENDS Realtime, SequenceTheorems, FiniteSetTheorems, WellFoundedInduction, TLAPS

-----------------------------------------------------------------------------
(* The inductive invariant.                                                *)

\* A row exists once its event is committed, and only a connection is addressed.
RowsKnown ==
    /\ \A s \in Seqs : row[s] # "absent" => s <= last
    /\ \A s \in Seqs : row[s] = "addressed" => conn # "none"
    /\ \A i \in 1 .. Len(buffer) : buffer[i] <= last
    /\ conn \in {"none", "live"} => buffer = <<>>

\* A browser without socket has no connection, and nothing under way.
LinkKnown ==
    /\ ~link => conn = "none" /\ down = <<>> /\ sent = {} /\ ~ready
    /\ stop # "no" => ~link
    /\ conn = "none" => hello = <<>>
    /\ conn = "open" => hello = <<cursor>>
    /\ stop \in Cleared => cursor = 0 /\ pending = {}

\* What the frames under way say was committed; a close is the last frame, and a
\* snapshot the one before it.
FrameKnown(i) ==
    /\ down[i][1] \in {"event", "resumed"} => down[i][2] <= last
    /\ down[i][1] = "snapshot" => /\ down[i][3] <= last
                                  /\ i + 1 = Len(down)
                                  /\ down[i + 1] = <<"close", "snapshot">>
    /\ down[i][1] = "close" => i = Len(down) /\ conn = "none"
    /\ down[i] = <<"close", "snapshot">> => \/ i = 1 /\ gate
                                            \/ i > 1 /\ down[i - 1][1] = "snapshot"

FramesKnown ==
    /\ base <= last /\ upto <= last
    /\ \A i \in 1 .. Len(down) : FrameKnown(i)

\* The first n frames under way are the events that follow the cursor.
NextEvents(n) == \A i \in 1 .. n : down[i] = <<"event", cursor + i>>

\* The resume_complete under way is at k, after the events that lead up to it.
ResumedAt(k) ==
    /\ NextEvents(k - 1)
    /\ down[k] = <<"resumed", cursor + k - 1>>
    /\ \A j \in k + 1 .. Len(down) : down[j][1] # "resumed"

NoResumed == \A i \in 1 .. Len(down) : down[i][1] # "resumed"

\* Until resume_complete has arrived, the frames under way continue the cursor.
ReplayKnown ==
    /\ ready => NoResumed
    /\ conn \in {"open", "greeted"} => ~ready /\ rec = "off" /\ down = <<>>
    /\ conn = "greeted" => base = cursor /\ upto = cursor /\ at = cursor
    /\ conn = "replaying" => /\ ~ready /\ rec = "off"
                             /\ at = cursor + Len(down) /\ NextEvents(Len(down))
    /\ conn \in {"live", "none"} /\ link /\ ~ready =>
          \/ conn = "none" /\ NoResumed
          \/ rec = "off" /\ \E k \in 1 .. Len(down) : ResumedAt(k)

\* A recovery holds the reconnect back and never starts ahead of the cursor.
RecoveryKnown ==
    /\ rec # "off" => gate \/ stop # "no"
    /\ rec # "off" /\ stop \notin Cleared => from <= cursor
    /\ rec = "answered" => page[1] <= last
    /\ need <= last /\ from <= last

InLine == {"locked", "addressed", "sent", "published"}
Given == {"sent", "published"}

Coming(s) == \E i \in 1 .. Len(down) : down[i] = <<"event", s>>

\* Rows are taken one after the other.
OrderRows ==
    \A s \in Seqs : row[s] \in InLine => \A r \in 1 .. s - 1 : row[r] = "published"

\* What was given to the connection has arrived, is under way, or waits for the
\* end of the replay.
OrderSent ==
    /\ conn = "live" => \A s \in Seqs : row[s] \in Given => s <= cursor \/ Coming(s)
    /\ conn = "replaying" =>
          \A s \in Seqs : row[s] \in Given /\ s > upto =>
              \E i \in 1 .. Len(buffer) : buffer[i] = s
    /\ \A i \in 1 .. Len(buffer) : row[buffer[i]] \in Given

\* No event under way leaves a gap behind it.
OrderFrames ==
    \A i \in 1 .. Len(down) :
        down[i][1] = "event" =>
            \/ down[i][2] <= cursor + 1
            \/ \E j \in 1 .. i - 1 : down[j] = <<"event", down[i][2] - 1>>

\* So that the only recovery is the one a snapshot asks for, alone on the page.
OrderRecovery ==
    /\ stop # "gap"
    /\ rec # "off" => /\ conn = "none"
                      /\ \A i \in 1 .. Len(down) : down[i][1] = "close"
                      /\ stop \notin Cleared => from = cursor
    /\ rec = "answered" => page[1] >= from /\ (~page[2] => page[1] >= need)

\* What holds while rows are published in order and once each.
OrderKnown == inOrder => OrderRows /\ OrderSent /\ OrderFrames /\ OrderRecovery

RealtimeInv ==
    /\ RealtimeTypeOK /\ AppliedInOrder /\ SnapshotStartsRecovery
    /\ RowsKnown /\ LinkKnown /\ FramesKnown /\ ReplayKnown /\ RecoveryKnown
    /\ OrderKnown

-----------------------------------------------------------------------------
(* The buffered frames in ascending order.                                 *)

\* A set of numbers that is not empty has a smallest one.
LEMMA LeastNumber ==
    ASSUME NEW T \in SUBSET Nat, T # {}
    PROVE  \E x \in T : \A y \in T : x <= y
<1> DEFINE R == OpToRel(<, Nat)
<1>1. IsWellFoundedOn(R, Nat)
  BY NatLessThanWellFounded
<1>2. \A x, y \in Nat : x < y => <<x, y>> \in R
  BY DEF OpToRel
<1> HIDE DEF R
<1>3. PICK x \in T : \A y \in T : ~(<<y, x>> \in R)
  BY <1>1, WFMin
<1>4. \A y \in T : ~(y < x)
  BY <1>2, <1>3
<1>5. \A y \in T : x <= y
  BY <1>4
<1> QED
  BY <1>5

\* The elements of S below n, and how many they are.
Below(S, n) == {r \in S : r < n}
Rank(S, n) == Cardinality(Below(S, n))

\* A set of room_seq is finite, and so are its parts.
LEMMA RankIsNat ==
    ASSUME NEW S \in SUBSET Seqs, NEW n \in Nat
    PROVE  /\ IsFiniteSet(S) /\ Cardinality(S) \in Nat
           /\ IsFiniteSet(Below(S, n)) /\ Rank(S, n) \in Nat
           /\ Rank(S, n) <= Cardinality(S)
<1>1. IsFiniteSet(Seqs)
  BY FS_Interval, LimitsAssumption DEF Seqs
<1>2. IsFiniteSet(S)
  BY <1>1, FS_Subset
<1>3. Below(S, n) \in SUBSET S
  BY DEF Below
<1>4. IsFiniteSet(Below(S, n)) /\ Cardinality(Below(S, n)) <= Cardinality(S)
  BY <1>2, <1>3, FS_Subset
<1> QED
  BY <1>2, <1>4, FS_CardinalityType DEF Rank

\* The rank grows at the elements, by one.
LEMMA RankStep ==
    ASSUME NEW S \in SUBSET Seqs, NEW n \in Nat
    PROVE  Rank(S, n + 1) = IF n \in S THEN Rank(S, n) + 1 ELSE Rank(S, n)
<1>1. S \subseteq Nat
  BY LimitsAssumption DEF Seqs
<1>2. IsFiniteSet(Below(S, n)) /\ n \notin Below(S, n)
  BY <1>1, RankIsNat DEF Below
<1>0. \A r \in S : r < n + 1 <=> r < n \/ r = n
  BY <1>1
<1>3. CASE n \in S
  <2>1. Below(S, n + 1) = Below(S, n) \cup {n}
    BY <1>0, <1>3, Zenon DEF Below
  <2> QED
    BY <2>1, <1>2, <1>3, FS_AddElement DEF Rank
<1>4. CASE n \notin S
  <2>1. Below(S, n + 1) = Below(S, n)
    BY <1>0, <1>4, Zenon DEF Below
  <2> QED
    BY <2>1, <1>4 DEF Rank
<1> QED
  BY <1>3, <1>4

\* A smaller element has a smaller rank, and every rank is below the size.
LEMMA RankOrder ==
    ASSUME NEW S \in SUBSET Seqs, NEW s \in S
    PROVE  /\ Rank(S, s) \in Nat /\ Rank(S, s) < Cardinality(S)
           /\ \A t \in S : s < t => Rank(S, s) < Rank(S, t)
<1>1. S \subseteq Nat
  BY LimitsAssumption DEF Seqs
<1>2. Rank(S, s + 1) = Rank(S, s) + 1 /\ Rank(S, s) \in Nat
  BY <1>1, RankStep, RankIsNat
<1>3. Rank(S, s + 1) <= Cardinality(S) /\ Cardinality(S) \in Nat
  BY <1>1, RankIsNat
<1>4. ASSUME NEW t \in S, s < t
      PROVE  Rank(S, s) < Rank(S, t)
  <2>0. \A r \in S : r < s + 1 => r < t
    BY <1>1, <1>4
  <2>1. Below(S, s + 1) \in SUBSET Below(S, t)
    BY <2>0, Zenon DEF Below
  <2>2. IsFiniteSet(Below(S, t)) /\ Rank(S, t) \in Nat
    BY <1>1, RankIsNat
  <2>3. Rank(S, s + 1) <= Rank(S, t)
    BY <2>1, <2>2, FS_Subset DEF Rank
  <2> QED
    BY <2>2, <2>3, <1>2
<1> QED
  BY <1>2, <1>3, <1>4

\* Every rank below the size is taken.
LEMMA RankTaken ==
    ASSUME NEW S \in SUBSET Seqs, NEW i \in 1 .. Cardinality(S)
    PROVE  \E s \in S : Rank(S, s) = i - 1
<1> DEFINE T == {n \in Nat : Rank(S, n) >= i}
<1>1. S \subseteq Nat /\ MaxEvents + 1 \in Nat /\ Cardinality(S) \in Nat
  BY LimitsAssumption, RankIsNat DEF Seqs
<1>2. MaxEvents + 1 \in T
  <2>0. \A r \in S : r < MaxEvents + 1
    BY LimitsAssumption DEF Seqs
  <2>1. Below(S, MaxEvents + 1) = S
    BY <2>0, Zenon DEF Below
  <2> QED
    BY <2>1, <1>1 DEF Rank
<1>3. PICK n \in T : \A m \in T : n <= m
  BY <1>2, LeastNumber
<1>4. n \in Nat /\ Rank(S, n) >= i /\ Rank(S, n) \in Nat
  BY <1>3, RankIsNat
<1>5. n # 0
  <2>0. \A r \in S : ~(r < 0)
    BY <1>1
  <2>1. Below(S, 0) = {}
    BY <2>0, Zenon DEF Below
  <2>2. Rank(S, 0) = 0
    BY <2>1, FS_EmptySet DEF Rank
  <2> QED
    BY <2>2, <1>4, <1>1
<1>6. n - 1 \in Nat /\ n = (n - 1) + 1 /\ Rank(S, n - 1) \in Nat
  BY <1>4, <1>5, RankIsNat
<1>7. ~(Rank(S, n - 1) >= i)
  BY <1>3, <1>4, <1>6
<1>8. Rank(S, n) = IF n - 1 \in S THEN Rank(S, n - 1) + 1 ELSE Rank(S, n - 1)
  BY <1>6, RankStep
<1>9. n - 1 \in S /\ Rank(S, n - 1) = i - 1
  BY <1>1, <1>4, <1>6, <1>7, <1>8
<1> QED
  BY <1>9

\* Ascending(S) is the frames of S, each once and in ascending order.
LEMMA AscendingFacts ==
    ASSUME NEW S \in SUBSET Seqs
    PROVE  LET q == Ascending(S) IN
           /\ q \in Seq({"event"} \X S)
           /\ \A s \in S : \E i \in 1 .. Len(q) : q[i] = <<"event", s>>
           /\ \A i \in 1 .. Len(q) : \A s \in S :
                 s < q[i][2] => \E j \in 1 .. i - 1 : q[j] = <<"event", s>>
<1> DEFINE q == Ascending(S)
           c == Cardinality(S)
           At(i) == CHOOSE s \in S : Rank(S, s) = i - 1
<1>1. c \in Nat /\ S \subseteq Nat
  BY RankIsNat, LimitsAssumption DEF Seqs
<1>2. q = [i \in 1 .. c |-> <<"event", At(i)>>]
  BY DEF Ascending, Rank, Below
<1>3. \A i \in 1 .. c : At(i) \in S /\ Rank(S, At(i)) = i - 1
  BY RankTaken
<1>4. \A s, t \in S : Rank(S, s) = Rank(S, t) => s = t
  <2>1. \A s \in S : Rank(S, s) \in Nat
    BY RankOrder
  <2>2. \A s, t \in S : s < t => Rank(S, s) < Rank(S, t)
    BY RankOrder
  <2> QED
    BY <1>1, <2>1, <2>2
<1>5. \A s \in S : Rank(S, s) + 1 \in 1 .. c
  BY <1>1, RankOrder
<1>6. \A s \in S : At(Rank(S, s) + 1) = s
  <2> SUFFICES ASSUME NEW s \in S PROVE At(Rank(S, s) + 1) = s
    OBVIOUS
  <2>1. Rank(S, s) + 1 \in 1 .. c /\ Rank(S, s) \in Nat
    BY <1>5, RankOrder
  <2>2. At(Rank(S, s) + 1) \in S /\ Rank(S, At(Rank(S, s) + 1)) = Rank(S, s)
    BY <2>1, <1>3
  <2> QED
    BY <2>2, <1>4
<1> HIDE DEF At
<1>7. q \in Seq({"event"} \X S) /\ Len(q) = c
  BY <1>1, <1>2, <1>3
<1>8. \A s \in S : \E i \in 1 .. c : q[i] = <<"event", s>>
  BY <1>2, <1>5, <1>6
<1>9. ASSUME NEW i \in 1 .. c, NEW s \in S, s < q[i][2]
      PROVE  \E j \in 1 .. i - 1 : q[j] = <<"event", s>>
  <2>1. q[i][2] = At(i) /\ At(i) \in S /\ Rank(S, At(i)) = i - 1
    BY <1>2, <1>3
  <2>2. Rank(S, s) < i - 1 /\ Rank(S, s) \in Nat
    BY <2>1, <1>9, RankOrder
  <2>3. Rank(S, s) + 1 \in 1 .. i - 1
    BY <2>2, <1>1
  <2>4. q[Rank(S, s) + 1] = <<"event", s>>
    BY <1>2, <1>5, <1>6
  <2> QED
    BY <2>3, <2>4
<1> QED
  BY <1>7, <1>8, <1>9

-----------------------------------------------------------------------------
(* Frames, and what does not change.                                       *)

\* What a frame is made of.
LEMMA FrameShape ==
    ASSUME NEW f \in Frames
    PROVE  /\ f[1] \in {"event", "resumed", "snapshot", "ack", "reject", "close"}
           /\ f[1] \in {"event", "resumed"} => f = <<f[1], f[2]>> /\ f[2] \in 0 .. MaxEvents
           /\ f[1] = "snapshot" => f[2] \in 0 .. MaxEvents /\ f[3] \in 0 .. MaxEvents
           /\ f[1] \in {"ack", "reject"} => f[2] \in Commands
           /\ f[1] = "close" => /\ f = <<"close", f[2]>>
                                /\ f[2] \in {"snapshot", "invalid", "ended"}
BY DEF Frames

\* The frames that the code sends are frames.
LEMMA FrameMade ==
    /\ \A s \in 0 .. MaxEvents : <<"event", s>> \in Frames /\ <<"resumed", s>> \in Frames
    /\ \A a, t \in 0 .. MaxEvents : <<"snapshot", a, t>> \in Frames
    /\ \A c \in Commands : <<"ack", c>> \in Frames /\ <<"reject", c>> \in Frames
    /\ \A w \in {"snapshot", "invalid", "ended"} : <<"close", w>> \in Frames
BY DEF Frames

\* The numbers are numbers.
LEMMA Numbers ==
    ASSUME RealtimeTypeOK
    PROVE  /\ last \in Nat /\ base \in Nat /\ upto \in Nat /\ at \in Nat /\ cursor \in Nat
           /\ from \in Nat /\ need \in Nat /\ page[1] \in Nat /\ MaxEvents \in Nat
           /\ Len(down) \in Nat /\ Len(buffer) \in Nat
           /\ \A i \in 1 .. Len(down) : down[i] \in Frames
           /\ \A i \in 1 .. Len(buffer) : buffer[i] \in Seqs
           /\ Seqs \subseteq Nat
<1>1. down \in Seq(Frames) /\ buffer \in Seq(Seqs)
  BY DEF RealtimeTypeOK
<1>2. /\ Len(down) \in Nat /\ Len(buffer) \in Nat
      /\ \A i \in 1 .. Len(down) : down[i] \in Frames
      /\ \A i \in 1 .. Len(buffer) : buffer[i] \in Seqs
  BY <1>1, LenProperties, ElementOfSeq
<1>3. Seqs \subseteq Nat /\ MaxEvents \in Nat
  BY LimitsAssumption DEF Seqs
<1>4. /\ last \in 0 .. MaxEvents /\ base \in 0 .. MaxEvents /\ upto \in 0 .. MaxEvents
      /\ at \in base .. upto /\ cursor \in 0 .. last /\ from \in 0 .. MaxEvents
      /\ need \in 0 .. MaxEvents /\ page[1] \in 0 .. MaxEvents
  BY DEF RealtimeTypeOK
<1> QED
  BY <1>2, <1>3, <1>4

\* LinkKnown speaks of these variables only.
LEMMA LinkFrame ==
    ASSUME LinkKnown,
           UNCHANGED <<link, conn, down, sent, ready, stop, hello, cursor, pending>>
    PROVE  LinkKnown'
BY DEF LinkKnown

\* FramesKnown stays when the room only grows.
LEMMA FramesFrame ==
    ASSUME RealtimeTypeOK, FramesKnown, last' \in Nat, last' >= last,
           UNCHANGED <<base, upto, down, conn, gate>>
    PROVE  FramesKnown'
<1>1. base' <= last' /\ upto' <= last'
  BY Numbers DEF FramesKnown
<1>2. ASSUME NEW i \in 1 .. Len(down)
      PROVE  FrameKnown(i)'
  <2>1. FrameKnown(i) /\ down[i] \in Frames /\ last \in Nat /\ MaxEvents \in Nat
    BY Numbers DEF FramesKnown
  <2>2. down[i][1] \in {"event", "resumed"} => down[i][2] <= last'
    BY <2>1, FrameShape DEF FrameKnown
  <2>3. down[i][1] = "snapshot" => down[i][3] <= last'
    BY <2>1, FrameShape DEF FrameKnown
  <2> QED
    BY <2>1, <2>2, <2>3 DEF FrameKnown
<1> QED
  BY <1>1, <1>2 DEF FramesKnown

\* ReplayKnown speaks of these variables only.
LEMMA ReplayFrame ==
    ASSUME ReplayKnown, UNCHANGED <<ready, conn, rec, down, base, upto, at, link, cursor>>
    PROVE  ReplayKnown'
BY DEF ReplayKnown, NoResumed, NextEvents, ResumedAt

\* RecoveryKnown stays when the room only grows.
LEMMA RecoveryFrame ==
    ASSUME RealtimeTypeOK, RecoveryKnown, last' \in Nat, last' >= last,
           UNCHANGED <<rec, gate, stop, from, cursor, page, need>>
    PROVE  RecoveryKnown'
BY Numbers DEF RecoveryKnown

\* OrderFrames and OrderRecovery speak of these variables only.
LEMMA OrderFrame ==
    ASSUME UNCHANGED <<down, cursor>>
    PROVE  /\ OrderFrames => OrderFrames'
           /\ OrderRecovery /\ UNCHANGED <<stop, rec, conn, from, page, need>>
                => OrderRecovery'
BY DEF OrderFrames, OrderRecovery

-----------------------------------------------------------------------------
(* The ledger and the publisher.                                           *)

\* A row that exists and is not delivered takes another state.
Published(s) ==
    ClaimRow(s) \/ Broadcast(s) \/ MarkPublished(s) \/ PublishFails(s) \/ RowDue(s)

\* The publisher's own steps keep the invariant.
LEMMA PublisherKeeps ==
    ASSUME RealtimeInv, inOrder' = inOrder, NEW s \in Seqs, Published(s)
    PROVE  RealtimeInv'
<1> USE DEF RealtimeInv
<1>1. /\ UNCHANGED <<last, done, drops, server, client, recovery, stop>>
      /\ row[s] # "absent" /\ \A t \in Seqs : t # s => row'[t] = row[t]
      /\ row' \in [Seqs -> {"absent", "waiting", "locked", "addressed", "sent", "delayed",
                            "published"}]
  BY DEF Published, ClaimRow, Broadcast, MarkPublished, PublishFails, RowDue, SetRow,
         RealtimeTypeOK, UnderWay
<1>2. UNCHANGED <<conn, hello, base, upto, at, buffer, down, sent, link, ready, cursor,
                  applied, pending, unused, gate, rec, from, page, need>>
  BY <1>1 DEF server, client, recovery
<1>3. row'[s] = "addressed" => conn # "none"
  BY DEF Published, ClaimRow, Broadcast, MarkPublished, PublishFails, RowDue, SetRow,
         RealtimeTypeOK
<1>4. tries' \in [Seqs -> 0 .. MaxTries]
  <2>1. tries \in [Seqs -> 0 .. MaxTries] /\ MaxTries \in Nat
    BY LimitsAssumption DEF RealtimeTypeOK
  <2>2. tries' = tries \/ (tries[s] < MaxTries /\ tries' = [tries EXCEPT ![s] = @ + 1])
    BY DEF Published, ClaimRow, Broadcast, MarkPublished, PublishFails, RowDue
  <2> QED
    BY <2>1, <2>2
<1>5. RealtimeTypeOK'
  BY <1>1, <1>2, <1>4 DEF RealtimeTypeOK
<1>6. AppliedInOrder' /\ SnapshotStartsRecovery'
  BY <1>1, <1>2 DEF AppliedInOrder, SnapshotStartsRecovery
<1>7. RowsKnown'
  BY <1>1, <1>2, <1>3 DEF RowsKnown
<1>8. LinkKnown' /\ ReplayKnown'
  BY <1>1, <1>2, LinkFrame, ReplayFrame
<1>9. FramesKnown' /\ RecoveryKnown'
  BY <1>1, <1>2, FramesFrame, RecoveryFrame, Numbers
<1>10. ASSUME inOrder PROVE OrderRows'
  <2>1. OrderRows
    BY <1>10 DEF OrderKnown
  <2>2. row[s] # "published" /\ (row'[s] \in InLine => \A r \in 1 .. s - 1 : row[r] = "published")
    BY <1>10, <2>1 DEF OrderRows, Published, ClaimRow, Broadcast, MarkPublished, PublishFails,
                RowDue, SetRow, RealtimeTypeOK, InLine, UnderWay
  <2>3. ASSUME NEW t \in Seqs, row'[t] \in InLine, NEW r \in 1 .. t - 1
        PROVE  row'[r] = "published"
    <3>1. r \in Seqs /\ t \in Nat /\ s \in Nat
      BY LimitsAssumption DEF Seqs
    <3>2. CASE t = s
      <4>1. r # s
        BY <3>1, <3>2
      <4> QED
        BY <4>1, <3>1, <3>2, <2>2, <2>3, <1>1
    <3>3. CASE t # s
      BY <3>1, <3>3, <2>1, <2>2, <2>3, <1>1 DEF OrderRows
    <3> QED
      BY <3>2, <3>3
  <2> QED
    BY <2>3 DEF OrderRows
<1>11. ASSUME inOrder PROVE OrderSent'
  <2>1. OrderSent
    BY <1>11 DEF OrderKnown
  <2>2. /\ row[s] \in Given => row'[s] \in Given
        /\ row'[s] \in Given /\ row[s] \notin Given => conn = "none"
    BY <1>11 DEF Published, ClaimRow, Broadcast, MarkPublished, PublishFails, RowDue, SetRow,
              RealtimeTypeOK, Given, UnderWay
  <2>3. \A i \in 1 .. Len(buffer) : buffer[i] \in Seqs
    BY Numbers
  <2> QED
    BY <2>1, <2>2, <2>3, <1>1, <1>2 DEF OrderSent, Coming
<1>12. OrderKnown'
  BY <1>1, <1>2, <1>10, <1>11, OrderFrame DEF OrderKnown
<1> QED
  BY <1>5, <1>6, <1>7, <1>8, <1>9, <1>12

\* An event is appended; the frames under way may change besides.
LEMMA AppendKeeps ==
    ASSUME RealtimeInv, inOrder' = inOrder, AppendEvent,
           UNCHANGED <<conn, upto, buffer, cursor>>
    PROVE  /\ last' \in 0 .. MaxEvents /\ last' >= last
           /\ row' \in [Seqs -> {"absent", "waiting", "locked", "addressed", "sent",
                                 "delayed", "published"}]
           /\ RowsKnown'
           /\ inOrder => OrderRows'
           /\ inOrder /\ (\A s \in Seqs : Coming(s) => Coming(s)') => OrderSent'
<1> USE DEF RealtimeInv
<1>1. /\ last' = last + 1 /\ last' \in 0 .. MaxEvents /\ last' >= last /\ last + 1 \in Seqs
      /\ last \in Nat /\ Seqs \subseteq Nat
  BY Numbers, LimitsAssumption DEF AppendEvent, RealtimeTypeOK, Seqs
<1>2. /\ row' \in [Seqs -> {"absent", "waiting", "locked", "addressed", "sent", "delayed",
                            "published"}]
      /\ row'[last + 1] = "waiting" /\ \A t \in Seqs : t # last + 1 => row'[t] = row[t]
  BY <1>1 DEF AppendEvent, RealtimeTypeOK
<1>3. row[last + 1] = "absent"
  BY <1>1 DEF RowsKnown
<1>4. RowsKnown'
  <2>1. \A t \in Seqs : row'[t] # "absent" => t <= last'
    BY <1>1, <1>2 DEF RowsKnown
  <2>2. \A t \in Seqs : row'[t] = "addressed" => conn' # "none"
    BY <1>2 DEF RowsKnown
  <2>3. ASSUME NEW i \in 1 .. Len(buffer)
        PROVE  buffer[i] <= last'
    <3>1. buffer[i] \in Nat /\ buffer[i] <= last
      BY <1>1, Numbers DEF RowsKnown
    <3> QED
      BY <3>1, <1>1
  <2> QED
    BY <2>1, <2>2, <2>3 DEF RowsKnown
<1>5. ASSUME inOrder PROVE OrderRows'
  <2>1. ASSUME NEW t \in Seqs, row'[t] \in InLine, NEW r \in 1 .. t - 1
        PROVE  row'[r] = "published"
    <3>1. r \in Seqs /\ t # last + 1
      BY <1>2, <2>1, LimitsAssumption DEF Seqs, InLine
    <3>2. row[r] = "published"
      BY <1>2, <1>5, <2>1, <3>1 DEF OrderKnown, OrderRows
    <3> QED
      BY <3>1, <3>2, <1>2, <1>3
  <2> QED
    BY <2>1 DEF OrderRows
<1>6. ASSUME inOrder, \A s \in Seqs : Coming(s) => Coming(s)' PROVE OrderSent'
  <2>1. \A t \in Seqs : row'[t] \in Given <=> row[t] \in Given
    BY <1>2, <1>3 DEF Given
  <2>2. \A i \in 1 .. Len(buffer) : buffer[i] \in Seqs
    BY Numbers
  <2> QED
    BY <1>6, <2>1, <2>2 DEF OrderKnown, OrderSent
<1> QED
  BY <1>1, <1>2, <1>4, <1>5, <1>6

\* Somebody else's event keeps the invariant.
LEMMA CommitKeeps ==
    ASSUME RealtimeInv, inOrder' = inOrder, CommitEvent
    PROVE  RealtimeInv'
<1> USE DEF RealtimeInv
<1>1. AppendEvent /\ UNCHANGED tries
      /\ UNCHANGED <<done, drops, conn, hello, base, upto, at, buffer, down, sent, link, ready,
                     cursor, applied, pending, unused, gate, rec, from, page, need, stop>>
  BY DEF CommitEvent, AppendEvent, server, client, recovery
<1>2. /\ last' \in 0 .. MaxEvents /\ last' >= last /\ last' \in Nat
      /\ row' \in [Seqs -> {"absent", "waiting", "locked", "addressed", "sent", "delayed",
                            "published"}]
      /\ RowsKnown' /\ (inOrder => OrderRows' /\ OrderSent')
  BY <1>1, AppendKeeps, LimitsAssumption DEF Coming
<1>3. cursor \in 0 .. last'
  BY <1>2, Numbers DEF RealtimeTypeOK
<1>4. RealtimeTypeOK'
  BY <1>1, <1>2, <1>3 DEF RealtimeTypeOK
<1>5. AppliedInOrder' /\ SnapshotStartsRecovery'
  BY <1>1, <1>3, <1>2 DEF AppliedInOrder, SnapshotStartsRecovery
<1>6. LinkKnown' /\ ReplayKnown' /\ FramesKnown' /\ RecoveryKnown'
  BY <1>1, <1>2, LinkFrame, ReplayFrame, FramesFrame, RecoveryFrame
<1>7. OrderKnown'
  BY <1>1, <1>2, OrderFrame DEF OrderKnown
<1> QED
  BY <1>2, <1>4, <1>5, <1>6, <1>7

-----------------------------------------------------------------------------
(* Frames are sent.                                                        *)

\* Frames are sent after those under way.
DownGrows ==
    /\ down' \in Seq(Frames) /\ Len(down') \in Nat /\ Len(down') >= Len(down)
    /\ \A i \in 1 .. Len(down) : down'[i] = down[i]

\* One frame is sent.
LEMMA DownAppend ==
    ASSUME RealtimeTypeOK, NEW f \in Frames, down' = Append(down, f)
    PROVE  /\ DownGrows /\ Len(down') = Len(down) + 1 /\ down'[Len(down) + 1] = f
           /\ Len(down) \in Nat
<1>1. down \in Seq(Frames) /\ Len(down) \in Nat
  BY Numbers DEF RealtimeTypeOK
<1> QED
  BY <1>1, AppendProperties DEF DownGrows

\* Several frames are sent.
LEMMA DownConcat ==
    ASSUME RealtimeTypeOK, NEW q \in Seq(Frames), down' = down \o q
    PROVE  /\ DownGrows /\ Len(down') = Len(down) + Len(q)
           /\ Len(down) \in Nat /\ Len(q) \in Nat
           /\ \A i \in 1 .. Len(q) : down'[Len(down) + i] = q[i]
           /\ \A i \in Len(down) + 1 .. Len(down') :
                 i - Len(down) \in 1 .. Len(q) /\ down'[i] = q[i - Len(down)]
<1>1. down \in Seq(Frames) /\ Len(down) \in Nat /\ Len(q) \in Nat
  BY Numbers, LenProperties DEF RealtimeTypeOK
<1>2. /\ down' \in Seq(Frames) /\ Len(down') = Len(down) + Len(q)
      /\ \A i \in 1 .. Len(down) + Len(q) :
            down'[i] = IF i <= Len(down) THEN down[i] ELSE q[i - Len(down)]
  BY <1>1, ConcatProperties
<1> QED
  BY <1>1, <1>2 DEF DownGrows

\* What is under way has neither a close nor a snapshot while there is a
\* connection.
LEMMA NoCloseYet ==
    ASSUME RealtimeTypeOK, FramesKnown, conn # "none"
    PROVE  \A i \in 1 .. Len(down) : down[i][1] \notin {"close", "snapshot"}
<1> SUFFICES ASSUME NEW i \in 1 .. Len(down) PROVE down[i][1] \notin {"close", "snapshot"}
  OBVIOUS
<1>1. FrameKnown(i) /\ Len(down) \in Nat
  BY Numbers DEF FramesKnown
<1>2. down[i][1] # "close"
  BY <1>1 DEF FrameKnown
<1>3. ASSUME down[i][1] = "snapshot" PROVE FALSE
  <2>1. i + 1 \in 1 .. Len(down) /\ down[i + 1] = <<"close", "snapshot">>
    BY <1>1, <1>3 DEF FrameKnown
  <2>2. FrameKnown(i + 1)
    BY <2>1 DEF FramesKnown
  <2> QED
    BY <2>1, <2>2 DEF FrameKnown
<1> QED
  BY <1>2, <1>3

\* A frame that a connection sends is known when what it says was committed.
SentWell(i) ==
    /\ down'[i][1] \in {"event", "resumed"} => down'[i][2] <= last'
    /\ down'[i][1] = "snapshot" => /\ down'[i][3] <= last'
                                   /\ i + 1 = Len(down')
                                   /\ down'[i + 1] = <<"close", "snapshot">>
    /\ down'[i][1] = "close" => i = Len(down') /\ conn' = "none"
    /\ down'[i] = <<"close", "snapshot">> => i > 1 /\ down'[i - 1][1] = "snapshot"

\* The frames stay known when a connection sends.
LEMMA FramesExtend ==
    ASSUME RealtimeTypeOK, FramesKnown, DownGrows, conn # "none",
           last' \in Nat, last' >= last, base' <= last', upto' <= last',
           \A i \in Len(down) + 1 .. Len(down') : SentWell(i)
    PROVE  FramesKnown'
<1>1. ASSUME NEW i \in 1 .. Len(down)
      PROVE  FrameKnown(i)'
  <2>1. FrameKnown(i) /\ down[i] \in Frames /\ last \in Nat /\ MaxEvents \in Nat
    BY Numbers DEF FramesKnown
  <2>2. down[i][1] \notin {"close", "snapshot"} /\ down'[i] = down[i]
    BY NoCloseYet DEF DownGrows
  <2>3. down[i][1] \in {"event", "resumed"} => down[i][2] <= last'
    BY <2>1, FrameShape DEF FrameKnown
  <2>4. down'[i] # <<"close", "snapshot">>
    BY <2>2
  <2> QED
    BY <2>2, <2>3, <2>4 DEF FrameKnown
<1>2. ASSUME NEW i \in Len(down) + 1 .. Len(down')
      PROVE  FrameKnown(i)'
  BY <1>2 DEF SentWell, FrameKnown
<1>3. \A i \in 1 .. Len(down') : i \in 1 .. Len(down) \/ i \in Len(down) + 1 .. Len(down')
  BY Numbers DEF DownGrows
<1> QED
  BY <1>1, <1>2, <1>3 DEF FramesKnown

\* What is sent after the replay, or as the connection ends, does not disturb a
\* resume_complete under way.
LEMMA ReplayExtends ==
    ASSUME RealtimeTypeOK, ReplayKnown, LinkKnown, DownGrows, conn # "none",
           conn' \in {"live", "none"}, conn' = "live" => conn = "live",
           UNCHANGED <<ready, rec, link, cursor>>,
           \A i \in Len(down) + 1 .. Len(down') : down'[i][1] # "resumed"
    PROVE  ReplayKnown'
<1>1. \A i \in 1 .. Len(down') : i \in 1 .. Len(down) \/ i \in Len(down) + 1 .. Len(down')
  BY Numbers DEF DownGrows
<1>2. NoResumed => NoResumed'
  BY <1>1 DEF NoResumed, DownGrows
<1>3. ASSUME NEW k \in 1 .. Len(down), ResumedAt(k)
      PROVE  k \in 1 .. Len(down') /\ ResumedAt(k)'
  <2>1. k \in Nat /\ Len(down) \in Nat /\ k <= Len(down) /\ k \in 1 .. Len(down')
    BY Numbers DEF DownGrows
  <2>2. NextEvents(k - 1)'
    BY <1>3, <2>1 DEF ResumedAt, NextEvents, DownGrows
  <2>3. down'[k] = <<"resumed", cursor' + k - 1>>
    BY <1>3 DEF ResumedAt, DownGrows
  <2>4. \A j \in k + 1 .. Len(down') : down'[j][1] # "resumed"
    <3>1. \A j \in k + 1 .. Len(down') : j \in k + 1 .. Len(down) \/ j \in Len(down) + 1 .. Len(down')
      BY <2>1 DEF DownGrows
    <3>2. \A j \in k + 1 .. Len(down) : down'[j] = down[j] /\ down[j][1] # "resumed"
      BY <1>3, <2>1 DEF ResumedAt, DownGrows
    <3> QED
      BY <3>1, <3>2
  <2> QED
    BY <2>1, <2>2, <2>3, <2>4 DEF ResumedAt
<1>4. CASE ready
  BY <1>2, <1>4 DEF ReplayKnown
<1>5. CASE ~ready /\ conn = "live"
  <2>1. link /\ rec = "off" /\ \E k \in 1 .. Len(down) : ResumedAt(k)
    BY <1>5 DEF ReplayKnown, LinkKnown
  <2>2. \E k \in 1 .. Len(down') : ResumedAt(k)'
    BY <2>1, <1>3
  <2> QED
    BY <2>1, <2>2, <1>5 DEF ReplayKnown
<1>6. CASE ~ready /\ conn # "live"
  <2>1. conn' = "none" /\ conn \in {"open", "greeted", "replaying"}
    BY <1>6 DEF RealtimeTypeOK
  <2>2. NoResumed
    <3>1. CASE conn \in {"open", "greeted"}
      BY <3>1 DEF ReplayKnown, NoResumed
    <3>2. CASE conn = "replaying"
      BY <3>2 DEF ReplayKnown, NoResumed, NextEvents
    <3> QED
      BY <2>1, <3>1, <3>2
  <2> QED
    BY <2>1, <2>2, <1>2, <1>6 DEF ReplayKnown
<1> QED
  BY <1>4, <1>5, <1>6

\* Frames that follow on what is under way leave no gap.
LEMMA OrderExtends ==
    ASSUME RealtimeTypeOK, OrderFrames, DownGrows, cursor' = cursor,
           \A i \in Len(down) + 1 .. Len(down') :
              down'[i][1] = "event" =>
                  \/ down'[i][2] <= cursor + 1
                  \/ \E j \in 1 .. i - 1 : down'[j] = <<"event", down'[i][2] - 1>>
    PROVE  OrderFrames'
<1>1. \A i \in 1 .. Len(down') : i \in 1 .. Len(down) \/ i \in Len(down) + 1 .. Len(down')
  BY Numbers DEF DownGrows
<1>2. ASSUME NEW i \in 1 .. Len(down), down'[i][1] = "event"
      PROVE  \/ down'[i][2] <= cursor + 1
             \/ \E j \in 1 .. i - 1 : down'[j] = <<"event", down'[i][2] - 1>>
  <2>1. down'[i] = down[i] /\ \A j \in 1 .. i - 1 : j \in 1 .. Len(down)
    BY Numbers DEF DownGrows
  <2> QED
    BY <1>2, <2>1 DEF OrderFrames, DownGrows
<1> QED
  BY <1>1, <1>2 DEF OrderFrames

\* The rows of a connection that ends are kept as they are, or count as sent.
LEMMA HangupRows ==
    ASSUME RealtimeInv, row' = Orphaned, conn' = "none", buffer' = <<>>, last' = last
    PROVE  /\ row' \in [Seqs -> {"absent", "waiting", "locked", "addressed", "sent",
                                 "delayed", "published"}]
           /\ RowsKnown'
           /\ inOrder => OrderRows' /\ OrderSent'
<1> USE DEF RealtimeInv
<1>1. \A s \in Seqs : row'[s] = IF row[s] = "addressed" THEN "sent" ELSE row[s]
  BY DEF Orphaned
<1>2. row' \in [Seqs -> {"absent", "waiting", "locked", "addressed", "sent", "delayed",
                         "published"}]
  BY <1>1 DEF Orphaned, RealtimeTypeOK
<1>3. RowsKnown'
  BY <1>1 DEF RowsKnown
<1>4. ASSUME inOrder PROVE OrderRows'
  <2>1. \A s \in Seqs : \A r \in 1 .. s - 1 : r \in Seqs
    BY LimitsAssumption DEF Seqs
  <2> QED
    BY <1>1, <1>4, <2>1 DEF OrderKnown, OrderRows, InLine
<1>5. OrderSent'
  BY DEF OrderSent
<1> QED
  BY <1>2, <1>3, <1>4, <1>5

\* The server ends the connection, after a last word that is no event.
LEMMA HangupKeeps ==
    ASSUME RealtimeInv, inOrder' = inOrder, Hangup, conn # "none", DownGrows,
           UNCHANGED <<last, tries, done, drops, client, recovery, stop>>,
           \A i \in Len(down) + 1 .. Len(down') :
              SentWell(i) /\ down'[i][1] \notin {"event", "resumed"}
    PROVE  RealtimeInv'
<1> USE DEF RealtimeInv
<1>1. /\ conn' = "none" /\ buffer' = <<>> /\ hello' = <<>> /\ sent' = {} /\ row' = Orphaned
      /\ UNCHANGED <<base, upto, at, link, ready, cursor, applied, pending, unused, gate,
                     rec, from, page, need>>
  BY DEF Hangup, client, recovery
<1>2. /\ row' \in [Seqs -> {"absent", "waiting", "locked", "addressed", "sent", "delayed",
                            "published"}]
      /\ RowsKnown' /\ (inOrder => OrderRows' /\ OrderSent')
  BY <1>1, HangupRows
<1>3. RealtimeTypeOK'
  <2>1. hello' \in Seq(0 .. MaxEvents) /\ Len(hello') <= 1
    BY <1>1
  <2>2. buffer' \in Seq(Seqs) /\ Len(buffer') <= MaxBuffer
    BY <1>1, LimitsAssumption
  <2> QED
    BY <1>1, <1>2, <2>1, <2>2 DEF RealtimeTypeOK, DownGrows
<1>4. AppliedInOrder' /\ SnapshotStartsRecovery'
  BY <1>1 DEF AppliedInOrder, SnapshotStartsRecovery
<1>5. LinkKnown'
  BY <1>1 DEF LinkKnown
<1>6. FramesKnown' /\ RecoveryKnown'
  <2>1. last' \in Nat /\ last' >= last /\ base' <= last' /\ upto' <= last'
    BY <1>1, Numbers DEF FramesKnown
  <2> QED
    BY <2>1, <1>1, FramesExtend, RecoveryFrame
<1>7. ReplayKnown'
  BY <1>1, ReplayExtends
<1>8. ASSUME inOrder PROVE OrderFrames' /\ OrderRecovery'
  <2>1. OrderFrames'
    BY <1>1, <1>8, OrderExtends DEF OrderKnown
  <2>2. OrderRecovery'
    BY <1>1, <1>8 DEF OrderKnown, OrderRecovery
  <2> QED
    BY <2>1, <2>2
<1> QED
  BY <1>2, <1>3, <1>4, <1>5, <1>6, <1>7, <1>8 DEF OrderKnown

\* The connection is closed for a reason that needs no recovery.
LEMMA ServerClosesKeeps ==
    ASSUME RealtimeInv, inOrder' = inOrder,
           NEW why \in {"invalid", "ended"}, ServerCloses(why)
    PROVE  RealtimeInv'
<1> DEFINE f == <<"close", why>>
<1>1. f \in Frames /\ f # <<"close", "snapshot">>
  BY FrameMade
<1>2. /\ DownGrows /\ Len(down') = Len(down) + 1 /\ down'[Len(down) + 1] = f
      /\ Len(down) \in Nat
  BY <1>1, DownAppend DEF ServerCloses, RealtimeInv
<1>3. ASSUME NEW i \in Len(down) + 1 .. Len(down')
      PROVE  SentWell(i) /\ down'[i][1] \notin {"event", "resumed"}
  <2>1. i = Len(down) + 1 /\ down'[i] = f
    BY <1>2
  <2>2. conn' = "none"
    BY DEF ServerCloses, Hangup
  <2> QED
    BY <2>1, <2>2, <1>1, <1>2 DEF SentWell
<1> QED
  BY <1>2, <1>3, HangupKeeps DEF ServerCloses

\* Too much to send: the browser is told to recover, and the connection closed.
LEMMA SnapshotKeeps ==
    ASSUME RealtimeInv, inOrder' = inOrder, Hangup, conn # "none", NEW t \in Nat, t <= last,
           down' = down \o <<<<"snapshot", base, t>>, <<"close", "snapshot">>>>,
           UNCHANGED <<last, tries, done, drops, client, recovery, stop>>
    PROVE  RealtimeInv'
<1> DEFINE q == <<<<"snapshot", base, t>>, <<"close", "snapshot">>>>
<1>0. base \in 0 .. MaxEvents /\ t \in 0 .. MaxEvents
  <2>1. base \in 0 .. MaxEvents /\ last \in 0 .. MaxEvents
    BY DEF RealtimeInv, RealtimeTypeOK
  <2> QED
    BY <2>1, LimitsAssumption
<1>1. <<"snapshot", base, t>> \in Frames /\ <<"close", "snapshot">> \in Frames
  BY <1>0, FrameMade
<1>2. q \in Seq(Frames) /\ Len(q) = 2
  BY <1>1
<1>3. /\ DownGrows /\ Len(down') = Len(down) + 2 /\ Len(down) \in Nat
      /\ down'[Len(down) + 1] = <<"snapshot", base, t>>
      /\ down'[Len(down) + 2] = <<"close", "snapshot">>
  <2>1. /\ DownGrows /\ Len(down') = Len(down) + Len(q) /\ Len(down) \in Nat
        /\ \A i \in 1 .. Len(q) : down'[Len(down) + i] = q[i]
    BY <1>2, DownConcat DEF RealtimeInv
  <2> QED
    BY <2>1, <1>2
<1>4. ASSUME NEW i \in Len(down) + 1 .. Len(down')
      PROVE  SentWell(i) /\ down'[i][1] \notin {"event", "resumed"}
  <2>1. i = Len(down) + 1 \/ i = Len(down) + 2
    BY <1>3
  <2>2. conn' = "none" /\ last' = last
    BY DEF Hangup
  <2>3. CASE i = Len(down) + 1
    BY <2>2, <2>3, <1>3 DEF SentWell
  <2>4. CASE i = Len(down) + 2
    <3>1. i > 1 /\ i - 1 = Len(down) + 1 /\ i = Len(down')
      BY <2>4, <1>3
    <3> QED
      BY <3>1, <2>2, <2>4, <1>3 DEF SentWell
  <2> QED
    BY <2>1, <2>3, <2>4
<1> QED
  BY <1>3, <1>4, HangupKeeps

\* A row that the connection is given counts as sent.
LEMMA GivenRow ==
    ASSUME RealtimeInv, NEW s \in Seqs, row[s] = "addressed",
           row' = [row EXCEPT ![s] = "sent"]
    PROVE  /\ row' \in [Seqs -> {"absent", "waiting", "locked", "addressed", "sent",
                                 "delayed", "published"}]
           /\ row'[s] = "sent" /\ \A t \in Seqs : t # s => row'[t] = row[t]
           /\ \A t \in Seqs : row[t] \in Given => row'[t] \in Given
           /\ s <= last /\ s \in Nat /\ s > 0
           /\ inOrder => OrderRows'
           /\ inOrder => \A r \in 1 .. s - 1 : r \in Seqs /\ row[r] \in Given
<1> USE DEF RealtimeInv
<1>1. /\ row' \in [Seqs -> {"absent", "waiting", "locked", "addressed", "sent", "delayed",
                            "published"}]
      /\ row'[s] = "sent" /\ \A t \in Seqs : t # s => row'[t] = row[t]
  BY DEF RealtimeTypeOK
<1>2. \A t \in Seqs : \A r \in 1 .. t - 1 : r \in Seqs
  BY LimitsAssumption DEF Seqs
<1>3. ASSUME inOrder PROVE OrderRows' /\ \A r \in 1 .. s - 1 : row[r] \in Given
  BY <1>1, <1>2, <1>3 DEF OrderKnown, OrderRows, InLine, Given
<1>4. s <= last /\ s \in Nat /\ s > 0
  BY LimitsAssumption DEF RowsKnown, Seqs
<1> QED
  BY <1>1, <1>2, <1>3, <1>4 DEF Given

\* Before the end of the replay an event waits in the buffer.
LEMMA BufferKeeps ==
    ASSUME RealtimeInv, inOrder' = inOrder, NEW s \in Seqs, row[s] = "addressed",
           conn # "live", Len(buffer) < MaxBuffer,
           buffer' = Append(buffer, s), row' = [row EXCEPT ![s] = "sent"],
           UNCHANGED <<last, done, tries, drops, client, recovery, stop>>,
           UNCHANGED <<conn, hello, base, upto, at, down, sent>>
    PROVE  RealtimeInv'
<1> USE DEF RealtimeInv
<1>1. UNCHANGED <<link, ready, cursor, applied, pending, unused, gate, rec, from, page, need>>
  BY DEF client, recovery
<1>2. /\ row' \in [Seqs -> {"absent", "waiting", "locked", "addressed", "sent", "delayed",
                            "published"}]
      /\ row'[s] = "sent" /\ \A t \in Seqs : t # s => row'[t] = row[t]
      /\ \A t \in Seqs : row[t] \in Given => row'[t] \in Given
      /\ s <= last
      /\ inOrder => OrderRows'
  BY GivenRow
<1>3. /\ buffer' \in Seq(Seqs) /\ Len(buffer') = Len(buffer) + 1 /\ Len(buffer) \in Nat
      /\ \A i \in 1 .. Len(buffer) : buffer'[i] = buffer[i] /\ buffer[i] \in Seqs
      /\ buffer'[Len(buffer) + 1] = s
  BY Numbers, AppendProperties, SMTT(30) DEF RealtimeTypeOK
<1>4. \A i \in 1 .. Len(buffer') : i \in 1 .. Len(buffer) \/ i = Len(buffer) + 1
  BY <1>3
<1>5. conn # "none"
  BY DEF RowsKnown
<1>6. RealtimeTypeOK'
  <2>1. Len(buffer') <= MaxBuffer
    BY <1>3, LimitsAssumption
  <2> QED
    BY <1>1, <1>2, <1>3, <2>1, SMTT(30) DEF RealtimeTypeOK
<1>7. AppliedInOrder' /\ SnapshotStartsRecovery'
  BY <1>1 DEF AppliedInOrder, SnapshotStartsRecovery
<1>8. RowsKnown'
  BY <1>2, <1>3, <1>4, <1>5 DEF RowsKnown
<1>9. LinkKnown' /\ ReplayKnown' /\ FramesKnown' /\ RecoveryKnown'
  BY <1>1, Numbers, LinkFrame, ReplayFrame, FramesFrame, RecoveryFrame
<1>10. ASSUME inOrder PROVE OrderSent'
  <2>1. conn' # "live"
    OBVIOUS
  <2>2. \A i \in 1 .. Len(buffer') : row'[buffer'[i]] \in Given
    BY <1>2, <1>3, <1>4, <1>10 DEF OrderKnown, OrderSent, Given
  <2>3. ASSUME conn = "replaying", NEW t \in Seqs, row'[t] \in Given, t > upto
        PROVE  \E i \in 1 .. Len(buffer') : buffer'[i] = t
    <3>1. CASE t = s
      BY <3>1, <1>3
    <3>2. CASE t # s
      <4>1. PICK i \in 1 .. Len(buffer) : buffer[i] = t
        BY <3>2, <2>3, <1>2, <1>10 DEF OrderKnown, OrderSent
      <4> QED
        BY <4>1, <1>3
    <3> QED
      BY <3>1, <3>2
  <2> QED
    BY <2>1, <2>2, <2>3 DEF OrderSent
<1>11. OrderKnown'
  BY <1>1, <1>2, <1>10, OrderFrame DEF OrderKnown
<1> QED
  BY <1>6, <1>7, <1>8, <1>9, <1>11

\* A live connection passes an event on; rows in order leave no gap before it.
LEMMA LiveKeeps ==
    ASSUME RealtimeInv, inOrder' = inOrder, NEW s \in Seqs, row[s] = "addressed",
           conn = "live",
           down' = Append(down, <<"event", s>>), row' = [row EXCEPT ![s] = "sent"],
           UNCHANGED <<last, done, tries, drops, client, recovery, stop>>,
           UNCHANGED <<conn, hello, base, upto, at, buffer, sent>>
    PROVE  RealtimeInv'
<1> USE DEF RealtimeInv
<1>1. UNCHANGED <<link, ready, cursor, applied, pending, unused, gate, rec, from, page, need>>
  BY DEF client, recovery
<1>2. /\ row' \in [Seqs -> {"absent", "waiting", "locked", "addressed", "sent", "delayed",
                            "published"}]
      /\ row'[s] = "sent" /\ \A t \in Seqs : t # s => row'[t] = row[t]
      /\ \A t \in Seqs : row[t] \in Given => row'[t] \in Given
      /\ s <= last /\ s \in Nat /\ s > 0
      /\ inOrder => OrderRows'
      /\ inOrder => \A r \in 1 .. s - 1 : r \in Seqs /\ row[r] \in Given
  BY GivenRow
<1>3. <<"event", s>> \in Frames
  <2>1. s \in 0 .. MaxEvents
    BY LimitsAssumption DEF Seqs
  <2> QED
    BY <2>1, FrameMade
<1>4. /\ DownGrows /\ Len(down') = Len(down) + 1 /\ down'[Len(down) + 1] = <<"event", s>>
      /\ Len(down) \in Nat
  BY <1>3, DownAppend
<1>5. \A i \in Len(down) + 1 .. Len(down') : i = Len(down) + 1 /\ down'[i] = <<"event", s>>
  BY <1>4
<1>6. RealtimeTypeOK'
  BY <1>1, <1>2, <1>4 DEF RealtimeTypeOK, DownGrows
<1>7. AppliedInOrder' /\ SnapshotStartsRecovery'
  BY <1>1 DEF AppliedInOrder, SnapshotStartsRecovery
<1>8. RowsKnown'
  BY <1>2 DEF RowsKnown
<1>9. LinkKnown'
  BY <1>1 DEF LinkKnown
<1>10. FramesKnown' /\ RecoveryKnown'
  <2>1. last' \in Nat /\ last' >= last /\ base' <= last' /\ upto' <= last'
    BY Numbers DEF FramesKnown
  <2>2. \A i \in Len(down) + 1 .. Len(down') : SentWell(i)
    BY <1>2, <1>5 DEF SentWell
  <2> QED
    BY <2>1, <2>2, <1>1, <1>4, FramesExtend, RecoveryFrame
<1>11. ReplayKnown'
  BY <1>1, <1>4, <1>5, ReplayExtends
<1>12. ASSUME inOrder PROVE OrderSent'
  <2>1. \A t \in Seqs : Coming(t) => Coming(t)'
    BY <1>4 DEF Coming, DownGrows
  <2>2. Coming(s)'
    BY <1>4 DEF Coming
  <2>3. buffer' = <<>>
    BY DEF RowsKnown
  <2>4. \A t \in Seqs : row'[t] \in Given => t <= cursor' \/ Coming(t)'
    BY <2>1, <2>2, <1>1, <1>2, <1>12 DEF OrderKnown, OrderSent
  <2> QED
    BY <2>3, <2>4 DEF OrderSent
<1>13. ASSUME inOrder PROVE OrderFrames'
  <2>1. s <= cursor + 1 \/ \E j \in 1 .. Len(down) : down'[j] = <<"event", s - 1>>
    <3>1. CASE s = 1
      BY <3>1, Numbers
    <3>2. CASE s # 1
      <4>1. s - 1 \in 1 .. s - 1
        BY <3>2, <1>2
      <4>2. s - 1 <= cursor \/ Coming(s - 1)
        BY <4>1, <1>2, <1>13 DEF OrderKnown, OrderSent
      <4>3. s - 1 <= cursor => s <= cursor + 1
        BY <1>2, Numbers
      <4> QED
        BY <4>2, <4>3, <1>4 DEF Coming, DownGrows
    <3> QED
      BY <3>1, <3>2
  <2>2. ASSUME NEW i \in Len(down) + 1 .. Len(down')
        PROVE  \/ down'[i][2] <= cursor + 1
               \/ \E j \in 1 .. i - 1 : down'[j] = <<"event", down'[i][2] - 1>>
    <3>1. i - 1 = Len(down) /\ down'[i][2] = s
      BY <1>4, <1>5
    <3> QED
      BY <3>1, <2>1
  <2> QED
    BY <2>2, <1>1, <1>4, <1>13, OrderExtends DEF OrderKnown
<1>14. ASSUME inOrder PROVE OrderRecovery'
  BY <1>1, <1>14 DEF OrderKnown, OrderRecovery
<1> QED
  BY <1>2, <1>6, <1>7, <1>8, <1>9, <1>10, <1>11, <1>12, <1>13, <1>14 DEF OrderKnown

\* sendDurable keeps the invariant.
LEMMA DeliverKeeps ==
    ASSUME RealtimeInv, inOrder' = inOrder, NEW s \in Seqs, Deliver(s)
    PROVE  RealtimeInv'
<1>1. conn # "none" /\ base \in Nat /\ base <= last
  BY Numbers DEF Deliver, RealtimeInv, RowsKnown, FramesKnown
<1>2. row[s] = "addressed" /\ SendDurable(s)
      /\ UNCHANGED <<last, done, tries, drops, client, recovery, stop>>
  BY DEF Deliver
<1> QED
  BY <1>1, <1>2, BufferKeeps, LiveKeeps, SnapshotKeeps DEF SendDurable

-----------------------------------------------------------------------------
(* The connection.                                                         *)

\* The hello frame carries the browser's cursor.
LEMMA HelloKeeps ==
    ASSUME RealtimeInv, inOrder' = inOrder, Hello
    PROVE  RealtimeInv'
<1> USE DEF RealtimeInv
<1>1. /\ conn = "open" /\ conn' = "greeted" /\ hello' = <<>>
      /\ base' = hello[1] /\ upto' = hello[1] /\ at' = hello[1]
      /\ UNCHANGED <<last, row, tries, done, drops, buffer, down, sent, link, ready, cursor,
                     applied, pending, unused, gate, rec, from, page, need, stop>>
  BY DEF Hello, outbox, client, recovery
<1>2. base' = cursor /\ upto' = cursor /\ at' = cursor
  BY <1>1 DEF LinkKnown
<1>3. RealtimeTypeOK'
  <2>1. hello' \in Seq(0 .. MaxEvents) /\ Len(hello') <= 1
    BY <1>1
  <2>2. base' \in 0 .. MaxEvents /\ upto' \in 0 .. MaxEvents /\ at' \in base' .. upto'
    <3>1. cursor \in 0 .. last /\ last \in 0 .. MaxEvents
      BY DEF RealtimeTypeOK
    <3> QED
      BY <3>1, <1>2, LimitsAssumption
  <2> QED
    BY <1>1, <2>1, <2>2 DEF RealtimeTypeOK
<1>4. AppliedInOrder' /\ SnapshotStartsRecovery'
  BY <1>1 DEF AppliedInOrder, SnapshotStartsRecovery
<1>5. RowsKnown'
  BY <1>1 DEF RowsKnown
<1>6. LinkKnown'
  BY <1>1 DEF LinkKnown
<1>7. down = <<>> /\ rec = "off" /\ ~ready
  BY <1>1 DEF ReplayKnown
<1>8. FramesKnown'
  BY <1>1, <1>2, <1>7 DEF FramesKnown, AppliedInOrder
<1>9. ReplayKnown'
  BY <1>1, <1>2, <1>7 DEF ReplayKnown, NoResumed
<1>10. RecoveryKnown'
  BY <1>1, Numbers, RecoveryFrame
<1>11. ASSUME inOrder PROVE OrderRows' /\ OrderSent' /\ OrderFrames' /\ OrderRecovery'
  BY <1>1, <1>7, <1>11 DEF OrderKnown, OrderRows, OrderSent, OrderFrames, OrderRecovery
<1> QED
  BY <1>1, <1>3, <1>4, <1>5, <1>6, <1>8, <1>9, <1>10, <1>11 DEF OrderKnown

\* The SELECT of resume reads everything committed, or asks for a recovery.
LEMMA ResumeKeeps ==
    ASSUME RealtimeInv, inOrder' = inOrder, Resume
    PROVE  RealtimeInv'
<1> USE DEF RealtimeInv
<1>1. /\ conn = "greeted"
      /\ UNCHANGED <<last, tries, done, drops, client, recovery, stop>>
  BY DEF Resume
<1>2. UNCHANGED <<link, ready, cursor, applied, pending, unused, gate, rec, from, page, need>>
  BY <1>1 DEF client, recovery
<1>3. /\ down = <<>> /\ rec = "off" /\ ~ready
      /\ base = cursor /\ upto = cursor /\ at = cursor
      /\ last \in Nat /\ cursor \in Nat /\ cursor <= last /\ base \in Nat
  BY <1>1, Numbers DEF ReplayKnown, AppliedInOrder
<1>4. CASE last - base > ReplayLimit
  <2>1. base + ReplayLimit + 1 \in Nat /\ base + ReplayLimit + 1 <= last
    BY <1>3, <1>4, LimitsAssumption
  <2> QED
    BY <2>1, <1>1, <1>4, SnapshotKeeps DEF Resume
<1>5. CASE ~(last - base > ReplayLimit)
  <2>1. /\ conn' = "replaying" /\ upto' = last
        /\ UNCHANGED <<row, hello, base, at, buffer, down, sent>>
    BY <1>5 DEF Resume
  <2>2. RealtimeTypeOK'
    <3>1. upto' \in 0 .. MaxEvents /\ at' \in base' .. upto'
      BY <2>1, <1>3 DEF RealtimeTypeOK
    <3> QED
      BY <1>1, <1>2, <2>1, <3>1 DEF RealtimeTypeOK
  <2>3. AppliedInOrder' /\ SnapshotStartsRecovery'
    BY <1>1, <1>2 DEF AppliedInOrder, SnapshotStartsRecovery
  <2>4. RowsKnown'
    BY <1>1, <2>1 DEF RowsKnown
  <2>5. LinkKnown'
    BY <1>1, <1>2, <2>1 DEF LinkKnown
  <2>6. FramesKnown'
    BY <1>1, <1>3, <2>1 DEF FramesKnown
  <2>7. ReplayKnown'
    BY <1>2, <1>3, <2>1 DEF ReplayKnown, NoResumed, NextEvents
  <2>8. RecoveryKnown'
    BY <1>1, <1>2, <1>3, RecoveryFrame
  <2>9. ASSUME inOrder PROVE OrderSent'
    <3>1. \A t \in Seqs : row[t] \in Given => ~(t > upto')
      BY <2>1, <1>3 DEF RowsKnown, Given, Seqs
    <3> QED
      BY <3>1, <2>1, <2>9 DEF OrderKnown, OrderSent
  <2>10. ASSUME inOrder PROVE OrderRows' /\ OrderFrames' /\ OrderRecovery'
    BY <1>1, <1>2, <1>3, <2>1, <2>10 DEF OrderKnown, OrderRows, OrderFrames, OrderRecovery
  <2> QED
    BY <2>2, <2>3, <2>4, <2>5, <2>6, <2>7, <2>8, <2>9, <2>10 DEF OrderKnown
<1> QED
  BY <1>4, <1>5

\* A replayed row is the one after those under way.
LEMMA ReplayRowKeeps ==
    ASSUME RealtimeInv, inOrder' = inOrder, ReplayRow
    PROVE  RealtimeInv'
<1> USE DEF RealtimeInv
<1>1. /\ conn = "replaying" /\ at < upto /\ at' = at + 1
      /\ down' = Append(down, <<"event", at + 1>>)
      /\ UNCHANGED <<last, row, tries, done, drops, conn, hello, base, upto, buffer, sent,
                     link, ready, cursor, applied, pending, unused, gate, rec, from, page,
                     need, stop>>
  BY DEF ReplayRow, outbox, client, recovery
<1>2. /\ ~ready /\ rec = "off" /\ at = cursor + Len(down) /\ NextEvents(Len(down))
      /\ at \in Nat /\ upto \in Nat /\ upto <= last /\ last \in Nat /\ cursor \in Nat
      /\ base \in Nat /\ Len(down) \in Nat
  BY <1>1, Numbers DEF ReplayKnown, FramesKnown
<1>3. at + 1 \in 0 .. MaxEvents /\ at' \in base' .. upto'
  <2>1. upto \in 0 .. MaxEvents /\ at \in base .. upto
    BY DEF RealtimeTypeOK
  <2> QED
    BY <2>1, <1>1, <1>2, LimitsAssumption
<1>4. /\ DownGrows /\ Len(down') = Len(down) + 1
      /\ down'[Len(down) + 1] = <<"event", at + 1>>
  BY <1>1, <1>3, FrameMade, DownAppend
<1>5. \A i \in Len(down) + 1 .. Len(down') : i = Len(down) + 1 /\ down'[i] = <<"event", at + 1>>
  BY <1>2, <1>4
<1>6. RealtimeTypeOK'
  BY <1>1, <1>3, <1>4 DEF RealtimeTypeOK, DownGrows
<1>7. AppliedInOrder' /\ SnapshotStartsRecovery' /\ RowsKnown' /\ LinkKnown'
  BY <1>1 DEF AppliedInOrder, SnapshotStartsRecovery, RowsKnown, LinkKnown
<1>8. FramesKnown' /\ RecoveryKnown'
  <2>1. last' \in Nat /\ last' >= last /\ base' <= last' /\ upto' <= last'
    BY <1>1, <1>2 DEF FramesKnown
  <2>2. at + 1 <= last'
    BY <1>1, <1>2
  <2>3. \A i \in Len(down) + 1 .. Len(down') : SentWell(i)
    BY <2>2, <1>5 DEF SentWell
  <2> QED
    BY <2>1, <2>3, <1>1, <1>4, FramesExtend, RecoveryFrame
<1>9. at' = cursor' + Len(down') /\ NextEvents(Len(down))'
  <2>1. at' = cursor' + Len(down')
    BY <1>1, <1>2, <1>4
  <2>2. ASSUME NEW i \in 1 .. Len(down')
        PROVE  down'[i] = <<"event", cursor' + i>>
    <3>1. CASE i \in 1 .. Len(down)
      BY <3>1, <1>1, <1>2, <1>4 DEF NextEvents, DownGrows
    <3>2. CASE i = Len(down) + 1
      BY <3>2, <1>1, <1>2, <1>4
    <3> QED
      BY <3>1, <3>2, <1>2, <1>4
  <2> QED
    BY <2>1, <2>2 DEF NextEvents
<1>10. ReplayKnown'
  BY <1>1, <1>2, <1>9 DEF ReplayKnown
<1>11. ASSUME inOrder PROVE OrderFrames'
  <2>1. ASSUME NEW i \in Len(down) + 1 .. Len(down')
        PROVE  \/ down'[i][2] <= cursor + 1
               \/ \E j \in 1 .. i - 1 : down'[j] = <<"event", down'[i][2] - 1>>
    <3>1. i = Len(down) + 1 /\ down'[i][2] = at + 1
      BY <1>5
    <3>2. CASE Len(down) = 0
      BY <3>1, <3>2, <1>2
    <3>3. CASE Len(down) # 0
      <4>1. Len(down) \in 1 .. i - 1 /\ Len(down) \in 1 .. Len(down) /\ at + 1 - 1 = at
        BY <3>1, <3>3, <1>2
      <4>2. down'[Len(down)] = <<"event", at>>
        BY <4>1, <1>2, <1>4 DEF NextEvents, DownGrows
      <4>3. down'[i][2] - 1 = at
        BY <3>1, <1>2
      <4> QED
        BY <4>1, <4>2, <4>3
    <3> QED
      BY <3>2, <3>3
  <2> QED
    BY <2>1, <1>1, <1>4, <1>11, OrderExtends DEF OrderKnown
<1>12. ASSUME inOrder PROVE OrderRows' /\ OrderSent' /\ OrderRecovery'
  BY <1>1, <1>2, <1>12 DEF OrderKnown, OrderRows, OrderSent, OrderRecovery
<1> QED
  BY <1>1, <1>6, <1>7, <1>8, <1>10, <1>11, <1>12 DEF OrderKnown

\* The end of the replay: resume_complete names the browser's cursor to be, and
\* what waited in the buffer follows without a gap.
LEMMA FinishReplayKeeps ==
    ASSUME RealtimeInv, inOrder' = inOrder, FinishReplay
    PROVE  RealtimeInv'
<1> USE DEF RealtimeInv
<1> DEFINE S == {s \in Seqs : s > upto /\ \E i \in 1 .. Len(buffer) : buffer[i] = s}
           q == Ascending(S)
           p == <<<<"resumed", upto>>>>
<1>0. PICK n \in Nat : n = Len(down)
  BY Numbers
<1>1. /\ conn = "replaying" /\ at = upto /\ conn' = "live" /\ buffer' = <<>>
      /\ down' = down \o (p \o q)
      /\ UNCHANGED <<last, row, tries, done, drops, hello, base, upto, at, sent,
                     link, ready, cursor, applied, pending, unused, gate, rec, from, page,
                     need, stop>>
  BY DEF FinishReplay, Flushed, outbox, client, recovery
<1>2. /\ ~ready /\ rec = "off" /\ upto = cursor + n /\ NextEvents(n)
      /\ upto \in Nat /\ upto <= last /\ last \in Nat /\ cursor \in Nat /\ n \in Nat
  BY <1>0, <1>1, Numbers DEF ReplayKnown, FramesKnown
<1>3. S \in SUBSET Seqs
  OBVIOUS
<1> HIDE DEF S
<1>4. /\ q \in Seq({"event"} \X S)
      /\ \A s \in S : \E i \in 1 .. Len(q) : q[i] = <<"event", s>>
      /\ \A i \in 1 .. Len(q) : \A s \in S :
            s < q[i][2] => \E j \in 1 .. i - 1 : q[j] = <<"event", s>>
  BY <1>3, AscendingFacts
<1> HIDE DEF q
<1>5. /\ \A i \in 1 .. Len(q) : q[i] \in {"event"} \X S
      /\ q \in Seq(Frames) /\ Len(q) \in Nat
  <2>1. {"event"} \X S \subseteq Frames
    <3>1. S \subseteq 0 .. MaxEvents
      BY <1>3, LimitsAssumption DEF Seqs
    <3> QED
      BY <3>1 DEF Frames
  <2> QED
    BY <2>1, <1>4, SeqMonotonic, LenProperties, ElementOfSeq
<1>6. p \in Seq(Frames) /\ Len(p) = 1 /\ p[1] = <<"resumed", upto>>
  <2>1. <<"resumed", upto>> \in Frames
    BY FrameMade DEF RealtimeTypeOK
  <2> QED
    BY <2>1
<1> HIDE DEF p
<1>7. /\ down \in Seq(Frames) /\ p \o q \in Seq(Frames) /\ Len(p \o q) = 1 + Len(q)
      /\ down' = down \o (p \o q)
      /\ \A i \in 1 .. 1 + Len(q) : (p \o q)[i] = IF i <= 1 THEN p[i] ELSE q[i - 1]
  <2>1. down \in Seq(Frames)
    BY DEF RealtimeTypeOK
  <2>2. p \o q \in Seq(Frames) /\ Len(p \o q) = 1 + Len(q)
    <3>1. p \o q \in Seq(Frames) /\ Len(p \o q) = Len(p) + Len(q)
      BY <1>5, <1>6, ConcatProperties, Zenon
    <3> QED
      BY <3>1, <1>6
  <2>3. \A i \in 1 .. 1 + Len(q) : (p \o q)[i] = IF i <= 1 THEN p[i] ELSE q[i - 1]
    <3>1. \A i \in 1 .. Len(p) + Len(q) :
             (p \o q)[i] = IF i <= Len(p) THEN p[i] ELSE q[i - Len(p)]
      BY <1>5, <1>6, ConcatProperties, Zenon
    <3> QED
      BY <3>1, <1>6
  <2> QED
    BY <2>1, <2>2, <2>3, <1>1
<1>8. /\ DownGrows /\ Len(down') = n + 1 + Len(q)
      /\ \A i \in 1 .. 1 + Len(q) : down'[n + i] = (p \o q)[i]
  <2> DEFINE pq == p \o q
  <2>1. pq \in Seq(Frames) /\ Len(pq) = 1 + Len(q) /\ down' = down \o pq
    BY <1>7
  <2> HIDE DEF pq
  <2>2. /\ DownGrows /\ Len(down') = Len(down) + Len(pq)
        /\ \A i \in 1 .. Len(pq) : down'[Len(down) + i] = pq[i]
    BY <2>1, DownConcat
  <2>3. Len(down') = n + 1 + Len(q) /\ \A i \in 1 .. 1 + Len(q) : down'[n + i] = pq[i]
    BY <2>1, <2>2, <1>0, <1>5
  <2> QED
    BY <2>2, <2>3 DEF pq
<1>9. down'[n + 1] = <<"resumed", upto>> /\ \A i \in 1 .. Len(q) : down'[n + 1 + i] = q[i]
  <2>1. down'[n + 1] = <<"resumed", upto>>
    BY <1>2, <1>5, <1>6, <1>7, <1>8
  <2>2. ASSUME NEW i \in 1 .. Len(q)
        PROVE  down'[n + 1 + i] = q[i]
    <3>1. 1 + i \in 1 .. 1 + Len(q) /\ ~(1 + i <= 1) /\ 1 + i - 1 = i /\ n + (1 + i) = n + 1 + i
      BY <1>2, <1>5
    <3> QED
      BY <3>1, <1>7, <1>8
  <2> QED
    BY <2>1, <2>2
<1>10. ASSUME NEW i \in n + 1 .. Len(down'), i # n + 1
       PROVE  i - (n + 1) \in 1 .. Len(q) /\ i = n + 1 + (i - (n + 1)) /\ down'[i] = q[i - (n + 1)]
  <2>1. i - (n + 1) \in 1 .. Len(q) /\ i = n + 1 + (i - (n + 1))
    BY <1>2, <1>5, <1>8, <1>10
  <2> QED
    BY <2>1, <1>9
<1>11. ASSUME NEW i \in n + 1 .. Len(down'), i # n + 1
       PROVE  down'[i][1] = "event" /\ down'[i][2] \in S /\ down'[i] = <<"event", down'[i][2]>>
  BY <1>5, <1>10, <1>11
<1>12. RealtimeTypeOK'
  <2>1. buffer' \in Seq(Seqs) /\ Len(buffer') <= MaxBuffer
    BY <1>1, LimitsAssumption
  <2> QED
    BY <1>1, <1>8, <2>1 DEF RealtimeTypeOK, DownGrows
<1>13. AppliedInOrder' /\ SnapshotStartsRecovery' /\ RowsKnown' /\ LinkKnown'
  BY <1>1 DEF AppliedInOrder, SnapshotStartsRecovery, RowsKnown, LinkKnown
<1>14. FramesKnown' /\ RecoveryKnown'
  <2>1. last' \in Nat /\ last' >= last /\ base' <= last' /\ upto' <= last'
    BY <1>1, <1>2 DEF FramesKnown
  <2>2. \A s \in S : s <= last'
    BY <1>1 DEF S, RowsKnown
  <2>3. \A i \in n + 1 .. Len(down') : SentWell(i)
    BY <2>1, <2>2, <1>1, <1>9, <1>11, SMTT(30) DEF SentWell
  <2> QED
    BY <2>1, <2>3, <1>0, <1>1, <1>8, FramesExtend, RecoveryFrame
<1>15. ReplayKnown'
  <2>1. n + 1 \in 1 .. Len(down') /\ n + 1 - 1 = n /\ cursor' + (n + 1) - 1 = upto
    BY <1>1, <1>2, <1>5, <1>8
  <2>2. NextEvents(n)'
    BY <1>0, <1>1, <1>2, <1>8 DEF NextEvents, DownGrows
  <2>3. \A j \in n + 1 + 1 .. Len(down') : down'[j][1] # "resumed"
    BY <1>2, <1>8, <1>11
  <2>4. ResumedAt(n + 1)'
    BY <2>1, <2>2, <2>3, <1>9 DEF ResumedAt
  <2> QED
    BY <2>1, <2>4, <1>1, <1>2 DEF ReplayKnown
<1>16. ASSUME inOrder PROVE OrderSent'
  <2>1. ASSUME NEW t \in Seqs, row[t] \in Given
        PROVE  t <= cursor' \/ Coming(t)'
    <3>1. t \in Nat
      BY Numbers
    <3>2. CASE t <= cursor
      BY <3>2, <1>1
    <3>3. CASE t > cursor /\ t <= upto
      <4>1. t - cursor \in 1 .. n /\ cursor + (t - cursor) = t
        BY <3>1, <3>3, <1>2
      <4>2. down'[t - cursor] = <<"event", t>> /\ t - cursor \in 1 .. Len(down')
        BY <4>1, <1>0, <1>2, <1>5, <1>8 DEF NextEvents, DownGrows
      <4> QED
        BY <4>2 DEF Coming
    <3>4. CASE t > upto
      <4>1. t \in S
        BY <3>4, <2>1, <1>1, <1>16 DEF S, OrderKnown, OrderSent
      <4>2. PICK i \in 1 .. Len(q) : q[i] = <<"event", t>>
        BY <4>1, <1>4
      <4>3. n + 1 + i \in 1 .. Len(down') /\ down'[n + 1 + i] = <<"event", t>>
        BY <4>2, <1>2, <1>5, <1>8, <1>9, SMTT(30)
      <4> QED
        BY <4>3 DEF Coming
    <3> QED
      BY <3>1, <3>2, <3>3, <3>4, <1>2
  <2> QED
    BY <2>1, <1>1 DEF OrderSent
<1>17. ASSUME inOrder PROVE OrderFrames'
  <2>1. ASSUME NEW i \in n + 1 .. Len(down'), down'[i][1] = "event"
        PROVE  \/ down'[i][2] <= cursor + 1
               \/ \E j \in 1 .. i - 1 : down'[j] = <<"event", down'[i][2] - 1>>
    <3> DEFINE t == down'[i][2]
               m == i - (n + 1)
    <3>1. i # n + 1
      BY <2>1, <1>9
    <3>2. m \in 1 .. Len(q) /\ i = n + 1 + m /\ down'[i] = q[m] /\ t \in S
      BY <3>1, <1>10, <1>11
    <3>3. t \in Nat /\ t > upto /\ t \in Seqs /\ t - 1 \in Nat
      <4>1. t > upto /\ t \in Seqs
        BY <3>2 DEF S
      <4> HIDE DEF t
      <4> QED
        BY <4>1, LimitsAssumption DEF Seqs
    <3>4. CASE t - 1 = upto
      <4>1. CASE n = 0
        BY <4>1, <3>3, <3>4, <1>2
      <4>2. CASE n # 0
        <5>1. n \in 1 .. n /\ n \in 1 .. i - 1
          BY <4>2, <3>2, <1>2, <1>5
        <5>2. down'[n] = <<"event", t - 1>>
          BY <5>1, <3>4, <1>0, <1>2, <1>8 DEF NextEvents, DownGrows
        <5> QED
          BY <5>1, <5>2
      <4> QED
        BY <4>1, <4>2
    <3>5. CASE t - 1 > upto
      <4>1. row[t] \in Given
        BY <3>2, <1>17 DEF S, OrderKnown, OrderSent
      <4>2. t - 1 \in 1 .. t - 1 /\ t - 1 \in Seqs
        BY <3>3, <3>5, <1>2, LimitsAssumption DEF Seqs
      <4>3. row[t - 1] = "published"
        BY <4>1, <4>2, <3>3, <1>17 DEF OrderKnown, OrderRows, InLine, Given
      <4>4. t - 1 \in S
        BY <4>2, <4>3, <3>5, <1>1, <1>17 DEF S, OrderKnown, OrderSent, Given
      <4>5. t - 1 < q[m][2]
        BY <3>2, <3>3
      <4>6. PICK j \in 1 .. m - 1 : q[j] = <<"event", t - 1>>
        BY <4>4, <4>5, <3>2, <1>4
      <4>7. n + 1 + j \in 1 .. i - 1 /\ j \in 1 .. Len(q)
        BY <3>2, <1>2, <1>5
      <4>8. down'[n + 1 + j] = <<"event", t - 1>>
        BY <4>6, <4>7, <1>9
      <4> QED
        BY <4>7, <4>8
    <3> QED
      BY <3>3, <3>4, <3>5, <1>2, SMTT(30)
  <2> QED
    BY <2>1, <1>0, <1>1, <1>8, <1>17, OrderExtends DEF OrderKnown
<1>18. ASSUME inOrder PROVE OrderRows' /\ OrderRecovery'
  BY <1>1, <1>2, <1>18 DEF OrderKnown, OrderRows, OrderRecovery
<1> QED
  BY <1>1, <1>12, <1>13, <1>14, <1>15, <1>16, <1>17, <1>18 DEF OrderKnown

-----------------------------------------------------------------------------
(* Commands.                                                               *)

\* A command is answered, whether or not it appends an event.
LEMMA AnswerKeeps ==
    ASSUME RealtimeInv, inOrder' = inOrder, conn = "live", NEW c \in Commands,
           NEW f \in {<<"ack", c>>, <<"reject", c>>}, down' = Append(down, f),
           sent' = sent \ {c}, done' \in [Commands -> 0 .. MaxEvents],
           AppendEvent \/ UNCHANGED <<last, row, tries>>,
           UNCHANGED <<drops, conn, hello, base, upto, at, buffer, client, recovery, stop>>
    PROVE  RealtimeInv'
<1> USE DEF RealtimeInv
<1>1. UNCHANGED <<link, ready, cursor, applied, pending, unused, gate, rec, from, page, need>>
  BY DEF client, recovery
<1>2. f \in Frames /\ f[1] \in {"ack", "reject"}
  <2>1. CASE f = <<"ack", c>>
    BY <2>1, FrameMade
  <2>2. CASE f = <<"reject", c>>
    BY <2>2, FrameMade
  <2> QED
    BY <2>1, <2>2
<1>3. /\ DownGrows /\ Len(down') = Len(down) + 1 /\ down'[Len(down) + 1] = f
      /\ Len(down) \in Nat
  BY <1>2, DownAppend
<1>4. \A i \in Len(down) + 1 .. Len(down') : down'[i] = f
  BY <1>3
<1>5. \A t \in Seqs : Coming(t) => Coming(t)'
  <2>1. \A i \in 1 .. Len(down) : i \in 1 .. Len(down') /\ down'[i] = down[i]
    BY <1>3 DEF DownGrows
  <2> QED
    BY <2>1, Zenon DEF Coming
<1>6. /\ last' \in 0 .. MaxEvents /\ last' >= last /\ tries' = tries
      /\ row' \in [Seqs -> {"absent", "waiting", "locked", "addressed", "sent", "delayed",
                            "published"}]
      /\ RowsKnown' /\ (inOrder => OrderRows' /\ OrderSent')
  <2>1. CASE AppendEvent
    <3>1. tries' = tries
      BY <2>1 DEF AppendEvent
    <3> QED
      BY <2>1, <3>1, <1>1, <1>5, AppendKeeps
  <2>2. CASE UNCHANGED <<last, row, tries>>
    <3>1. last' \in 0 .. MaxEvents /\ last' >= last
      BY <2>2, Numbers DEF RealtimeTypeOK
    <3>2. RowsKnown'
      BY <2>2 DEF RowsKnown
    <3>3. inOrder => OrderRows' /\ OrderSent'
      BY <2>2, <1>1, <1>5 DEF OrderKnown, OrderRows, OrderSent
    <3> QED
      BY <2>2, <3>1, <3>2, <3>3 DEF RealtimeTypeOK
  <2> QED
    BY <2>1, <2>2
<1>7. cursor \in 0 .. last' /\ last' \in Nat /\ base' <= last' /\ upto' <= last'
  <2>1. cursor <= last /\ base <= last /\ upto <= last
    BY DEF AppliedInOrder, FramesKnown
  <2> QED
    BY <2>1, <1>6, Numbers
<1>8. RealtimeTypeOK'
  BY <1>1, <1>3, <1>6, <1>7 DEF RealtimeTypeOK, DownGrows
<1>9. AppliedInOrder' /\ SnapshotStartsRecovery'
  BY <1>1, <1>6, <1>7 DEF AppliedInOrder, SnapshotStartsRecovery
<1>10. LinkKnown'
  BY <1>1 DEF LinkKnown
<1>11. FramesKnown'
  <2>1. \A i \in Len(down) + 1 .. Len(down') : SentWell(i)
    BY <1>2, <1>4 DEF SentWell
  <2> QED
    BY <2>1, <1>3, <1>6, <1>7, FramesExtend
<1>12. RecoveryKnown'
  BY <1>1, <1>6, <1>7, RecoveryFrame
<1>13. ReplayKnown'
  BY <1>1, <1>2, <1>3, <1>4, ReplayExtends
<1>14. ASSUME inOrder PROVE OrderFrames' /\ OrderRecovery'
  <2>1. OrderFrames'
    BY <1>1, <1>2, <1>3, <1>4, <1>14, OrderExtends DEF OrderKnown
  <2>2. OrderRecovery'
    BY <1>1, <1>14 DEF OrderKnown, OrderRecovery
  <2> QED
    BY <2>1, <2>2
<1> QED
  BY <1>6, <1>8, <1>9, <1>10, <1>11, <1>12, <1>13, <1>14 DEF OrderKnown

\* dispatch keeps the invariant, for a new command and for a repeated one.
LEMMA DispatchKeeps ==
    ASSUME RealtimeInv, inOrder' = inOrder, NEW c \in Commands, Dispatch(c) \/ Reject(c)
    PROVE  RealtimeInv'
<1>1. /\ conn = "live" /\ sent' = sent \ {c}
      /\ UNCHANGED <<drops, conn, hello, base, upto, at, buffer, client, recovery, stop>>
      /\ \E f \in {<<"ack", c>>, <<"reject", c>>} : down' = Append(down, f)
  BY DEF Dispatch, Reject
<1>2. done \in [Commands -> 0 .. MaxEvents] /\ last \in 0 .. MaxEvents
  BY DEF RealtimeInv, RealtimeTypeOK
<1>3. /\ done' \in [Commands -> 0 .. MaxEvents]
      /\ AppendEvent \/ UNCHANGED <<last, row, tries>>
  <2>1. CASE UNCHANGED outbox
    BY <2>1, <1>2 DEF outbox
  <2>2. CASE AppendEvent /\ done' = [done EXCEPT ![c] = last + 1]
    <3>1. last + 1 \in 0 .. MaxEvents
      BY <2>2, <1>2, LimitsAssumption DEF AppendEvent
    <3> QED
      BY <2>2, <3>1, <1>2
  <2> QED
    BY <2>1, <2>2 DEF Dispatch, Reject
<1> QED
  BY <1>1, <1>3, AnswerKeeps

\* RoomSocket.send keeps the invariant.
LEMMA SendCommandKeeps ==
    ASSUME RealtimeInv, inOrder' = inOrder, NEW c \in Commands, SendCommand(c)
    PROVE  RealtimeInv'
<1> USE DEF RealtimeInv
<1>1. /\ stop = "no" /\ c \in unused /\ unused' = unused \ {c} /\ pending' = pending \cup {c}
      /\ sent' = (IF ready THEN sent \cup {c} ELSE sent)
      /\ UNCHANGED <<last, row, tries, done, drops, conn, hello, base, upto, at, buffer, down,
                     link, ready, cursor, applied, gate, rec, from, page, need, stop>>
  BY DEF SendCommand, outbox, recovery
<1>2. sent' \subseteq pending' /\ pending' \subseteq Commands \ unused' /\ unused' \subseteq Commands
  BY <1>1 DEF RealtimeTypeOK
<1>3. RealtimeTypeOK'
  BY <1>1, <1>2 DEF RealtimeTypeOK
<1>4. AppliedInOrder' /\ SnapshotStartsRecovery' /\ RowsKnown'
  BY <1>1 DEF AppliedInOrder, SnapshotStartsRecovery, RowsKnown
<1>5. LinkKnown'
  <2>1. ready => link
    BY DEF LinkKnown
  <2>2. stop' \notin Cleared
    BY <1>1 DEF Cleared
  <2> QED
    BY <1>1, <2>1, <2>2 DEF LinkKnown
<1>6. ReplayKnown' /\ FramesKnown' /\ RecoveryKnown'
  BY <1>1, Numbers, ReplayFrame, FramesFrame, RecoveryFrame
<1>7. OrderKnown'
  BY <1>1 DEF OrderKnown, OrderRows, OrderSent, Coming, OrderFrames, OrderRecovery
<1> QED
  BY <1>3, <1>4, <1>5, <1>6, <1>7

-----------------------------------------------------------------------------
(* The browser loses its socket, or has a new one.                         *)

\* A list of the first n room_seq is a list of room_seq.
LEMMA PrefixIsSeq ==
    ASSUME NEW n \in Nat, n <= MaxEvents
    PROVE  [i \in 1 .. n |-> i] \in Seq(Seqs)
BY LimitsAssumption DEF Seqs

\* Whatever else the browser does when it loses its socket, nothing is left that
\* could arrive.
LEMMA DisconnectKeeps ==
    ASSUME RealtimeInv, inOrder' = inOrder, Disconnect,
           drops' \in 0 .. MaxDrops, gate' \in BOOLEAN,
           pending' \subseteq Commands \ unused', unused' \subseteq Commands,
           cursor' \in 0 .. last, applied' = [i \in 1 .. cursor' |-> i],
           rec' \in {"off", "asked", "answered"}, from' \in 0 .. MaxEvents,
           page' \in (0 .. MaxEvents) \X BOOLEAN, need' \in 0 .. MaxEvents,
           stop' \in {"no", "invalid", "request", "gap", "range"} \cup Cleared,
           stop' \in Cleared => cursor' = 0 /\ pending' = {},
           RecoveryKnown', inOrder => OrderRecovery'
    PROVE  RealtimeInv'
<1> USE DEF RealtimeInv
<1>1. /\ conn' = "none" /\ buffer' = <<>> /\ hello' = <<>> /\ sent' = {} /\ down' = <<>>
      /\ row' = Orphaned /\ ~link' /\ ~ready'
      /\ UNCHANGED <<base, upto, at, last, tries, done>>
  BY DEF Disconnect, Hangup
<1>2. /\ row' \in [Seqs -> {"absent", "waiting", "locked", "addressed", "sent", "delayed",
                            "published"}]
      /\ RowsKnown' /\ (inOrder => OrderRows' /\ OrderSent')
  BY <1>1, HangupRows
<1>3. link' \in BOOLEAN /\ ready' \in BOOLEAN
  BY DEF Disconnect
<1>4. RealtimeTypeOK'
  <2>1. /\ hello' \in Seq(0 .. MaxEvents) /\ Len(hello') <= 1 /\ down' \in Seq(Frames)
        /\ buffer' \in Seq(Seqs) /\ Len(buffer') <= MaxBuffer
    BY <1>1, LimitsAssumption
  <2>2. applied' \in Seq(Seqs)
    <3>1. cursor' \in Nat /\ cursor' <= MaxEvents
      BY LimitsAssumption DEF RealtimeTypeOK
    <3> QED
      BY <3>1, PrefixIsSeq
  <2>3. cursor' \in 0 .. last'
    BY <1>1
  <2> QED
    BY <1>1, <1>2, <1>3, <2>1, <2>2, <2>3 DEF RealtimeTypeOK
<1>5. AppliedInOrder' /\ SnapshotStartsRecovery'
  <2>1. cursor' <= last'
    BY <1>1, Numbers
  <2> QED
    BY <2>1 DEF AppliedInOrder, SnapshotStartsRecovery, Cleared
<1>6. LinkKnown'
  BY <1>1 DEF LinkKnown
<1>7. FramesKnown' /\ ReplayKnown'
  BY <1>1 DEF FramesKnown, ReplayKnown, NoResumed
<1>8. OrderFrames'
  BY <1>1 DEF OrderFrames
<1> QED
  BY <1>2, <1>4, <1>5, <1>6, <1>7, <1>8 DEF OrderKnown

\* clearState keeps the invariant.
LEMMA ClearKeeps ==
    ASSUME RealtimeInv, inOrder' = inOrder, NEW why \in Cleared, Clear(why),
           rec' = rec \/ rec' = "off"
    PROVE  RealtimeInv'
<1> USE DEF RealtimeInv
<1>1. /\ stop' = why /\ Disconnect /\ cursor' = 0 /\ applied' = <<>> /\ pending' = {}
      /\ gate' = FALSE /\ need' = 0 /\ UNCHANGED <<drops, unused, from, page>>
  BY DEF Clear
<1>2. conn' = "none" /\ down' = <<>> /\ last' = last
  BY <1>1 DEF Disconnect, Hangup
<1>3. /\ drops' \in 0 .. MaxDrops /\ gate' \in BOOLEAN /\ unused' \subseteq Commands
      /\ from' \in 0 .. MaxEvents /\ page' \in (0 .. MaxEvents) \X BOOLEAN
      /\ rec' \in {"off", "asked", "answered"}
      /\ pending' \subseteq Commands \ unused'
  BY <1>1 DEF RealtimeTypeOK
<1>4. /\ cursor' \in 0 .. last /\ need' \in 0 .. MaxEvents
      /\ applied' = [i \in 1 .. cursor' |-> i]
  BY <1>1, Numbers
<1>5. stop' \in {"no", "invalid", "request", "gap", "range"} \cup Cleared
  BY <1>1
<1>6. RecoveryKnown'
  BY <1>1, <1>2, Numbers DEF RecoveryKnown, Cleared
<1>7. ASSUME inOrder PROVE OrderRecovery'
  <2>1. stop' # "gap" /\ stop' \in Cleared
    BY <1>1 DEF Cleared
  <2>2. rec' = "answered" => page'[1] >= from' /\ page'[1] >= need'
    BY <1>1, <1>7, Numbers DEF OrderKnown, OrderRecovery
  <2> QED
    BY <2>1, <2>2, <1>2 DEF OrderRecovery
<1> QED
  BY <1>1, <1>3, <1>4, <1>5, <1>6, <1>7, DisconnectKeeps

\* failRecovery keeps the invariant, with what a last page has brought; while rows
\* are published in order it is never called for a gap.
LEMMA GiveUpKeeps ==
    ASSUME RealtimeInv, inOrder' = inOrder,
           NEW why \in {"invalid", "request", "range", "gap"}, GiveUp(why),
           why = "gap" => ~inOrder,
           cursor' \in cursor .. last, applied' = [i \in 1 .. cursor' |-> i],
           stop \in Cleared => cursor' = cursor,
           from' \in 0 .. last, UNCHANGED <<page, need>>,
           rec' = "off" \/ (UNCHANGED <<rec, cursor, from>>)
    PROVE  RealtimeInv'
<1> USE DEF RealtimeInv
<1>1. /\ stop' = (IF stop = "no" THEN why ELSE stop) /\ Disconnect
      /\ UNCHANGED <<drops, pending, unused, gate>>
  BY DEF GiveUp
<1>2. conn' = "none" /\ down' = <<>> /\ last' = last
  BY <1>1 DEF Disconnect, Hangup
<1>3. /\ drops' \in 0 .. MaxDrops /\ gate' \in BOOLEAN /\ unused' \subseteq Commands
      /\ page' \in (0 .. MaxEvents) \X BOOLEAN /\ need' \in 0 .. MaxEvents
      /\ rec' \in {"off", "asked", "answered"}
      /\ pending' \subseteq Commands \ unused'
  BY <1>1 DEF RealtimeTypeOK
<1>4. cursor' \in 0 .. last /\ from' \in 0 .. MaxEvents
  <2>1. last \in 0 .. MaxEvents
    BY DEF RealtimeTypeOK
  <2> QED
    BY <2>1, Numbers
<1>5. /\ stop' \in {"no", "invalid", "request", "gap", "range"} \cup Cleared /\ stop' # "no"
      /\ stop' \in Cleared <=> stop \in Cleared
  <2>1. stop \in {"no", "invalid", "request", "gap", "range"} \cup Cleared
    BY DEF RealtimeTypeOK, SnapshotStartsRecovery
  <2> QED
    BY <2>1, <1>1 DEF Cleared
<1>6. stop' \in Cleared => cursor' = 0 /\ pending' = {}
  BY <1>1, <1>5 DEF LinkKnown
<1>7. RecoveryKnown'
  <2>1. from' <= last' /\ need' <= last'
    BY <1>2, <1>4, Numbers DEF RecoveryKnown
  <2>2. CASE rec' = "off"
    BY <2>1, <2>2 DEF RecoveryKnown
  <2>3. CASE UNCHANGED <<rec, cursor, from>>
    BY <2>1, <2>3, <1>2, <1>5 DEF RecoveryKnown
  <2> QED
    BY <2>2, <2>3
<1>8. ASSUME inOrder PROVE OrderRecovery'
  <2>1. stop' # "gap"
    BY <1>1, <1>8 DEF OrderKnown, OrderRecovery
  <2>2. CASE rec' = "off"
    BY <2>1, <2>2 DEF OrderRecovery
  <2>3. CASE UNCHANGED <<rec, cursor, from>>
    BY <2>1, <2>3, <1>2, <1>5, <1>8 DEF OrderKnown, OrderRecovery
  <2> QED
    BY <2>2, <2>3
<1> QED
  BY <1>1, <1>3, <1>4, <1>5, <1>6, <1>7, <1>8, DisconnectKeeps

\* Losing the connection keeps the invariant.
LEMMA DropKeeps ==
    ASSUME RealtimeInv, inOrder' = inOrder, Disconnect,
           drops' \in 0 .. MaxDrops,
           UNCHANGED <<cursor, applied, pending, unused, gate, recovery, stop>>
    PROVE  RealtimeInv'
<1> USE DEF RealtimeInv
<1>1. UNCHANGED <<rec, from, page, need>>
  BY DEF recovery
<1>2. conn' = "none" /\ down' = <<>> /\ last' = last
  BY DEF Disconnect, Hangup
<1>3. /\ gate' \in BOOLEAN /\ unused' \subseteq Commands
      /\ page' \in (0 .. MaxEvents) \X BOOLEAN /\ need' \in 0 .. MaxEvents
      /\ rec' \in {"off", "asked", "answered"} /\ from' \in 0 .. MaxEvents
      /\ pending' \subseteq Commands \ unused' /\ cursor' \in 0 .. last
      /\ applied' = [i \in 1 .. cursor' |-> i]
  BY <1>1 DEF RealtimeTypeOK, AppliedInOrder
<1>4. /\ stop' \in {"no", "invalid", "request", "gap", "range"} \cup Cleared
      /\ stop' \in Cleared => cursor' = 0 /\ pending' = {}
  BY DEF RealtimeTypeOK, SnapshotStartsRecovery, LinkKnown
<1>5. RecoveryKnown'
  BY <1>1, <1>2, Numbers, RecoveryFrame
<1>6. ASSUME inOrder PROVE OrderRecovery'
  BY <1>1, <1>2, <1>6 DEF OrderKnown, OrderRecovery
<1> QED
  BY <1>3, <1>4, <1>5, <1>6, DisconnectKeeps

\* A new connection starts from the cursor, with no recovery under way.
LEMMA ConnectKeeps ==
    ASSUME RealtimeInv, inOrder' = inOrder, Connect
    PROVE  RealtimeInv'
<1> USE DEF RealtimeInv
<1>1. /\ ~link /\ stop = "no" /\ (gate => rec = "off") /\ link' = TRUE /\ gate' = FALSE
      /\ conn' = "open" /\ base' = 0 /\ upto' = 0 /\ at' = 0 /\ hello' = <<cursor>>
      /\ UNCHANGED <<last, row, tries, done, drops, buffer, down, sent, ready, cursor,
                     applied, pending, unused, rec, from, page, need, stop>>
  BY DEF Connect, outbox, recovery
<1>2. rec = "off" /\ conn = "none" /\ down = <<>> /\ ~ready /\ buffer = <<>>
  BY <1>1 DEF RecoveryKnown, LinkKnown, RowsKnown
<1>3. RealtimeTypeOK'
  <2>1. hello' \in Seq(0 .. MaxEvents) /\ Len(hello') <= 1
    <3>1. cursor \in 0 .. MaxEvents
      BY LimitsAssumption DEF RealtimeTypeOK
    <3> QED
      BY <3>1, <1>1
  <2>2. base' \in 0 .. MaxEvents /\ upto' \in 0 .. MaxEvents /\ at' \in base' .. upto'
    BY <1>1, LimitsAssumption
  <2>3. link' \in BOOLEAN /\ gate' \in BOOLEAN
    BY <1>1
  <2> QED
    BY <1>1, <2>1, <2>2, <2>3 DEF RealtimeTypeOK
<1>4. AppliedInOrder' /\ SnapshotStartsRecovery'
  BY <1>1 DEF AppliedInOrder, SnapshotStartsRecovery
<1>5. RowsKnown'
  BY <1>1, <1>2 DEF RowsKnown
<1>6. LinkKnown'
  BY <1>1 DEF LinkKnown
<1>7. FramesKnown'
  <2>1. base' <= last' /\ upto' <= last'
    BY <1>1, Numbers
  <2> QED
    BY <2>1, <1>1, <1>2 DEF FramesKnown
<1>8. ReplayKnown'
  BY <1>1, <1>2 DEF ReplayKnown, NoResumed
<1>9. RecoveryKnown'
  BY <1>1, <1>2 DEF RecoveryKnown
<1>10. OrderKnown'
  BY <1>1, <1>2 DEF OrderKnown, OrderRows, OrderSent, OrderFrames, OrderRecovery
<1> QED
  BY <1>3, <1>4, <1>5, <1>6, <1>7, <1>8, <1>9, <1>10

-----------------------------------------------------------------------------
(* The browser takes a frame.                                              *)

\* The first frame is taken, the others move up.
DownShifts ==
    /\ down' \in Seq(Frames) /\ Len(down) \in Nat /\ Len(down) > 0
    /\ Len(down') = Len(down) - 1 /\ Len(down') \in Nat
    /\ \A i \in 1 .. Len(down') : i + 1 \in 1 .. Len(down) /\ down'[i] = down[i + 1]
    /\ 1 \in 1 .. Len(down) /\ down[1] \in Frames

\* What is left under way.
LEMMA TailFacts ==
    ASSUME RealtimeTypeOK, down # <<>>, down' = Tail(down)
    PROVE  DownShifts
<1>1. down \in Seq(Frames) /\ Len(down) \in Nat
  BY Numbers DEF RealtimeTypeOK
<1>2. Len(down) > 0
  BY <1>1, EmptySeq
<1>3. /\ down' \in Seq(Frames) /\ Len(down') = Len(down) - 1
      /\ \A i \in 1 .. Len(down') : down'[i] = down[i + 1]
  BY <1>1, HeadTailProperties
<1>4. 1 \in 1 .. Len(down)
  BY <1>1, <1>2
<1>5. down[1] \in Frames
  BY <1>4, Numbers
<1> QED
  BY <1>1, <1>2, <1>3, <1>4, <1>5 DEF DownShifts

\* The frames that are left stay known, a snapshot having started its recovery.
LEMMA FramesTail ==
    ASSUME RealtimeTypeOK, FramesKnown, DownShifts,
           UNCHANGED <<base, upto, conn, last>>, down[1][1] = "snapshot" => gate'
    PROVE  FramesKnown'
<1>1. /\ Len(down) \in Nat /\ Len(down') = Len(down) - 1 /\ Len(down') \in Nat
      /\ \A i \in 1 .. Len(down') : i + 1 \in 1 .. Len(down) /\ down'[i] = down[i + 1]
  BY DEF DownShifts
<1>2. ASSUME NEW i \in 1 .. Len(down')
      PROVE  FrameKnown(i)'
  <2>1. FrameKnown(i + 1) /\ down'[i] = down[i + 1]
    BY <1>1 DEF FramesKnown
  <2>2. down'[i][1] = "snapshot" =>
           /\ down'[i][3] <= last' /\ i + 1 = Len(down') /\ down'[i + 1] = <<"close", "snapshot">>
    <3>1. SUFFICES ASSUME down'[i][1] = "snapshot"
                   PROVE  i + 1 = Len(down') /\ down'[i + 1] = <<"close", "snapshot">>
      BY <2>1 DEF FrameKnown
    <3>2. (i + 1) + 1 = Len(down) /\ down[(i + 1) + 1] = <<"close", "snapshot">>
      BY <2>1, <3>1 DEF FrameKnown
    <3>3. i + 1 = Len(down') /\ i + 1 \in 1 .. Len(down')
      BY <3>2, <1>1
    <3> QED
      BY <3>2, <3>3, <1>1
  <2>3. down'[i][1] = "close" => i = Len(down') /\ conn' = "none"
    <3>1. down'[i][1] = "close" => i + 1 = Len(down) /\ conn = "none"
      BY <2>1 DEF FrameKnown
    <3> QED
      BY <3>1, <1>1
  <2>4. down'[i] = <<"close", "snapshot">> =>
           \/ i = 1 /\ gate'
           \/ i > 1 /\ down'[i - 1][1] = "snapshot"
    <3>1. SUFFICES ASSUME down'[i] = <<"close", "snapshot">>
                   PROVE  (i = 1 /\ gate') \/ (i > 1 /\ down'[i - 1][1] = "snapshot")
      OBVIOUS
    <3>2. i + 1 # 1 /\ (i + 1) - 1 = i
      BY <1>1
    <3>3. down[i][1] = "snapshot"
      <4>1. down[(i + 1) - 1][1] = "snapshot"
        BY <2>1, <3>1, <3>2 DEF FrameKnown
      <4> QED
        BY <4>1, <3>2
    <3>4. CASE i = 1
      BY <3>3, <3>4
    <3>5. CASE i # 1
      <4>1. i > 1 /\ i - 1 \in 1 .. Len(down') /\ (i - 1) + 1 = i
        BY <3>5, <1>1
      <4>2. down'[i - 1] = down[(i - 1) + 1]
        BY <4>1, <1>1
      <4> QED
        BY <4>1, <4>2, <3>3
    <3> QED
      BY <3>4, <3>5
  <2>5. down'[i][1] \in {"event", "resumed"} => down'[i][2] <= last'
    BY <2>1 DEF FrameKnown
  <2> QED
    BY <2>2, <2>3, <2>4, <2>5 DEF FrameKnown
<1> QED
  BY <1>2 DEF FramesKnown

\* An event that is taken is applied, or was.
HeadApplied == down[1][1] = "event" => down[1][2] <= cursor'

\* The frames that are left leave no gap, the first being applied or known.
LEMMA OrderTail ==
    ASSUME RealtimeTypeOK, OrderFrames, DownShifts,
           cursor' \in Nat, cursor' >= cursor, HeadApplied
    PROVE  OrderFrames'
<1>0. /\ \A u \in Nat : u - 1 <= cursor' => u <= cursor' + 1
      /\ \A u \in Nat : u <= cursor + 1 => u <= cursor' + 1
  <2>1. \A u, v, w \in Nat : /\ u - 1 <= v => u <= v + 1
                             /\ u <= v + 1 /\ w >= v => u <= w + 1
    OBVIOUS
  <2> QED
    BY <2>1, Numbers
<1>1. /\ Len(down) \in Nat /\ Len(down') = Len(down) - 1 /\ Len(down') \in Nat
      /\ \A i \in 1 .. Len(down') : i + 1 \in 1 .. Len(down) /\ down'[i] = down[i + 1]
  BY DEF DownShifts
<1>2. ASSUME NEW i \in 1 .. Len(down'), down'[i][1] = "event"
      PROVE  \/ down'[i][2] <= cursor' + 1
             \/ \E j \in 1 .. i - 1 : down'[j] = <<"event", down'[i][2] - 1>>
  <2>0. PICK t \in Nat : down'[i][2] = t
    <3>1. down[i + 1] \in Frames /\ down'[i] = down[i + 1] /\ MaxEvents \in Nat
      BY <1>1, Numbers
    <3> QED
      BY <3>1, <1>2, FrameShape
  <2>1. t <= cursor + 1 \/ \E j \in 1 .. (i + 1) - 1 : down[j] = <<"event", t - 1>>
    BY <2>0, <1>1, <1>2 DEF OrderFrames
  <2>2. CASE t <= cursor + 1
    <3>1. t <= cursor' + 1
      BY <2>2, <1>0
    <3> QED
      BY <2>0, <3>1
  <2>3. ASSUME NEW j \in 1 .. (i + 1) - 1, down[j] = <<"event", t - 1>>
        PROVE  t <= cursor' + 1 \/ \E k \in 1 .. i - 1 : down'[k] = <<"event", t - 1>>
    <3>1. CASE j = 1
      <4>1. down[1][1] = "event" /\ down[1][2] = t - 1
        BY <3>1, <2>3
      <4>2. t - 1 <= cursor'
        BY <4>1 DEF HeadApplied
      <4>3. t <= cursor' + 1
        BY <4>2, <1>0
      <4> QED
        BY <4>3
    <3>2. CASE j # 1
      <4>1. j - 1 \in 1 .. i - 1 /\ j - 1 \in 1 .. Len(down') /\ (j - 1) + 1 = j
        BY <3>2, <1>1
      <4>2. down'[j - 1] = <<"event", t - 1>>
        <5>1. down'[j - 1] = down[(j - 1) + 1]
          BY <4>1, <1>1
        <5> QED
          BY <5>1, <4>1, <2>3
      <4> QED
        BY <4>1, <4>2
    <3> QED
      BY <3>1, <3>2
  <2> QED
    BY <2>0, <2>1, <2>2, <2>3
<1> QED
  BY <1>2 DEF OrderFrames

\* No resume_complete comes after none.
LEMMA NoResumedTail ==
    ASSUME DownShifts, NoResumed
    PROVE  NoResumed'
BY DEF NoResumed, DownShifts

\* A frame that is no event of the replay and no resume_complete comes after it.
LEMMA HeadSettled ==
    ASSUME RealtimeInv, link, DownShifts,
           down[1] # <<"event", cursor + 1>>, down[1][1] # "resumed"
    PROVE  /\ conn \in {"live", "none"}
           /\ ready \/ (conn = "none" /\ NoResumed)
<1> USE DEF RealtimeInv
<1>1. Len(down) \in Nat /\ 1 \in 1 .. Len(down) /\ down # <<>>
  BY DEF DownShifts
<1>2. conn # "replaying"
  BY <1>1 DEF ReplayKnown, NextEvents
<1>3. conn \in {"live", "none"}
  BY <1>1, <1>2 DEF ReplayKnown, RealtimeTypeOK
<1>4. ASSUME NEW k \in 1 .. Len(down), ResumedAt(k)
      PROVE  FALSE
  <2>1. CASE k = 1
    BY <2>1, <1>4 DEF ResumedAt
  <2>2. CASE k # 1
    <3>1. 1 \in 1 .. k - 1
      BY <2>2, <1>1
    <3> QED
      BY <3>1, <1>4 DEF ResumedAt, NextEvents
  <2> QED
    BY <2>1, <2>2
<1> QED
  BY <1>3, <1>4 DEF ReplayKnown

\* The browser takes a frame: what the particular frame does is left to the
\* lemmas below.
LEMMA TakeKeeps ==
    ASSUME RealtimeInv, inOrder' = inOrder, link, DownShifts,
           UNCHANGED <<last, row, tries, done, drops, conn, hello, base, upto, at, buffer>>,
           UNCHANGED <<link, unused, stop>>, ready' \in BOOLEAN, gate' \in BOOLEAN,
           down[1][1] = "snapshot" => gate',
           sent' \subseteq pending', pending' \subseteq pending,
           cursor' \in cursor .. last, applied' = [i \in 1 .. cursor' |-> i],
           rec' \in {"off", "asked", "answered"}, from' \in 0 .. MaxEvents,
           page' \in (0 .. MaxEvents) \X BOOLEAN, need' \in 0 .. MaxEvents,
           inOrder => HeadApplied,
           ReplayKnown', RecoveryKnown', inOrder => OrderRecovery'
    PROVE  RealtimeInv'
<1> USE DEF RealtimeInv
<1>1. down # <<>>
  BY DEF DownShifts
<1>2. /\ down' \in Seq(Frames) /\ Len(down) \in Nat /\ Len(down') = Len(down) - 1
      /\ \A i \in 1 .. Len(down') : i + 1 \in 1 .. Len(down) /\ down'[i] = down[i + 1]
  BY DEF DownShifts
<1>3. cursor' \in 0 .. last' /\ cursor' \in Nat /\ cursor' >= cursor /\ cursor' <= last'
  BY <1>1, Numbers
<1>4. RealtimeTypeOK'
  <2>1. applied' \in Seq(Seqs)
    <3>1. cursor' <= MaxEvents
      BY <1>1, <1>3, LimitsAssumption DEF RealtimeTypeOK
    <3> QED
      BY <3>1, <1>3, PrefixIsSeq
  <2>2. pending' \subseteq Commands \ unused'
    BY DEF RealtimeTypeOK
  <2> QED
    BY <1>1, <1>2, <1>3, <2>1, <2>2 DEF RealtimeTypeOK
<1>5. AppliedInOrder' /\ SnapshotStartsRecovery' /\ RowsKnown'
  BY <1>1, <1>3 DEF AppliedInOrder, SnapshotStartsRecovery, RowsKnown
<1>6. LinkKnown'
  <2>1. stop = "no" /\ stop \notin Cleared /\ conn # "open"
    BY <1>1 DEF LinkKnown, ReplayKnown, Cleared
  <2> QED
    BY <2>1 DEF LinkKnown
<1>7. FramesKnown'
  BY <1>1, FramesTail
<1>8. ASSUME inOrder PROVE OrderRows' /\ OrderSent' /\ OrderFrames'
  <2>1. OrderFrames'
    BY <1>1, <1>3, <1>8, OrderTail DEF OrderKnown
  <2>2. ASSUME NEW t \in Seqs, t <= cursor \/ Coming(t)
        PROVE  t <= cursor' \/ Coming(t)'
    <3>1. CASE t <= cursor
      <4>1. t \in Nat /\ cursor \in Nat
        BY Numbers
      <4> QED
        BY <4>1, <3>1, <1>3
    <3>2. CASE Coming(t)
      <4>1. PICK i \in 1 .. Len(down) : down[i] = <<"event", t>>
        BY <3>2 DEF Coming
      <4>2. CASE i = 1
        <5>1. down[1][1] = "event" /\ down[1][2] = t
          BY <4>1, <4>2
        <5> QED
          BY <5>1, <1>8 DEF HeadApplied
      <4>3. CASE i # 1
        <5>1. i - 1 \in 1 .. Len(down') /\ (i - 1) + 1 = i
          BY <4>3, <1>2
        <5>2. down'[i - 1] = down[(i - 1) + 1]
          BY <5>1, <1>2
        <5> QED
          BY <5>1, <5>2, <4>1 DEF Coming
      <4> QED
        BY <4>2, <4>3
    <3> QED
      BY <2>2, <3>1, <3>2
  <2>3. OrderSent'
    BY <2>2, <1>1, <1>8 DEF OrderKnown, OrderSent
  <2>4. OrderRows'
    BY <1>1, <1>8 DEF OrderKnown, OrderRows
  <2> QED
    BY <2>1, <2>3, <2>4
<1> QED
  BY <1>4, <1>5, <1>6, <1>7, <1>8 DEF OrderKnown

\* recoverEvents starts at the cursor and asks for what was committed.
LEMMA RecoverFacts ==
    ASSUME RealtimeInv, NEW through \in Nat, through <= last, Recover(through),
           UNCHANGED <<cursor, last, stop>>
    PROVE  /\ gate' = TRUE /\ rec' \in {"asked", "answered"} /\ page' = page
           /\ from' \in 0 .. MaxEvents /\ need' \in 0 .. MaxEvents
           /\ page' \in (0 .. MaxEvents) \X BOOLEAN
           /\ rec = "off" => rec' = "asked" /\ from' = cursor
           /\ RecoveryKnown'
<1> USE DEF RealtimeInv
<1>1. gate' = TRUE /\ need' = Larger(need, through) /\ page' = page
  BY DEF Recover
<1>2. /\ rec = "off" => rec' = "asked" /\ from' = cursor
      /\ rec # "off" => rec' = rec /\ from' = from
  BY DEF Recover
<1>3. /\ last \in 0 .. MaxEvents /\ need \in 0 .. MaxEvents /\ cursor \in 0 .. last
      /\ from \in 0 .. MaxEvents /\ rec \in {"off", "asked", "answered"}
      /\ page \in (0 .. MaxEvents) \X BOOLEAN
  BY DEF RealtimeTypeOK
<1>4. need' \in 0 .. MaxEvents /\ need' <= last
  BY <1>1, <1>3, LimitsAssumption DEF Larger, RecoveryKnown
<1>5. from' \in 0 .. MaxEvents /\ from' <= last
  <2>1. from <= last /\ cursor <= last /\ cursor \in 0 .. MaxEvents
    BY <1>3, LimitsAssumption DEF RecoveryKnown
  <2> QED
    BY <2>1, <1>2, <1>3
<1>6. rec' \in {"asked", "answered"}
  BY <1>2, <1>3
<1>7. RecoveryKnown'
  <2>1. stop \notin Cleared => from' <= cursor'
    BY <1>2, <1>3, LimitsAssumption DEF RecoveryKnown
  <2>2. rec' = "answered" => page'[1] <= last'
    BY <1>1, <1>2 DEF RecoveryKnown
  <2> QED
    BY <2>1, <2>2, <1>1, <1>4, <1>5 DEF RecoveryKnown
<1> QED
  BY <1>1, <1>2, <1>3, <1>4, <1>5, <1>6, <1>7

\* Once the replay is over, the frames that are left have nothing to match.
LEMMA ReplaySettled ==
    ASSUME RealtimeInv, DownShifts, UNCHANGED <<conn, ready, link>>,
           conn \in {"live", "none"}, ready \/ (conn = "none" /\ NoResumed)
    PROVE  ReplayKnown'
<1>1. NoResumed'
  BY NoResumedTail DEF RealtimeInv, ReplayKnown
<1> QED
  BY <1>1 DEF ReplayKnown

\* A frame is there to be taken.
LEMMA FrameThere ==
    ASSUME RealtimeInv, NEW kind, Frame(kind)
    PROVE  /\ link /\ down # <<>> /\ down[1][1] = kind /\ stop = "no"
           /\ 1 \in 1 .. Len(down) /\ down[1] \in Frames /\ FrameKnown(1)
<1>1. link /\ down # <<>> /\ down[1][1] = kind /\ stop = "no"
  BY DEF Frame, RealtimeInv, LinkKnown
<1>2. down \in Seq(Frames) /\ Len(down) \in Nat
  BY Numbers DEF RealtimeInv, RealtimeTypeOK
<1>3. 1 \in 1 .. Len(down)
  BY <1>1, <1>2, EmptySeq
<1> QED
  BY <1>1, <1>3, Numbers DEF RealtimeInv, FramesKnown

\* TakeFrame moves the frames up and leaves the server alone.
LEMMA TakeFrameFacts ==
    ASSUME RealtimeInv, down # <<>>, TakeFrame
    PROVE  /\ DownShifts
           /\ UNCHANGED <<last, row, tries, done, drops, conn, hello, base, upto, at, buffer>>
BY TailFacts DEF TakeFrame, outbox, RealtimeInv

\* The next event of a replay is the one that the browser takes.
LEMMA ReplayAdvances ==
    ASSUME RealtimeInv, DownShifts, link, down[1] = <<"event", cursor + 1>>,
           cursor' = cursor + 1,
           UNCHANGED <<conn, ready, link, rec, base, upto, at>>
    PROVE  ReplayKnown'
<1> USE DEF RealtimeInv
<1>1. /\ Len(down) \in Nat /\ Len(down) > 0 /\ Len(down') = Len(down) - 1 /\ Len(down') \in Nat
      /\ \A i \in 1 .. Len(down') : i + 1 \in 1 .. Len(down) /\ down'[i] = down[i + 1]
      /\ down # <<>> /\ cursor \in Nat /\ at \in Nat
  BY Numbers DEF DownShifts
<1>2. ASSUME NEW m \in Nat, m <= Len(down), NextEvents(m), NEW i \in 1 .. m - 1
      PROVE  down'[i] = <<"event", cursor' + i>>
  <2>1. i \in 1 .. Len(down') /\ i + 1 \in 1 .. m
    BY <1>1, <1>2
  <2>2. down'[i] = <<"event", cursor + (i + 1)>>
    BY <2>1, <1>1, <1>2 DEF NextEvents
  <2>3. cursor + (i + 1) = cursor' + i
    BY <1>1
  <2> QED
    BY <2>2, <2>3
<1>3. CASE conn = "replaying"
  <2>1. ~ready /\ rec = "off" /\ at = cursor + Len(down) /\ NextEvents(Len(down))
    BY <1>3 DEF ReplayKnown
  <2>2. at' = cursor' + Len(down')
    BY <2>1, <1>1
  <2>3. NextEvents(Len(down))'
    <3>1. \A i \in 1 .. Len(down) - 1 : down'[i] = <<"event", cursor' + i>>
      BY <2>1, <1>1, <1>2
    <3> QED
      BY <3>1, <1>1 DEF NextEvents
  <2> QED
    BY <2>1, <2>2, <2>3, <1>3 DEF ReplayKnown
<1>4. CASE conn \in {"live", "none"} /\ ~ready
  <2>1. CASE conn = "none" /\ NoResumed
    BY <2>1, <1>4, NoResumedTail DEF ReplayKnown
  <2>2. CASE rec = "off" /\ \E k \in 1 .. Len(down) : ResumedAt(k)
    <3>1. PICK k \in 1 .. Len(down) : ResumedAt(k)
      BY <2>2
    <3>2. k # 1
      BY <3>1 DEF ResumedAt
    <3>3. PICK m \in Nat : m = k - 1
      BY <3>2, <1>1
    <3>4. m \in 1 .. Len(down') /\ m + 1 = k /\ m - 1 \in Nat /\ m <= Len(down)
      BY <3>2, <3>3, <1>1
    <3>5. NextEvents(m - 1)'
      BY <3>1, <3>3, <3>4, <1>2 DEF NextEvents, ResumedAt
    <3>6. down'[m] = <<"resumed", cursor' + m - 1>>
      <4>1. down'[m] = <<"resumed", cursor + k - 1>>
        BY <3>1, <3>4, <1>1 DEF ResumedAt
      <4>2. cursor + k - 1 = cursor' + m - 1
        BY <3>3, <1>1
      <4> QED
        BY <4>1, <4>2
    <3>7. \A j \in m + 1 .. Len(down') : down'[j][1] # "resumed"
      <4>1. \A j \in m + 1 .. Len(down') : j \in 1 .. Len(down') /\ j + 1 \in k + 1 .. Len(down)
        BY <3>4, <1>1
      <4> QED
        BY <4>1, <3>1, <1>1 DEF ResumedAt
    <3>8. ResumedAt(m)'
      BY <3>5, <3>6, <3>7 DEF ResumedAt
    <3> QED
      BY <2>2, <3>4, <3>8, <1>4 DEF ReplayKnown
  <2> QED
    BY <2>1, <2>2, <1>4 DEF ReplayKnown
<1>5. CASE conn \in {"live", "none"} /\ ready
  BY <1>5, NoResumedTail DEF ReplayKnown
<1>6. conn \in {"replaying", "live", "none"}
  BY <1>1 DEF ReplayKnown, RealtimeTypeOK
<1> QED
  BY <1>3, <1>4, <1>5, <1>6

\* #acceptEvent keeps the invariant, for an old, a next and a later event.
LEMMA ReceiveEventKeeps ==
    ASSUME RealtimeInv, inOrder' = inOrder, ReceiveEvent
    PROVE  RealtimeInv'
<1> USE DEF RealtimeInv
<1> DEFINE s == down[1][2]
<1>1. /\ Frame("event") /\ TakeFrame /\ UNCHANGED <<sent, stop>>
      /\ \/ s <= cursor /\ UNCHANGED <<client, recovery>>
         \/ /\ s = cursor + 1 /\ cursor' = s /\ applied' = Append(applied, s)
            /\ UNCHANGED <<link, ready, pending, unused, gate, recovery>>
         \/ /\ s > cursor + 1 /\ Recover(s - 1)
            /\ UNCHANGED <<link, ready, cursor, applied, pending, unused>>
  BY DEF ReceiveEvent
<1>2. /\ link /\ down # <<>> /\ down[1][1] = "event" /\ stop = "no" /\ 1 \in 1 .. Len(down)
      /\ down[1] = <<"event", s>> /\ s \in 0 .. MaxEvents /\ s <= last
      /\ last \in Nat /\ cursor \in Nat /\ cursor <= last /\ s \in Nat
  <2>1. /\ link /\ down # <<>> /\ down[1][1] = "event" /\ stop = "no" /\ 1 \in 1 .. Len(down)
        /\ down[1] \in Frames /\ FrameKnown(1)
    BY <1>1, FrameThere
  <2>2. down[1] = <<"event", s>> /\ s \in 0 .. MaxEvents
    BY <2>1, FrameShape
  <2>3. s <= last
    BY <2>1 DEF FrameKnown
  <2> HIDE DEF s
  <2>4. last \in Nat /\ cursor \in Nat /\ cursor <= last /\ s \in Nat
    BY <2>2, Numbers DEF AppliedInOrder
  <2> QED
    BY <2>1, <2>2, <2>3, <2>4
<1>3. /\ DownShifts
      /\ UNCHANGED <<last, row, tries, done, drops, conn, hello, base, upto, at, buffer>>
  BY <1>1, <1>2, TakeFrameFacts
<1>4. inOrder => rec = "off" /\ s <= cursor + 1
  <2>1. inOrder => rec = "off"
    BY <1>2 DEF OrderKnown, OrderRecovery
  <2>2. \A j \in 1 .. 1 - 1 : FALSE
    OBVIOUS
  <2>3. inOrder => s <= cursor + 1
    BY <2>2, <1>2 DEF OrderKnown, OrderFrames
  <2> QED
    BY <2>1, <2>3
<1>5. /\ ready \in BOOLEAN /\ gate \in BOOLEAN /\ sent \subseteq pending
      /\ rec \in {"off", "asked", "answered"} /\ from \in 0 .. MaxEvents
      /\ page \in (0 .. MaxEvents) \X BOOLEAN /\ need \in 0 .. MaxEvents
      /\ applied = [i \in 1 .. cursor |-> i]
  BY DEF RealtimeTypeOK, AppliedInOrder
<1>6. HeadApplied <=> s <= cursor'
  BY <1>2 DEF HeadApplied
<1>7. down[1][1] # "snapshot" /\ down[1][1] # "resumed"
  BY <1>2
<1> HIDE DEF s
<1>8. CASE s <= cursor /\ UNCHANGED <<client, recovery>>
  <2>1. UNCHANGED <<link, ready, cursor, applied, pending, unused, gate, rec, from, page, need>>
    BY <1>8 DEF client, recovery
  <2>2. down[1] # <<"event", cursor + 1>>
    BY <1>2, <1>8
  <2>3. ReplayKnown'
    BY <2>1, <2>2, <1>2, <1>3, <1>7, HeadSettled, ReplaySettled
  <2>4. RecoveryKnown'
    BY <2>1, <1>1, <1>2, <1>3, RecoveryFrame
  <2>5. ASSUME inOrder PROVE OrderRecovery' /\ HeadApplied
    BY <2>1, <2>5, <1>1, <1>3, <1>4, <1>6, <1>8 DEF OrderKnown, OrderRecovery
  <2>6. cursor' \in cursor .. last
    BY <2>1, <1>2
  <2> QED
    BY <2>1, <2>3, <2>4, <2>5, <2>6, <1>1, <1>2, <1>3, <1>5, <1>7, TakeKeeps
<1>9. CASE /\ s = cursor + 1 /\ cursor' = s /\ applied' = Append(applied, s)
           /\ UNCHANGED <<link, ready, pending, unused, gate, recovery>>
  <2>1. UNCHANGED <<link, ready, pending, unused, gate, rec, from, page, need>>
    BY <1>9 DEF recovery
  <2>2. ReplayKnown'
    BY <2>1, <1>2, <1>3, <1>9, ReplayAdvances
  <2>3. cursor' \in cursor .. last
    BY <1>2, <1>9
  <2>4. applied' = [i \in 1 .. cursor' |-> i]
    <3>1. Append([i \in 1 .. cursor |-> i], cursor + 1) = [i \in 1 .. cursor + 1 |-> i]
      BY <1>2
    <3> QED
      BY <3>1, <1>5, <1>9
  <2>5. RecoveryKnown'
    <3>1. rec # "off" /\ stop \notin Cleared => from' <= cursor'
      BY <2>1, <1>2, <1>9, Numbers DEF RecoveryKnown
    <3> QED
      BY <3>1, <2>1, <1>1, <1>3 DEF RecoveryKnown
  <2>6. ASSUME inOrder PROVE OrderRecovery' /\ HeadApplied
    BY <2>1, <2>6, <1>1, <1>2, <1>3, <1>4, <1>6, <1>9 DEF OrderKnown, OrderRecovery
  <2> QED
    BY <2>1, <2>2, <2>3, <2>4, <2>5, <2>6, <1>1, <1>2, <1>3, <1>5, <1>7, TakeKeeps
<1>10. CASE /\ s > cursor + 1 /\ Recover(s - 1)
            /\ UNCHANGED <<link, ready, cursor, applied, pending, unused>>
  <2>1. s - 1 \in Nat /\ s - 1 <= last
    BY <1>2, <1>10
  <2>2. /\ gate' = TRUE /\ rec' \in {"asked", "answered"}
        /\ from' \in 0 .. MaxEvents /\ need' \in 0 .. MaxEvents
        /\ page' \in (0 .. MaxEvents) \X BOOLEAN
        /\ RecoveryKnown'
    BY <2>1, <1>1, <1>3, <1>10, RecoverFacts
  <2>3. down[1] # <<"event", cursor + 1>>
    BY <1>2, <1>10
  <2>4. ReplayKnown'
    BY <2>3, <1>2, <1>3, <1>7, <1>10, HeadSettled, ReplaySettled
  <2>5. ~inOrder
    BY <1>2, <1>4, <1>10
  <2>6. cursor' \in cursor .. last
    BY <1>2, <1>10
  <2>7. gate' \in BOOLEAN /\ rec' \in {"off", "asked", "answered"}
    BY <2>2
  <2> QED
    BY <2>2, <2>4, <2>5, <2>6, <2>7, <1>1, <1>2, <1>3, <1>5, <1>7, <1>10, TakeKeeps
<1> QED
  BY <1>1, <1>8, <1>9, <1>10 DEF s

\* When resume_complete arrives, the browser has exactly what was replayed.
LEMMA ResumedHere ==
    ASSUME RealtimeInv, Frame("resumed")
    PROVE  /\ down[1][2] = cursor /\ ~ready /\ conn \in {"live", "none"}
           /\ \A j \in 2 .. Len(down) : down[j][1] # "resumed"
<1> USE DEF RealtimeInv
<1>1. link /\ down # <<>> /\ down[1][1] = "resumed" /\ 1 \in 1 .. Len(down)
  BY FrameThere
<1>2. ~ready /\ conn # "replaying"
  BY <1>1 DEF ReplayKnown, NoResumed, NextEvents
<1>3. conn \in {"live", "none"}
  BY <1>1, <1>2 DEF ReplayKnown, RealtimeTypeOK
<1>4. PICK k \in 1 .. Len(down) : ResumedAt(k)
  BY <1>1, <1>2, <1>3 DEF ReplayKnown, NoResumed
<1>5. k = 1
  <2>1. SUFFICES ASSUME k # 1 PROVE FALSE
    OBVIOUS
  <2>2. 1 \in 1 .. k - 1
    BY <2>1
  <2> QED
    BY <2>2, <1>1, <1>4 DEF ResumedAt, NextEvents
<1>6. down[1] = <<"resumed", cursor + 1 - 1>> /\ \A j \in 1 + 1 .. Len(down) : down[j][1] # "resumed"
  BY <1>4, <1>5 DEF ResumedAt
<1>7. cursor + 1 - 1 = cursor /\ 1 + 1 = 2
  BY Numbers
<1> QED
  BY <1>2, <1>3, <1>6, <1>7

\* resume_complete keeps the invariant: it finds the browser at its cursor.
LEMMA ReceiveResumedKeeps ==
    ASSUME RealtimeInv, inOrder' = inOrder, ReceiveResumed
    PROVE  RealtimeInv'
<1> USE DEF RealtimeInv
<1>1. Frame("resumed") /\ TakeFrame
  BY DEF ReceiveResumed
<1>2. /\ down[1][2] = cursor /\ ~ready /\ conn \in {"live", "none"}
      /\ \A j \in 2 .. Len(down) : down[j][1] # "resumed"
  BY <1>1, ResumedHere
<1>3. /\ ready' = TRUE /\ sent' = pending
      /\ UNCHANGED <<gate, rec, from, page, need, link, cursor, applied, pending, unused, stop>>
  BY <1>2 DEF ReceiveResumed, recovery
<1>4. link /\ down # <<>> /\ down[1][1] = "resumed" /\ stop = "no"
  BY <1>1, FrameThere
<1>5. /\ DownShifts
      /\ UNCHANGED <<last, row, tries, done, drops, conn, hello, base, upto, at, buffer>>
  BY <1>1, <1>4, TakeFrameFacts
<1>6. NoResumed'
  <2>1. \A i \in 1 .. Len(down') : i + 1 \in 2 .. Len(down) /\ down'[i] = down[i + 1]
    BY <1>5 DEF DownShifts
  <2> QED
    BY <2>1, <1>2 DEF NoResumed
<1>7. ReplayKnown'
  BY <1>2, <1>3, <1>5, <1>6 DEF ReplayKnown
<1>8. RecoveryKnown'
  BY <1>3, <1>5, Numbers, RecoveryFrame
<1>9. ASSUME inOrder PROVE OrderRecovery'
  <2>1. rec = "off"
    BY <1>4, <1>5, <1>9 DEF OrderKnown, OrderRecovery, DownShifts
  <2> QED
    BY <2>1, <1>3, <1>4 DEF OrderRecovery
<1>10. /\ gate \in BOOLEAN /\ rec \in {"off", "asked", "answered"} /\ from \in 0 .. MaxEvents
       /\ page \in (0 .. MaxEvents) \X BOOLEAN /\ need \in 0 .. MaxEvents
       /\ applied = [i \in 1 .. cursor |-> i] /\ cursor \in cursor .. last
  BY Numbers DEF RealtimeTypeOK, AppliedInOrder
<1>11. HeadApplied /\ down[1][1] # "snapshot" /\ ready' \in BOOLEAN
  BY <1>3, <1>4 DEF HeadApplied
<1> QED
  BY <1>3, <1>4, <1>5, <1>7, <1>8, <1>9, <1>10, <1>11, TakeKeeps

\* ack and reject keep the invariant.
LEMMA ReceiveAnswerKeeps ==
    ASSUME RealtimeInv, inOrder' = inOrder, ReceiveAnswer
    PROVE  RealtimeInv'
<1> USE DEF RealtimeInv
<1>1. /\ TakeFrame /\ pending' = pending \ {down[1][2]} /\ sent' = sent \ {down[1][2]}
      /\ UNCHANGED <<link, ready, cursor, applied, unused, gate, rec, from, page, need, stop>>
  BY DEF ReceiveAnswer, recovery
<1>2. /\ link /\ down # <<>> /\ down[1][1] \in {"ack", "reject"} /\ stop = "no"
      /\ 1 \in 1 .. Len(down)
  BY FrameThere DEF ReceiveAnswer
<1>3. /\ DownShifts
      /\ UNCHANGED <<last, row, tries, done, drops, conn, hello, base, upto, at, buffer>>
  BY <1>1, <1>2, TakeFrameFacts
<1>4. ReplayKnown'
  <2>1. down[1] # <<"event", cursor + 1>> /\ down[1][1] # "resumed"
    BY <1>2
  <2> QED
    BY <2>1, <1>1, <1>2, <1>3, HeadSettled, ReplaySettled
<1>5. RecoveryKnown'
  BY <1>1, <1>3, Numbers, RecoveryFrame
<1>6. ASSUME inOrder PROVE OrderRecovery'
  <2>1. rec = "off"
    BY <1>2, <1>6 DEF OrderKnown, OrderRecovery
  <2> QED
    BY <2>1, <1>1, <1>2 DEF OrderRecovery
<1>7. /\ gate \in BOOLEAN /\ rec \in {"off", "asked", "answered"} /\ from \in 0 .. MaxEvents
      /\ page \in (0 .. MaxEvents) \X BOOLEAN /\ need \in 0 .. MaxEvents
      /\ applied = [i \in 1 .. cursor |-> i] /\ cursor \in cursor .. last /\ ready \in BOOLEAN
  BY Numbers DEF RealtimeTypeOK, AppliedInOrder
<1>8. HeadApplied /\ down[1][1] # "snapshot"
  BY <1>2 DEF HeadApplied
<1>9. sent' \subseteq pending' /\ pending' \subseteq pending
  BY <1>1 DEF RealtimeTypeOK
<1> QED
  BY <1>1, <1>2, <1>3, <1>4, <1>5, <1>6, <1>7, <1>8, <1>9, TakeKeeps

\* snapshot_required keeps the invariant: it starts a recovery, or ends it all.
LEMMA ReceiveSnapshotKeeps ==
    ASSUME RealtimeInv, inOrder' = inOrder, ReceiveSnapshot
    PROVE  RealtimeInv'
<1> USE DEF RealtimeInv
<1> DEFINE t == down[1][3]
<1>1. /\ Frame("snapshot")
      /\ \/ /\ TakeFrame /\ Recover(t)
            /\ UNCHANGED <<link, ready, cursor, applied, pending, unused, sent, stop>>
         \/ GiveUp("range") /\ UNCHANGED <<cursor, applied, recovery>>
  BY DEF ReceiveSnapshot
<1>2. /\ link /\ down # <<>> /\ down[1][1] = "snapshot" /\ stop = "no" /\ 1 \in 1 .. Len(down)
      /\ down[1] \in Frames /\ FrameKnown(1)
  BY <1>1, FrameThere
<1>3. t \in 0 .. MaxEvents /\ t <= last
  BY <1>2, FrameShape DEF FrameKnown
<1>4. Len(down) = 2 /\ down[2] = <<"close", "snapshot">> /\ conn = "none"
  <2>1. 1 + 1 = Len(down) /\ down[1 + 1] = <<"close", "snapshot">>
    BY <1>2 DEF FrameKnown
  <2>2. Len(down) = 2 /\ down[2] = <<"close", "snapshot">> /\ 2 \in 1 .. Len(down)
    BY <2>1
  <2>3. FrameKnown(2)
    BY <2>2 DEF FramesKnown
  <2> QED
    BY <2>2, <2>3 DEF FrameKnown
<1> HIDE DEF t
<1>5. CASE /\ TakeFrame /\ Recover(t)
           /\ UNCHANGED <<link, ready, cursor, applied, pending, unused, sent, stop>>
  <2>1. /\ DownShifts
        /\ UNCHANGED <<last, row, tries, done, drops, conn, hello, base, upto, at, buffer>>
    BY <1>2, <1>5, TakeFrameFacts
  <2>2. t \in Nat
    BY <1>3
  <2>3. /\ gate' = TRUE /\ rec' \in {"asked", "answered"} /\ page' = page
        /\ from' \in 0 .. MaxEvents /\ need' \in 0 .. MaxEvents
        /\ page' \in (0 .. MaxEvents) \X BOOLEAN
        /\ rec = "off" => rec' = "asked" /\ from' = cursor
        /\ RecoveryKnown'
    BY <2>1, <2>2, <1>3, <1>5, RecoverFacts
  <2>4. ReplayKnown'
    <3>1. down[1] # <<"event", cursor + 1>> /\ down[1][1] # "resumed"
      BY <1>2
    <3> QED
      BY <3>1, <2>1, <1>2, <1>5, HeadSettled, ReplaySettled
  <2>5. ASSUME inOrder PROVE OrderRecovery'
    <3>1. rec = "off"
      BY <1>2, <2>5 DEF OrderKnown, OrderRecovery
    <3>2. \A i \in 1 .. Len(down') : i = 1 /\ down'[i] = <<"close", "snapshot">>
      BY <2>1, <1>4 DEF DownShifts
    <3>3. \A i \in 1 .. Len(down') : down'[i][1] = "close"
      BY <3>2
    <3> QED
      BY <3>1, <3>3, <2>1, <2>3, <1>2, <1>4, <1>5 DEF OrderRecovery
  <2>6. /\ applied = [i \in 1 .. cursor |-> i] /\ cursor \in cursor .. last
        /\ ready \in BOOLEAN /\ sent \subseteq pending
    BY Numbers DEF RealtimeTypeOK, AppliedInOrder
  <2>7. /\ HeadApplied /\ gate' \in BOOLEAN /\ rec' \in {"off", "asked", "answered"}
        /\ down[1][1] = "snapshot" => gate'
    BY <2>3, <1>2 DEF HeadApplied
  <2> QED
    BY <2>1, <2>3, <2>4, <2>5, <2>6, <2>7, <1>2, <1>5, TakeKeeps
<1>6. CASE GiveUp("range") /\ UNCHANGED <<cursor, applied, recovery>>
  <2>1. UNCHANGED <<rec, from, page, need, cursor, applied>>
    BY <1>6 DEF recovery
  <2>2. /\ cursor' \in cursor .. last /\ from' \in 0 .. last
        /\ applied' = [i \in 1 .. cursor' |-> i]
    BY <2>1, Numbers DEF AppliedInOrder, RecoveryKnown
  <2> QED
    BY <2>1, <2>2, <1>6, GiveUpKeeps
<1> QED
  BY <1>1, <1>5, <1>6 DEF t

\* A close keeps the invariant: the 4409 one finds the recovery that its snapshot
\* has started.
LEMMA ReceiveCloseKeeps ==
    ASSUME RealtimeInv, inOrder' = inOrder, ReceiveClose
    PROVE  RealtimeInv'
<1> USE DEF RealtimeInv
<1> DEFINE why == down[1][2]
<1>1. /\ Frame("close")
      /\ \/ /\ why = "snapshot" /\ gate /\ Disconnect
            /\ UNCHANGED <<drops, cursor, applied, pending, unused, gate, recovery, stop>>
         \/ why = "snapshot" /\ ~gate
         \/ why = "invalid" /\ GiveUp("invalid") /\ UNCHANGED <<cursor, applied, recovery>>
         \/ why = "ended" /\ Clear("ended") /\ UNCHANGED rec
  BY DEF ReceiveClose
<1>2. down[1][1] = "close" /\ 1 \in 1 .. Len(down) /\ down[1] \in Frames /\ FrameKnown(1)
  BY <1>1, FrameThere
<1>3. why = "snapshot" => gate
  <2>1. why = "snapshot" => down[1] = <<"close", "snapshot">>
    BY <1>2, FrameShape
  <2>2. ~(1 > 1)
    OBVIOUS
  <2> QED
    BY <2>1, <2>2, <1>2 DEF FrameKnown
<1> HIDE DEF why
<1>4. CASE /\ Disconnect
           /\ UNCHANGED <<drops, cursor, applied, pending, unused, gate, recovery, stop>>
  <2>1. drops' \in 0 .. MaxDrops
    BY <1>4 DEF RealtimeTypeOK
  <2> QED
    BY <2>1, <1>4, DropKeeps
<1>5. CASE GiveUp("invalid") /\ UNCHANGED <<cursor, applied, recovery>>
  <2>1. UNCHANGED <<rec, from, page, need, cursor, applied>>
    BY <1>5 DEF recovery
  <2>2. /\ cursor' \in cursor .. last /\ from' \in 0 .. last
        /\ applied' = [i \in 1 .. cursor' |-> i]
    BY <2>1, Numbers DEF AppliedInOrder, RecoveryKnown
  <2> QED
    BY <2>1, <2>2, <1>5, GiveUpKeeps
<1>6. CASE Clear("ended") /\ UNCHANGED rec
  <2>1. "ended" \in Cleared
    BY DEF Cleared
  <2> QED
    BY <2>1, <1>6, ClearKeeps
<1> QED
  BY <1>1, <1>3, <1>4, <1>5, <1>6

\* A lost connection and a page that is left keep the invariant.
LEMMA LeaveKeeps ==
    ASSUME RealtimeInv, inOrder' = inOrder, Drop \/ Dispose
    PROVE  RealtimeInv'
<1>1. CASE Drop
  <2>1. drops \in 0 .. MaxDrops /\ drops < MaxDrops /\ drops' = drops + 1 /\ MaxDrops \in Nat
    BY <1>1, LimitsAssumption DEF Drop, RealtimeInv, RealtimeTypeOK
  <2>2. drops' \in 0 .. MaxDrops
    BY <2>1
  <2> QED
    BY <2>2, <1>1, DropKeeps DEF Drop
<1>2. CASE Dispose
  <2>1. "disposed" \in Cleared
    BY DEF Cleared
  <2> QED
    BY <2>1, <1>2, ClearKeeps DEF Dispose
<1> QED
  BY <1>1, <1>2

-----------------------------------------------------------------------------
(* The page recovery.                                                      *)

\* A step of the recovery keeps the invariant, when the recovery itself stays known:
\* while it is under way no replay is.
LEMMA PageKeeps ==
    ASSUME RealtimeInv, inOrder' = inOrder, rec # "off",
           cursor' \in cursor .. last, applied' = [i \in 1 .. cursor' |-> i],
           stop \in Cleared => cursor' = cursor,
           rec' \in {"off", "asked", "answered"}, from' \in 0 .. MaxEvents,
           page' \in (0 .. MaxEvents) \X BOOLEAN, need' \in 0 .. MaxEvents,
           UNCHANGED <<last, row, tries, done, drops, conn, hello, base, upto, at, buffer, down,
                       sent, link, ready, pending, unused, gate, stop>>,
           RecoveryKnown', inOrder => OrderRecovery'
    PROVE  RealtimeInv'
<1> USE DEF RealtimeInv
<1>1. /\ cursor' \in Nat /\ cursor' <= last /\ cursor' <= MaxEvents
      /\ cursor' \in 0 .. last'
  <2>1. last \in 0 .. MaxEvents /\ cursor \in Nat
    BY Numbers DEF RealtimeTypeOK
  <2> QED
    BY <2>1, LimitsAssumption
<1>2. RealtimeTypeOK'
  <2>1. applied' \in Seq(Seqs)
    BY <1>1, PrefixIsSeq
  <2> QED
    BY <2>1, <1>1 DEF RealtimeTypeOK
<1>3. AppliedInOrder' /\ SnapshotStartsRecovery' /\ RowsKnown'
  BY <1>1 DEF AppliedInOrder, SnapshotStartsRecovery, RowsKnown
<1>4. /\ conn \in {"live", "none"}
      /\ link /\ ~ready => conn = "none" /\ NoResumed
  BY DEF ReplayKnown, RealtimeTypeOK
<1>5. LinkKnown'
  BY <1>4 DEF LinkKnown
<1>6. FramesKnown'
  BY Numbers, FramesFrame
<1>7. ReplayKnown'
  BY <1>4 DEF ReplayKnown, NoResumed
<1>8. ASSUME inOrder PROVE OrderRows' /\ OrderSent' /\ OrderFrames'
  <2>1. conn = "none" /\ \A i \in 1 .. Len(down) : down[i][1] = "close"
    BY <1>8 DEF OrderKnown, OrderRecovery
  <2>2. OrderRows'
    BY <1>8 DEF OrderKnown, OrderRows
  <2>3. OrderSent'
    BY <2>1, <1>8 DEF OrderKnown, OrderSent
  <2>4. OrderFrames'
    BY <2>1 DEF OrderFrames
  <2> QED
    BY <2>2, <2>3, <2>4
<1> QED
  BY <1>2, <1>3, <1>5, <1>6, <1>7, <1>8 DEF OrderKnown

\* The server's answer keeps the invariant: it is what was committed.
LEMMA ServePageKeeps ==
    ASSUME RealtimeInv, inOrder' = inOrder, ServePage
    PROVE  RealtimeInv'
<1> USE DEF RealtimeInv
<1>1. /\ rec = "asked" /\ rec' = "answered"
      /\ page' = (IF last - from >= PageLimit THEN <<from + PageLimit, TRUE>> ELSE <<last, FALSE>>)
      /\ UNCHANGED <<last, row, tries, done, drops, conn, hello, base, upto, at, buffer, down,
                     sent, link, ready, pending, unused, gate, stop, cursor, applied, from,
                     need>>
  BY DEF ServePage, outbox, server, client
<1>2. /\ last \in 0 .. MaxEvents /\ from \in Nat /\ from <= last /\ need \in Nat
      /\ need <= last /\ PageLimit \in Nat /\ MaxEvents \in Nat /\ last \in Nat
  BY Numbers, LimitsAssumption DEF RealtimeTypeOK, RecoveryKnown
<1>3. \E e \in from .. last : \E m \in BOOLEAN : page' = <<e, m>> /\ (~m => e = last)
  <2>1. CASE last - from >= PageLimit
    <3>1. from + PageLimit \in from .. last
      BY <2>1, <1>2
    <3> QED
      BY <2>1, <3>1, <1>1
  <2>2. CASE ~(last - from >= PageLimit)
    <3>1. last \in from .. last
      BY <1>2
    <3> QED
      BY <2>2, <3>1, <1>1
  <2> QED
    BY <2>1, <2>2
<1>4. PICK e \in from .. last, m \in BOOLEAN : page' = <<e, m>> /\ (~m => e = last)
  BY <1>3
<1>5. e \in Nat /\ e <= last /\ e >= from /\ e \in 0 .. MaxEvents /\ (~m => e >= need)
  BY <1>2, <1>4
<1>6. page'[1] = e /\ page'[2] = m /\ page' \in (0 .. MaxEvents) \X BOOLEAN
  BY <1>4, <1>5
<1>7. RecoveryKnown'
  BY <1>1, <1>5, <1>6 DEF RecoveryKnown
<1>8. ASSUME inOrder PROVE OrderRecovery'
  BY <1>1, <1>5, <1>6, <1>8 DEF OrderKnown, OrderRecovery
<1>9. /\ cursor' \in cursor .. last /\ applied' = [i \in 1 .. cursor' |-> i]
      /\ from' \in 0 .. MaxEvents /\ need' \in 0 .. MaxEvents
  BY <1>1, Numbers DEF AppliedInOrder, RealtimeTypeOK
<1>10. rec # "off" /\ rec' \in {"off", "asked", "answered"}
  BY <1>1
<1> QED
  BY <1>1, <1>6, <1>7, <1>8, <1>9, <1>10, PageKeeps

\* The events that a page adds continue the list.
LEMMA PrefixGrows ==
    ASSUME NEW n \in Nat, NEW m \in Nat
    PROVE  /\ Larger(n, m) \in Nat /\ Larger(n, m) >= n /\ Larger(n, m) >= m
           /\ Larger(n, m) = n \/ Larger(n, m) = m
           /\ [i \in 1 .. n |-> i] \o [i \in 1 .. m - n |-> n + i]
                = [i \in 1 .. Larger(n, m) |-> i]
<1>1. CASE m <= n
  <2>1. Larger(n, m) = n
    BY <1>1 DEF Larger
  <2>2. [i \in 1 .. m - n |-> n + i] = <<>>
    BY <1>1
  <2>3. [i \in 1 .. n |-> i] \o <<>> = [i \in 1 .. n |-> i]
    <3>1. [i \in 1 .. n |-> i] \in Seq(Nat)
      OBVIOUS
    <3> QED
      BY <3>1, ConcatEmptySeq
  <2>4. n \in Nat /\ n >= n /\ n >= m
    BY <1>1
  <2> QED
    BY <2>1, <2>2, <2>3, <2>4
<1>2. CASE n < m
  <2>1. Larger(n, m) = m
    BY <1>2 DEF Larger
  <2>2. PICK d \in Nat : m = n + d
    BY <1>2
  <2>3. [i \in 1 .. n |-> i] \o [i \in 1 .. d |-> n + i] = [i \in 1 .. n + d |-> i]
    OBVIOUS
  <2>4. m - n = d /\ m >= n /\ m >= m
    BY <2>2
  <2> QED
    BY <2>1, <2>2, <2>3, <2>4
<1>3. m <= n \/ n < m
  OBVIOUS
<1> QED
  BY <1>1, <1>2, <1>3

\* #recoverLoop keeps the invariant, whatever it finds after its await.
LEMMA TakePageKeeps ==
    ASSUME RealtimeInv, inOrder' = inOrder, TakePage
    PROVE  RealtimeInv'
<1> USE DEF RealtimeInv
<1> DEFINE to == page[1]
           rejected == to > from /\ cursor > from + 1
           new == [i \in 1 .. to - cursor |-> cursor + i]
           Same == UNCHANGED <<last, row, tries, done, drops, conn, hello, base, upto, at,
                               buffer, down, sent, link, ready, pending, unused, gate, page,
                               stop>>
<1>1. /\ rec = "answered"
      /\ \/ Discarded /\ rec' = "off" /\ Same /\ UNCHANGED <<cursor, applied, from, need>>
         \/ /\ ~Discarded /\ rejected /\ GiveUp("gap") /\ rec' = "off"
            /\ UNCHANGED <<cursor, applied, from, page, need>>
         \/ /\ ~Discarded
            /\ cursor' = Larger(cursor, to) /\ applied' = applied \o new /\ from' = to
            /\ \/ ~page[2] /\ to < need /\ GiveUp("gap") /\ rec' = "off" /\ UNCHANGED <<page, need>>
               \/ rec' = "off" /\ need' = Larger(cursor, to) /\ Same
               \/ rec' = "asked" /\ UNCHANGED need /\ Same
  BY DEF TakePage, outbox, server, client
<1>2. /\ to \in Nat /\ to <= last /\ cursor \in Nat /\ cursor <= last /\ from \in Nat
      /\ from <= last /\ need \in Nat /\ need <= last /\ last \in Nat /\ last <= MaxEvents
      /\ MaxEvents \in Nat /\ applied = [i \in 1 .. cursor |-> i]
      /\ page \in (0 .. MaxEvents) \X BOOLEAN
  BY <1>1, Numbers DEF RecoveryKnown, AppliedInOrder, RealtimeTypeOK
<1>3. inOrder => /\ to >= from /\ (~page[2] => to >= need)
                 /\ ~Discarded => from = cursor
  BY <1>1 DEF OrderKnown, OrderRecovery, Discarded
<1> HIDE DEF to, Same
<1>4. CASE Discarded /\ rec' = "off" /\ Same /\ UNCHANGED <<cursor, applied, from, need>>
  <2>1. /\ cursor' \in cursor .. last /\ applied' = [i \in 1 .. cursor' |-> i]
        /\ from' \in 0 .. MaxEvents /\ need' \in 0 .. MaxEvents
    BY <1>2, <1>4
  <2>2. RecoveryKnown' /\ (inOrder => OrderRecovery')
    BY <1>2, <1>4 DEF RecoveryKnown, OrderKnown, OrderRecovery, Same
  <2>3. rec # "off" /\ rec' \in {"off", "asked", "answered"}
    BY <1>1, <1>4
  <2> QED
    BY <2>1, <2>2, <2>3, <1>2, <1>4, PageKeeps DEF Same
<1>5. CASE /\ ~Discarded /\ rejected /\ GiveUp("gap") /\ rec' = "off"
           /\ UNCHANGED <<cursor, applied, from, page, need>>
  <2>1. ~inOrder
    BY <1>2, <1>3, <1>5
  <2>2. /\ cursor' \in cursor .. last /\ applied' = [i \in 1 .. cursor' |-> i]
        /\ from' \in 0 .. last
    BY <1>2, <1>5
  <2> QED
    BY <2>1, <2>2, <1>5, GiveUpKeeps
<1>6. ASSUME ~Discarded, cursor' = Larger(cursor, to), applied' = applied \o new, from' = to
      PROVE  /\ cursor' \in cursor .. last /\ applied' = [i \in 1 .. cursor' |-> i]
             /\ from' \in 0 .. last /\ from' \in 0 .. MaxEvents
             /\ from' <= cursor' /\ cursor' <= last /\ cursor' <= MaxEvents /\ cursor' \in Nat
             /\ stop \notin Cleared /\ (inOrder => from' = cursor')
  <2>1. /\ cursor' \in Nat /\ cursor' >= cursor /\ cursor' >= to
        /\ cursor' = cursor \/ cursor' = to
        /\ applied' = [i \in 1 .. cursor' |-> i]
    BY <1>2, <1>6, PrefixGrows
  <2>2. stop \notin Cleared
    BY <1>6 DEF Discarded
  <2>3. inOrder => to >= cursor
    BY <1>3, <1>6
  <2> QED
    BY <2>1, <2>2, <2>3, <1>2, <1>6
<1>7. CASE /\ ~Discarded
           /\ cursor' = Larger(cursor, to) /\ applied' = applied \o new /\ from' = to
           /\ ~page[2] /\ to < need /\ GiveUp("gap") /\ rec' = "off" /\ UNCHANGED <<page, need>>
  <2>1. ~inOrder
    BY <1>2, <1>3, <1>7
  <2> QED
    BY <2>1, <1>6, <1>7, GiveUpKeeps
<1>8. CASE /\ ~Discarded
           /\ cursor' = Larger(cursor, to) /\ applied' = applied \o new /\ from' = to
           /\ rec' = "off" /\ need' = Larger(cursor, to) /\ Same
  <2>1. need' <= last /\ need' \in 0 .. MaxEvents /\ from' <= last
    BY <1>2, <1>6, <1>8
  <2>2. RecoveryKnown' /\ (inOrder => OrderRecovery')
    BY <2>1, <1>8 DEF RecoveryKnown, OrderKnown, OrderRecovery, Same
  <2>3. rec # "off" /\ rec' \in {"off", "asked", "answered"}
    BY <1>1, <1>8
  <2> QED
    BY <2>1, <2>2, <2>3, <1>2, <1>6, <1>8, PageKeeps DEF Same
<1>9. CASE /\ ~Discarded
           /\ cursor' = Larger(cursor, to) /\ applied' = applied \o new /\ from' = to
           /\ rec' = "asked" /\ UNCHANGED need /\ Same
  <2>1. need' <= last /\ need' \in 0 .. MaxEvents /\ from' <= last
    BY <1>2, <1>9
  <2>2. RecoveryKnown'
    BY <2>1, <1>1, <1>6, <1>9 DEF RecoveryKnown, Same
  <2>3. ASSUME inOrder PROVE OrderRecovery'
    BY <2>3, <1>1, <1>6, <1>9 DEF OrderKnown, OrderRecovery, Same
  <2>4. rec # "off" /\ rec' \in {"off", "asked", "answered"}
    BY <1>1, <1>9
  <2> QED
    BY <2>1, <2>2, <2>3, <2>4, <1>2, <1>6, <1>9, PageKeeps DEF Same
<1> QED
  BY <1>1, <1>4, <1>5, <1>7, <1>8, <1>9

\* A page request that fails keeps the invariant.
LEMMA PageFailsKeeps ==
    ASSUME RealtimeInv, inOrder' = inOrder, PageFails
    PROVE  RealtimeInv'
<1>1. CASE GiveUp("request") /\ UNCHANGED <<cursor, applied, from, page, need>>
  <2>1. /\ cursor' \in cursor .. last /\ from' \in 0 .. last
        /\ applied' = [i \in 1 .. cursor' |-> i]
    BY <1>1, Numbers DEF RealtimeInv, AppliedInOrder, RecoveryKnown
  <2> QED
    BY <2>1, <1>1, GiveUpKeeps DEF PageFails
<1>2. CASE Clear("ended")
  <2>1. "ended" \in Cleared
    BY DEF Cleared
  <2> QED
    BY <2>1, <1>2, ClearKeeps DEF PageFails
<1> QED
  BY <1>1, <1>2 DEF PageFails

-----------------------------------------------------------------------------
(* The theorem.                                                            *)

\* The invariant holds when the browser is about to connect.
LEMMA RealtimeInitInv == RealtimeInit => RealtimeInv
<1> SUFFICES ASSUME RealtimeInit PROVE RealtimeInv
  OBVIOUS
<1>1. 0 \in 0 .. MaxEvents /\ 0 \in 0 .. MaxTries /\ 0 \in 0 .. MaxDrops /\ 0 \in 0 .. 0
  BY LimitsAssumption
<1>2. RealtimeTypeOK
  <2>1. /\ hello \in Seq(0 .. MaxEvents) /\ Len(hello) <= 1 /\ buffer \in Seq(Seqs)
        /\ Len(buffer) <= MaxBuffer /\ down \in Seq(Frames) /\ applied \in Seq(Seqs)
    BY LimitsAssumption DEF RealtimeInit
  <2>2. /\ row \in [Seqs -> {"absent", "waiting", "locked", "addressed", "sent", "delayed",
                            "published"}]
        /\ tries \in [Seqs -> 0 .. MaxTries] /\ done \in [Commands -> 0 .. MaxEvents]
    BY <1>1 DEF RealtimeInit
  <2>3. page \in (0 .. MaxEvents) \X BOOLEAN
    BY <1>1 DEF RealtimeInit
  <2> QED
    BY <1>1, <2>1, <2>2, <2>3 DEF RealtimeInit, RealtimeTypeOK
<1>3. AppliedInOrder /\ SnapshotStartsRecovery
  <2>1. [i \in 1 .. 0 |-> i] = <<>>
    OBVIOUS
  <2> QED
    BY <2>1 DEF RealtimeInit, AppliedInOrder, SnapshotStartsRecovery
<1>4. RowsKnown
  BY DEF RealtimeInit, RowsKnown
<1>5. LinkKnown
  BY DEF RealtimeInit, LinkKnown, Cleared
<1>6. FramesKnown
  BY DEF RealtimeInit, FramesKnown
<1>7. ReplayKnown
  BY DEF RealtimeInit, ReplayKnown, NoResumed
<1>8. RecoveryKnown
  BY DEF RealtimeInit, RecoveryKnown
<1>9. OrderKnown
  BY DEF RealtimeInit, OrderKnown, OrderRows, OrderSent, OrderFrames, OrderRecovery, InLine,
         Given
<1> QED
  BY <1>2, <1>3, <1>4, <1>5, <1>6, <1>7, <1>8, <1>9 DEF RealtimeInv

\* Every step of the room, the publisher, the connection and the browser keeps the
\* invariant.
LEMMA RealtimeNextInv == RealtimeInv /\ [RealtimeNext]_<<realVars, inOrder>> => RealtimeInv'
<1> SUFFICES ASSUME RealtimeInv, [RealtimeNext]_<<realVars, inOrder>> PROVE RealtimeInv'
  OBVIOUS
<1>1. CASE UNCHANGED <<realVars, inOrder>>
  <2>1. UNCHANGED <<last, row, tries, done, drops, conn, hello, base, upto, at, buffer, down,
                    sent, link, ready, cursor, applied, pending, unused, gate, rec, from, page,
                    need, stop, inOrder>>
    BY <1>1 DEF realVars, outbox, server, client, recovery
  <2>2. RealtimeTypeOK' /\ AppliedInOrder' /\ SnapshotStartsRecovery' /\ RowsKnown'
    BY <2>1 DEF RealtimeInv, RealtimeTypeOK, AppliedInOrder, SnapshotStartsRecovery, RowsKnown
  <2>3. LinkKnown' /\ ReplayKnown'
    BY <2>1, LinkFrame, ReplayFrame DEF RealtimeInv
  <2>4. FramesKnown' /\ RecoveryKnown'
    BY <2>1, FramesFrame, RecoveryFrame, Numbers DEF RealtimeInv
  <2>5. OrderKnown'
    BY <2>1 DEF RealtimeInv, OrderKnown, OrderRows, OrderSent, Coming, OrderFrames, OrderRecovery
  <2> QED
    BY <2>2, <2>3, <2>4, <2>5 DEF RealtimeInv
<1>2. CASE RealtimeNext
  <2>0. inOrder' = inOrder
    BY <1>2 DEF RealtimeNext
  <2>1. CASE CommitEvent
    BY <2>0, <2>1, CommitKeeps
  <2>2. ASSUME NEW s \in Seqs, PublishStep(s)
        PROVE  RealtimeInv'
    <3>1. Published(s) \/ Deliver(s)
      BY <2>2 DEF PublishStep, Published
    <3> QED
      BY <3>1, <2>0, PublisherKeeps, DeliverKeeps
  <2>3. CASE Hello \/ Resume \/ ReplayRow \/ FinishReplay
    BY <2>0, <2>3, HelloKeeps, ResumeKeeps, ReplayRowKeeps, FinishReplayKeeps
  <2>4. ASSUME NEW why \in {"invalid", "ended"}, ServerCloses(why)
        PROVE  RealtimeInv'
    BY <2>0, <2>4, ServerClosesKeeps
  <2>5. ASSUME NEW c \in Commands, Dispatch(c) \/ Reject(c) \/ SendCommand(c)
        PROVE  RealtimeInv'
    BY <2>0, <2>5, DispatchKeeps, SendCommandKeeps
  <2>6. CASE Connect \/ Drop \/ Dispose
    BY <2>0, <2>6, ConnectKeeps, LeaveKeeps
  <2>7. CASE ReceiveStep
    BY <2>0, <2>7, ReceiveEventKeeps, ReceiveResumedKeeps, ReceiveSnapshotKeeps,
       ReceiveAnswerKeeps, ReceiveCloseKeeps DEF ReceiveStep
  <2>8. CASE ServePage \/ TakePage \/ PageFails
    BY <2>0, <2>8, ServePageKeeps, TakePageKeeps, PageFailsKeeps
  <2> QED
    BY <1>2, <2>1, <2>2, <2>3, <2>4, <2>5, <2>6, <2>7, <2>8 DEF RealtimeNext
<1> QED
  BY <1>1, <1>2

\* The invariant implies what the browser is promised.
LEMMA RealtimeInvSafe == RealtimeInv => RealtimeSafe
<1> SUFFICES ASSUME RealtimeInv PROVE RealtimeSafe
  OBVIOUS
<1> USE DEF RealtimeInv
<1>1. ResumeMatches
  BY ResumedHere DEF ResumeMatches
<1>2. ClearedStaysEmpty
  <2> SUFFICES ASSUME stop \in Cleared
               PROVE  cursor = 0 /\ applied = <<>> /\ pending = {} /\ sent = {} /\ ~link
    BY DEF ClearedStaysEmpty
  <2>1. stop # "no"
    BY DEF Cleared
  <2>2. cursor = 0 /\ pending = {} /\ sent = {} /\ ~link
    BY <2>1 DEF LinkKnown
  <2>3. [i \in 1 .. 0 |-> i] = <<>>
    OBVIOUS
  <2> QED
    BY <2>2, <2>3 DEF AppliedInOrder
<1>3. NoSilentLoss
  <2> SUFFICES ASSUME inOrder
               PROVE  /\ stop # "gap"
                      /\ \A s \in Seqs : row[s] = "published" /\ conn = "live" =>
                            s <= cursor \/ Coming(s)
    BY DEF NoSilentLoss, Coming
  <2>1. OrderSent /\ OrderRecovery
    BY DEF OrderKnown
  <2> QED
    BY <2>1 DEF OrderSent, OrderRecovery, Given
<1> QED
  BY <1>1, <1>2, <1>3 DEF RealtimeSafe

\* For every number of events, commands and lost connections, and for every limit of
\* the replay, the buffer and the page: the browser's ledger is a prefix of the
\* room's, a replay ends where the browser is, nothing comes back after clearState,
\* a 4409 close finds the recovery that its snapshot started, and rows published in
\* order leave nothing behind (RoomSocket, HydratedSessionState, RealtimeConnection,
\* RealtimeHub, OutboxPublisher).
THEOREM RealtimeIsSafe == RealtimeSpec => []RealtimeSafe
<1>1. RealtimeInit => RealtimeInv
  BY RealtimeInitInv
<1>2. RealtimeInv /\ [RealtimeNext]_<<realVars, inOrder>> => RealtimeInv'
  BY RealtimeNextInv
<1>3. RealtimeInv => RealtimeSafe
  BY RealtimeInvSafe
<1> QED
  BY <1>1, <1>2, <1>3, PTL DEF RealtimeSpec
===============================================================================

----------------------------- MODULE ServerProofs -----------------------------
(***************************************************************************)
(* Proofs about four parts of the server: the admission of Agent runs, for  *)
(* any reports of the workers; presence, for any number of pages and        *)
(* connections of a seat; a room's analytics, for any number of events,     *)
(* attempts, crashes and deployments; and the export of a room, for any     *)
(* number of events and any limits.                                        *)
(***************************************************************************)
EXTENDS ProviderHealth, Presence, Projection, Export, SequenceTheorems, WellFoundedInduction, TLAPS

-----------------------------------------------------------------------------
(* Why a run is admitted only on the newest report.  A row may be older     *)
(* than the newest report about the approved manifest (NewestIsKept fails), *)
(* but then it belongs to another manifest and admits nobody: HealthInv.    *)

Samples == [at : Nat, health : Healths, manifest : Manifests]

\* The state of the deployment has its types; the table has one row at most.
HealthTypeOK ==
    /\ clock \in Nat /\ approved \in Manifests /\ admitted \in Nat
    /\ wire \subseteq Samples
    /\ newest \in [Manifests -> SUBSET Samples]

\* The row is the newest report about its own manifest, and the table is empty
\* only while no report has been let through.
RowIsNewest ==
    \/ row = {} /\ \A m \in Manifests : newest[m] = {}
    \/ \E r \in Samples : row = {r} /\ newest[r.manifest] = {r}

HealthInv == HealthTypeOK /\ RowIsNewest

\* HealthInv holds before the first probe.
LEMMA HealthInit == ProviderInit => HealthInv
BY ProviderAssumption DEF ProviderInit, HealthInv, HealthTypeOK, RowIsNewest

\* A report that is taken leaves the row the newest one of its manifest, in
\* whatever order reports arrive (upsert against the route's own order).
LEMMA TakenReport ==
    ASSUME HealthInv, NEW s \in wire, ReceiveSample(s)
    PROVE  HealthInv'
<1> DEFINE taken == s.manifest = approved /\ s.at <= clock + Ahead /\ Authorized(s)
<1>1. s \in Samples /\ s.at \in Nat
  BY DEF HealthInv, HealthTypeOK, Samples
<1>2. HealthTypeOK'
  BY <1>1 DEF HealthInv, HealthTypeOK, ReceiveSample
<1>3. CASE ~taken
  BY <1>2, <1>3 DEF HealthInv, RowIsNewest, ReceiveSample
<1>4. CASE taken /\ row = {}
  <2>1. row' = {s} /\ newest' = [newest EXCEPT ![approved] = {s}]
    BY <1>4 DEF ReceiveSample, Upsert, HealthInv, HealthTypeOK, RowIsNewest
  <2>2. newest'[s.manifest] = {s}
    BY <1>4, <2>1 DEF HealthInv, HealthTypeOK
  <2> QED
    BY <1>1, <1>2, <2>1, <2>2 DEF HealthInv, RowIsNewest
<1>5. CASE taken /\ row # {}
  <2>1. PICK r \in Samples : row = {r} /\ newest[r.manifest] = {r}
    BY <1>5 DEF HealthInv, RowIsNewest
  <2>2. CASE r.manifest # approved
    BY <1>2, <1>5, <2>1, <2>2 DEF HealthInv, HealthTypeOK, RowIsNewest, ReceiveSample, Upsert
  <2>3. CASE r.manifest = approved /\ r.at < s.at
    <3>1. row' = {s} /\ newest' = [newest EXCEPT ![approved] = {s}]
      BY <1>5, <2>1, <2>3 DEF ReceiveSample, Upsert
    <3> QED
      BY <1>1, <1>2, <1>5, <3>1 DEF HealthInv, HealthTypeOK, RowIsNewest
  <2>4. CASE r.manifest = approved /\ ~(r.at < s.at)
    BY <1>2, <1>5, <2>1, <2>4 DEF HealthInv, RowIsNewest, ReceiveSample, Upsert
  <2> QED
    BY <2>2, <2>3, <2>4
<1> QED
  BY <1>3, <1>4, <1>5

\* Every step keeps HealthInv.
LEMMA HealthStep == HealthInv /\ [ProviderNext]_providerVars => HealthInv'
<1> SUFFICES ASSUME HealthInv, [ProviderNext]_providerVars PROVE HealthInv'
  OBVIOUS
<1> USE DEF HealthInv, HealthTypeOK, RowIsNewest
<1>1. CASE ClockTicks
  BY <1>1 DEF ClockTicks
<1>2. ASSUME NEW h \in Healths, NEW k \in Skews, Probe(h, k) PROVE HealthInv'
  <2>1. [at |-> clock + k, health |-> h, manifest |-> approved] \in Samples
    BY ProviderAssumption DEF Samples
  <2> QED
    BY <1>2, <2>1 DEF Probe
<1>3. ASSUME NEW s \in wire, ReceiveSample(s) PROVE HealthInv'
  BY <1>3, TakenReport
<1>4. ASSUME NEW m \in Manifests, Redeploy(m) PROVE HealthInv'
  BY <1>4 DEF Redeploy
<1>5. CASE Admit
  BY <1>5 DEF Admit
<1>6. CASE UNCHANGED providerVars
  BY <1>6 DEF providerVars
<1> QED
  BY <1>1, <1>2, <1>3, <1>4, <1>5, <1>6 DEF ProviderNext

\* Who is admitted is admitted on the newest report about the approved manifest.
LEMMA AdmissionStep ==
    ASSUME HealthInv, [ProviderNext]_providerVars, admitted' > admitted
    PROVE  \E s \in newest[approved] : s.health = "healthy" /\ clock <= s.at + FreshFor
<1>1. Admit
  BY DEF ProviderNext, ClockTicks, Probe, ReceiveSample, Redeploy, providerVars, HealthInv,
         HealthTypeOK
<1>2. PICK r \in row : r.manifest = approved /\ clock <= r.at + FreshFor
  BY <1>1 DEF Admit, ServiceHealth
<1>3. row = {r} /\ newest[r.manifest] = {r}
  BY <1>2 DEF HealthInv, RowIsNewest
<1>4. r.health = "healthy"
  <2>1. (CHOOSE q \in row : TRUE) = r
    BY <1>3
  <2> QED
    BY <1>1, <2>1 DEF Admit, ServiceHealth
<1> QED
  BY <1>2, <1>3, <1>4

\* Reports that are late, out of order or from before a redeployment never admit a
\* run: for every deployment, clock skew and number of reports, a run is created
\* only while the newest report about the approved manifest says healthy and is
\* fresh (AgentService.request, upsert, current).
THEOREM AdmissionIsHonest == ProviderSpec => AdmittedHealthy
<1>1. HealthInv /\ [ProviderNext]_providerVars =>
        [admitted' > admitted =>
            \E s \in newest[approved] :
               s.health = "healthy" /\ clock <= s.at + FreshFor]_providerVars
  BY AdmissionStep
<1> QED
  BY <1>1, HealthInit, HealthStep, PTL DEF ProviderSpec, AdmittedHealthy

-----------------------------------------------------------------------------
(* Presence: what classmates draw of a seat follows its pages.             *)

Values == {"active", "away"}
ClientFrames == [by : Connections, value : Values \cup {"typing"}, passed : BOOLEAN]

\* The state of the pages, the connections and the page that watches has its types.
PresenceTypeOK ==
    /\ tab \in [Pages -> [socket : SUBSET Connections, hidden : BOOLEAN,
                          due : 0 .. KeepAlive, catchUp : SUBSET {0, 1}]]
    /\ link \in [Connections -> [live : BOOLEAN, recent : BOOLEAN, held : SUBSET Nat]]
    /\ frames \in Seq(ClientFrames)
    /\ signals \subseteq [value : Values, left : {0, ExpiresAfter}]
    /\ sees \subseteq [value : Values, left : 0 .. ExpiresAfter]
    /\ watching \in BOOLEAN /\ drawn \in BOOLEAN /\ overtaken \in BOOLEAN
    /\ dark \in Nat /\ gone \in Nat

\* The seat has been drawn in this tick, will be, or is not missed.
Lit == drawn \/ overtaken \/ dark = 0 \/ \E s \in signals : s.left > 0

\* A presence frame is being handled.
PresenceComing == \E i \in 1 .. Len(frames) : frames[i].value # "typing"

\* Every open page announces itself before the seat is missed for too long; a frame
\* that comes too soon comes after one that was accepted in the same tick.
SeatCovered ==
    /\ ~watching => dark = 0
    /\ \A c \in Connections : link[c].recent => Lit
    /\ \A p \in Pages : PageOpen(p) =>
          dark + tab[p].due <= KeepAlive \/ Lit \/ PresenceComing

\* Without a page nothing is under way after the first tick, and what is still
\* drawn gets older.
SeatFading ==
    ~SeatOpen =>
       /\ \A s \in sees : s.left = 0 \/ s.left + gone <= ExpiresAfter
       /\ gone > 0 => frames = <<>> /\ \A s \in signals : s.left = 0

PresenceInv == PresenceTypeOK /\ SeatCovered /\ SeatFading /\ SeatReturns

\* The constants of presence are numbers.
LEMMA PresenceNumbers ==
    /\ KeepAlive \in Nat /\ KeepAlive >= 1 /\ ExpiresAfter \in Nat /\ ExpiresAfter >= 1
BY PresenceAssumption

\* The invariant holds before the first page connects.
LEMMA PresenceInitInv == PresenceInit => PresenceInv
<1> SUFFICES ASSUME PresenceInit PROVE PresenceInv
  OBVIOUS
<1>1. PresenceTypeOK
  <2>1. [socket |-> {}, hidden |-> FALSE, due |-> 0, catchUp |-> {}]
          \in [socket : SUBSET Connections, hidden : BOOLEAN,
               due : 0 .. KeepAlive, catchUp : SUBSET {0, 1}]
    BY PresenceNumbers
  <2>2. NoLink \in [live : BOOLEAN, recent : BOOLEAN, held : SUBSET Nat]
    BY DEF NoLink
  <2>3. frames \in Seq(ClientFrames)
    BY DEF PresenceInit
  <2> QED
    BY <2>1, <2>2, <2>3 DEF PresenceInit, PresenceTypeOK
<1>2. SeatCovered /\ SeatFading /\ SeatReturns
  BY PresenceNumbers DEF PresenceInit, SeatCovered, SeatFading, SeatReturns, PageOpen, NoLink
<1> QED
  BY <1>1, <1>2 DEF PresenceInv

\* What #sendEphemeral adds to the frames on their way.
LEMMA SendFacts ==
    ASSUME PresenceTypeOK, NEW f \in ClientFrames, frames' = Append(frames, f)
    PROVE  /\ frames' \in Seq(ClientFrames)
           /\ PresenceComing \/ f.value # "typing" => PresenceComing'
<1>1. frames \in Seq(ClientFrames) /\ Len(frames) \in Nat
  BY LenProperties DEF PresenceTypeOK
<1>2. /\ frames' \in Seq(ClientFrames) /\ Len(frames') = Len(frames) + 1
      /\ \A i \in 1 .. Len(frames) : frames'[i] = frames[i]
      /\ frames'[Len(frames) + 1] = f
  BY <1>1, AppendProperties
<1>3. /\ \A i \in 1 .. Len(frames) : i \in 1 .. Len(frames')
      /\ Len(frames) + 1 \in 1 .. Len(frames')
  BY <1>1, <1>2
<1> QED
  BY <1>2, <1>3 DEF PresenceComing

\* The same, for a page that may not be connected.
LEMMA SendEphemeralFacts ==
    ASSUME PresenceTypeOK, NEW p \in Pages, NEW v \in Values \cup {"typing"},
           SendEphemeral(p, v)
    PROVE  /\ frames' \in Seq(ClientFrames)
           /\ PresenceComing => PresenceComing'
           /\ PageOpen(p) /\ v # "typing" => PresenceComing'
           /\ ~PageOpen(p) => frames' = frames
<1>1. CASE PageOpen(p)
  <2> DEFINE c == CHOOSE c \in tab[p].socket : TRUE
  <2>1. c \in Connections
    BY <1>1 DEF PageOpen, PresenceTypeOK
  <2> HIDE DEF c
  <2>2. Frame(c, v) \in ClientFrames /\ Frame(c, v).value = v
    BY <2>1 DEF Frame, ClientFrames
  <2>3. frames' = Append(frames, Frame(c, v))
    BY <1>1 DEF SendEphemeral, c
  <2> QED
    BY <1>1, <2>2, <2>3, SendFacts
<1>2. CASE ~PageOpen(p)
  <2>1. frames' = frames
    BY <1>2 DEF SendEphemeral
  <2> QED
    BY <1>2, <2>1 DEF PresenceComing, PresenceTypeOK
<1> QED
  BY <1>1, <1>2

\* A page of the seat that comes, announces itself or types keeps the invariant.
LEMMA PageStepKeeps ==
    ASSUME PresenceInv,
           tab' \in [Pages -> [socket : SUBSET Connections, hidden : BOOLEAN,
                               due : 0 .. KeepAlive, catchUp : SUBSET {0, 1}]],
           link' \in [Connections -> [live : BOOLEAN, recent : BOOLEAN, held : SUBSET Nat]],
           \A c \in Connections : link'[c].recent => link[c].recent,
           frames' \in Seq(ClientFrames), PresenceComing => PresenceComing',
           \A p \in Pages : PageOpen(p)' =>
              PresenceComing' \/ (PageOpen(p) /\ tab'[p].due = tab[p].due),
           SeatOpen' \/ (~SeatOpen /\ frames' = frames),
           UNCHANGED <<signals, watching, sees, drawn, dark, overtaken, gone>>
    PROVE  PresenceInv'
<1> USE DEF PresenceInv
<1>1. PresenceTypeOK'
  BY DEF PresenceTypeOK
<1>2. Lit' <=> Lit
  BY DEF Lit
<1>3. SeatCovered'
  BY <1>2 DEF SeatCovered
<1>4. SeatFading'
  BY DEF SeatFading
<1>5. SeatReturns'
  BY DEF SeatReturns
<1> QED
  BY <1>1, <1>3, <1>4, <1>5

\* What visibility is announced.
LEMMA VisibleFacts == \A h \in BOOLEAN : Visible(h) \in Values
BY DEF Visible, Values

\* resume_complete claims the seat: the invariant stays.
LEMMA ConnectKeeps ==
    ASSUME PresenceInv, NEW p \in Pages, Connect(p)
    PROVE  PresenceInv'
<1> USE DEF PresenceInv
<1>1. PICK c \in Connections, d \in 1 .. KeepAlive :
         /\ tab' = [tab EXCEPT ![p].socket = {c}, ![p].due = d]
         /\ link' = [link EXCEPT ![c] = [NoLink EXCEPT !.live = TRUE]]
         /\ frames' = Append(frames, Frame(c, "active"))
  BY DEF Connect
<1>2. UNCHANGED <<signals, watching, sees, drawn, dark, overtaken, gone>>
  BY DEF Connect
<1>3. Frame(c, "active") \in ClientFrames /\ Frame(c, "active").value # "typing"
  BY DEF Frame, ClientFrames, Values
<1>4. frames' \in Seq(ClientFrames) /\ PresenceComing'
  BY <1>1, <1>3, SendFacts
<1>5. d \in 0 .. KeepAlive
  BY PresenceNumbers
<1>6. /\ tab' \in [Pages -> [socket : SUBSET Connections, hidden : BOOLEAN,
                             due : 0 .. KeepAlive, catchUp : SUBSET {0, 1}]]
      /\ tab'[p].socket # {}
  BY <1>1, <1>5 DEF PresenceTypeOK
<1>7. /\ link' \in [Connections -> [live : BOOLEAN, recent : BOOLEAN, held : SUBSET Nat]]
      /\ \A k \in Connections : link'[k].recent => link[k].recent
  BY <1>1 DEF PresenceTypeOK, NoLink
<1>8. SeatOpen'
  BY <1>6 DEF SeatOpen, PageOpen
<1> QED
  BY <1>2, <1>4, <1>6, <1>7, <1>8, PageStepKeeps

\* A page that is open announces its visibility, keeps its seat or types: the
\* invariant stays.
LEMMA AnnounceKeeps ==
    ASSUME PresenceInv, NEW p \in Pages,
           ChangeVisibility(p) \/ CatchUp(p) \/ KeepSeat(p) \/ Type(p)
    PROVE  PresenceInv'
<1> USE DEF PresenceInv
<1>1. UNCHANGED <<link, signals, watching, sees, drawn, dark, overtaken, gone>>
  BY DEF ChangeVisibility, CatchUp, KeepSeat, Type
<1>2. /\ link \in [Connections -> [live : BOOLEAN, recent : BOOLEAN, held : SUBSET Nat]]
      /\ tab \in [Pages -> [socket : SUBSET Connections, hidden : BOOLEAN,
                            due : 0 .. KeepAlive, catchUp : SUBSET {0, 1}]]
      /\ KeepAlive \in 0 .. KeepAlive
  BY PresenceNumbers DEF PresenceTypeOK
<1>3. /\ tab' \in [Pages -> [socket : SUBSET Connections, hidden : BOOLEAN,
                             due : 0 .. KeepAlive, catchUp : SUBSET {0, 1}]]
      /\ \A q \in Pages : tab'[q].socket = tab[q].socket
      /\ ~KeepSeat(p) => \A q \in Pages : tab'[q].due = tab[q].due
  <2>1. CASE ChangeVisibility(p)
    <3>1. (~tab[p].hidden) \in BOOLEAN /\ {1} \in SUBSET {0, 1}
      BY <1>2
    <3>2. tab' = [tab EXCEPT ![p] = [tab[p] EXCEPT !.hidden = ~tab[p].hidden, !.catchUp = {1}]]
      BY <2>1, <1>2 DEF ChangeVisibility
    <3> QED
      BY <3>1, <3>2, <1>2
  <2>2. CASE CatchUp(p)
    BY <2>2, <1>2 DEF CatchUp
  <2>3. CASE KeepSeat(p)
    BY <2>3, <1>2 DEF KeepSeat
  <2>4. CASE Type(p)
    BY <2>4, <1>2 DEF Type
  <2> QED
    BY <2>1, <2>2, <2>3, <2>4
<1>4. /\ \E v \in Values \cup {"typing"} : SendEphemeral(p, v) /\ (KeepSeat(p) => v # "typing")
      /\ KeepSeat(p) => PageOpen(p)
  <2>1. tab[p].hidden \in BOOLEAN /\ (~tab[p].hidden) \in BOOLEAN
    BY <1>2
  <2>2. Visible(tab[p].hidden) \in Values /\ Visible(~tab[p].hidden) \in Values
    BY <2>1, VisibleFacts
  <2>3. \A v \in Values : v # "typing"
    BY DEF Values
  <2> QED
    BY <2>2, <2>3 DEF ChangeVisibility, CatchUp, KeepSeat, Type, KeepAliveDue
<1>5. /\ frames' \in Seq(ClientFrames)
      /\ PresenceComing => PresenceComing'
      /\ KeepSeat(p) => PresenceComing'
      /\ ~PageOpen(p) => frames' = frames
  BY <1>4, SendEphemeralFacts
<1>6. \A q \in Pages : PageOpen(q)' <=> PageOpen(q)
  BY <1>3 DEF PageOpen
<1>7. SeatOpen' \/ (~SeatOpen /\ frames' = frames)
  BY <1>5, <1>6 DEF SeatOpen
<1> QED
  BY <1>1, <1>2, <1>3, <1>5, <1>6, <1>7, PageStepKeeps

\* A page that goes keeps the invariant; the last one starts the count of the ticks
\* without a page.
LEMMA UnseatedKeeps ==
    ASSUME PresenceInv, NEW p \in Pages, LeavePage(p) \/ LosePage(p)
    PROVE  PresenceInv'
<1> USE DEF PresenceInv
<1>1. /\ PageOpen(p) /\ UNCHANGED <<link, signals, watching, sees, drawn, overtaken>>
      /\ tab' = [tab EXCEPT ![p].socket = {}, ![p].catchUp = {}, ![p].due = 0]
      /\ IF \E q \in Pages \ {p} : PageOpen(q) THEN UNCHANGED <<gone, dark>>
         ELSE gone' = 0 /\ dark' = 0
  BY DEF LeavePage, LosePage, Unseated
<1>2. frames' \in Seq(ClientFrames) /\ (PresenceComing => PresenceComing')
  <2>1. CASE SendEphemeral(p, "away")
    BY <2>1, SendEphemeralFacts DEF Values
  <2>2. CASE UNCHANGED frames
    BY <2>2 DEF PresenceTypeOK, PresenceComing
  <2> QED
    BY <2>1, <2>2 DEF LeavePage, LosePage
<1>3. /\ tab' \in [Pages -> [socket : SUBSET Connections, hidden : BOOLEAN,
                             due : 0 .. KeepAlive, catchUp : SUBSET {0, 1}]]
      /\ tab'[p].socket = {} /\ \A q \in Pages : q # p => tab'[q] = tab[q]
  <2>1. 0 \in 0 .. KeepAlive
    BY PresenceNumbers
  <2> QED
    BY <2>1, <1>1, ZenonT(30) DEF PresenceTypeOK
<1>4. /\ ~PageOpen(p)' /\ \A q \in Pages : q # p => (PageOpen(q)' <=> PageOpen(q))
      /\ \A q \in Pages : PageOpen(q)' => tab'[q] = tab[q]
  BY <1>3 DEF PageOpen
<1>5. gone' \in Nat /\ dark' \in Nat /\ (dark' = dark \/ dark' = 0)
  BY <1>1 DEF PresenceTypeOK
<1>6. PresenceTypeOK'
  BY <1>1, <1>2, <1>3, <1>5 DEF PresenceTypeOK
<1>7. Lit => Lit'
  BY <1>1, <1>5 DEF Lit
<1>8. SeatCovered'
  <2>1. ASSUME NEW q \in Pages, PageOpen(q)'
        PROVE  dark' + tab'[q].due <= KeepAlive \/ Lit' \/ PresenceComing'
    <3>1. PageOpen(q) /\ tab'[q] = tab[q]
      BY <1>4, <2>1
    <3>2. dark' = dark
      BY <1>1, <1>4, <2>1
    <3> QED
      BY <3>1, <3>2, <1>2, <1>7 DEF SeatCovered
  <2> QED
    BY <2>1, <1>1, <1>5, <1>7 DEF SeatCovered
<1>9. SeatFading'
  <2>1. SUFFICES ASSUME ~SeatOpen'
                 PROVE  /\ \A s \in sees : s.left = 0 \/ s.left + gone' <= ExpiresAfter
                        /\ ~(gone' > 0)
    BY <1>1 DEF SeatFading
  <2>2. gone' = 0
    BY <2>1, <1>1, <1>4 DEF SeatOpen
  <2>3. \A s \in sees : s.left \in Nat /\ s.left <= ExpiresAfter
    BY PresenceNumbers DEF PresenceTypeOK
  <2> QED
    BY <2>2, <2>3
<1>10. SeatReturns'
  BY <1>1, <1>5, PresenceNumbers DEF SeatReturns
<1> QED
  BY <1>6, <1>8, <1>9, <1>10

\* What is left of a sequence.
LEMMA RemoveAtFacts ==
    ASSUME NEW S, NEW q \in Seq(S), NEW i \in 1 .. Len(q)
    PROVE  /\ RemoveAt(q, i) \in Seq(S)
           /\ \A j \in 1 .. Len(q) : j # i =>
                 \E k \in 1 .. Len(RemoveAt(q, i)) : RemoveAt(q, i)[k] = q[j]
<1> DEFINE a == SubSeq(q, 1, i - 1)
           b == SubSeq(q, i + 1, Len(q))
<1>1. Len(q) \in Nat /\ i \in Nat /\ i >= 1 /\ i <= Len(q) /\ \A j \in 1 .. Len(q) : q[j] \in S
  BY LenProperties, ElementOfSeq
<1>2. a \in Seq(S) /\ Len(a) = i - 1 /\ \A k \in 1 .. i - 1 : a[k] = q[k]
  <2>1. \A k \in 1 .. i - 1 : q[k] \in S
    BY <1>1
  <2>2. 1 \in Int /\ i - 1 \in Int
    BY <1>1
  <2>3. /\ a \in Seq(S) /\ Len(a) = (IF 1 <= i - 1 THEN (i - 1) - 1 + 1 ELSE 0)
        /\ \A k \in 1 .. (i - 1) - 1 + 1 : a[k] = q[1 + k - 1]
    BY <2>1, <2>2, SubSeqProperties
  <2> HIDE DEF a
  <2>4. (i - 1) - 1 + 1 = i - 1 /\ \A k \in 1 .. i - 1 : 1 + k - 1 = k
    BY <1>1
  <2> QED
    BY <2>3, <2>4, <1>1
<1>3. b \in Seq(S) /\ Len(b) = Len(q) - i /\ \A k \in 1 .. Len(q) - i : b[k] = q[i + k]
  <2>1. \A k \in i + 1 .. Len(q) : q[k] \in S
    BY <1>1
  <2>2. i + 1 \in Int /\ Len(q) \in Int
    BY <1>1
  <2>3. /\ b \in Seq(S) /\ Len(b) = (IF i + 1 <= Len(q) THEN Len(q) - (i + 1) + 1 ELSE 0)
        /\ \A k \in 1 .. Len(q) - (i + 1) + 1 : b[k] = q[(i + 1) + k - 1]
    BY <2>1, <2>2, SubSeqProperties
  <2> HIDE DEF b
  <2>4. Len(b) = Len(q) - i
    <3>1. \A u, v \in Nat : v <= u => (IF v + 1 <= u THEN u - (v + 1) + 1 ELSE 0) = u - v
      OBVIOUS
    <3> QED
      BY <3>1, <2>3, <1>1
  <2>5. ASSUME NEW k \in 1 .. Len(q) - i
        PROVE  b[k] = q[i + k]
    <3>1. k \in 1 .. Len(q) - (i + 1) + 1 /\ (i + 1) + k - 1 = i + k
      BY <1>1
    <3>2. b[k] = q[(i + 1) + k - 1]
      BY <3>1, <2>3
    <3> QED
      BY <3>1, <3>2
  <2> QED
    BY <2>3, <2>4, <2>5
<1>4. RemoveAt(q, i) = a \o b
  BY DEF RemoveAt
<1> HIDE DEF a, b
<1>5. /\ a \o b \in Seq(S) /\ Len(a \o b) = Len(a) + Len(b)
      /\ \A k \in 1 .. Len(a) + Len(b) :
            (a \o b)[k] = IF k <= Len(a) THEN a[k] ELSE b[k - Len(a)]
  BY <1>2, <1>3, ConcatProperties
<1>6. ASSUME NEW j \in 1 .. Len(q), j # i
      PROVE  \E k \in 1 .. Len(a \o b) : (a \o b)[k] = q[j]
  <2>1. CASE j < i
    <3>1. j \in 1 .. i - 1 /\ j \in 1 .. Len(a) + Len(b) /\ j <= Len(a)
      BY <2>1, <1>1, <1>2, <1>3
    <3> QED
      BY <3>1, <1>2, <1>5
  <2>2. CASE j > i
    <3>0. Len(a) = i - 1 /\ Len(b) = Len(q) - i /\ Len(a) + Len(b) = Len(q) - 1
      BY <1>1, <1>2, <1>3
    <3>1. /\ j - 1 \in 1 .. Len(a) + Len(b) /\ ~(j - 1 <= Len(a))
          /\ (j - 1) - Len(a) = j - i /\ j - i \in 1 .. Len(q) - i /\ i + (j - i) = j
      <4>1. j - 1 \in 1 .. Len(q) - 1 /\ ~(j - 1 <= i - 1) /\ (j - 1) - (i - 1) = j - i
        BY <2>2, <1>1
      <4>2. j - i \in 1 .. Len(q) - i /\ i + (j - i) = j
        BY <2>2, <1>1
      <4> QED
        BY <3>0, <4>1, <4>2
    <3>2. (a \o b)[j - 1] = b[j - i]
      BY <3>1, <1>5
    <3>3. b[j - i] = q[i + (j - i)]
      BY <3>1, <1>3
    <3> QED
      BY <3>1, <3>2, <3>3, <1>5
  <2> QED
    BY <2>1, <2>2, <1>1, <1>6
<1> QED
  BY <1>4, <1>5, <1>6

\* A step of the server or of the page that watches keeps the invariant, when it
\* leaves the pages alone and loses no presence frame unnoticed.
LEMMA ServedKeeps ==
    ASSUME PresenceInv,
           link' \in [Connections -> [live : BOOLEAN, recent : BOOLEAN, held : SUBSET Nat]],
           frames' \in Seq(ClientFrames), frames = <<>> => frames' = <<>>,
           signals' \subseteq [value : Values, left : {0, ExpiresAfter}],
           sees' \subseteq [value : Values, left : 0 .. ExpiresAfter],
           watching' \in BOOLEAN, drawn' \in BOOLEAN, overtaken' \in BOOLEAN, dark' \in Nat,
           ~watching' => dark' = 0, dark' = dark \/ dark' = 0, overtaken => overtaken',
           Lit => Lit', PresenceComing => PresenceComing' \/ Lit',
           \A c \in Connections : link'[c].recent => link[c].recent \/ Lit',
           frames = <<>> /\ (\A s \in signals : s.left = 0) => \A s \in signals' : s.left = 0,
           sees' \subseteq sees \cup signals,
           UNCHANGED <<tab, gone>>
    PROVE  PresenceInv'
<1> USE DEF PresenceInv
<1>1. PresenceTypeOK'
  BY DEF PresenceTypeOK
<1>2. \A p \in Pages : PageOpen(p)' <=> PageOpen(p)
  BY DEF PageOpen
<1>3. SeatOpen' <=> SeatOpen
  BY <1>2 DEF SeatOpen
<1>4. SeatCovered'
  <2>1. ASSUME NEW p \in Pages, PageOpen(p)
        PROVE  dark' + tab[p].due <= KeepAlive \/ Lit' \/ PresenceComing'
    <3>1. CASE dark' = dark
      BY <3>1, <2>1 DEF SeatCovered
    <3>2. CASE dark' = 0
      BY <3>2 DEF Lit
    <3> QED
      BY <3>1, <3>2
  <2> QED
    BY <2>1, <1>2 DEF SeatCovered
<1>5. SeatFading'
  <2>1. SUFFICES ASSUME ~SeatOpen
                 PROVE  /\ \A s \in sees' : s.left = 0 \/ s.left + gone <= ExpiresAfter
                        /\ gone > 0 => frames' = <<>> /\ \A s \in signals' : s.left = 0
    BY <1>3 DEF SeatFading
  <2>2. gone > 0 => frames = <<>> /\ \A s \in signals : s.left = 0
    BY <2>1 DEF SeatFading
  <2>3. ASSUME NEW s \in signals
        PROVE  s.left = 0 \/ s.left + gone <= ExpiresAfter
    <3>1. s.left \in {0, ExpiresAfter} /\ gone \in Nat /\ ExpiresAfter \in Nat
      BY PresenceNumbers DEF PresenceTypeOK
    <3> QED
      BY <3>1, <2>2
  <2> QED
    BY <2>1, <2>2, <2>3 DEF SeatFading
<1>6. SeatReturns'
  BY PresenceNumbers DEF SeatReturns
<1> QED
  BY <1>1, <1>4, <1>5, <1>6

\* The seat is drawn as reported while a signal that counts is there.
LEMMA StateFacts ==
    ASSUME NEW X, X \subseteq [value : Values, left : 0 .. ExpiresAfter]
    PROVE  PresenceStateOf(X) # "unknown" <=> \E s \in X : s.left > 0
<1>1. CASE \E s \in X : s.left > 0
  <2>1. (CHOOSE s \in X : TRUE) \in X
    BY <1>1
  <2>2. (CHOOSE s \in X : TRUE).value \in Values
    BY <2>1
  <2>3. "unknown" \notin Values
    BY DEF Values
  <2> QED
    BY <1>1, <2>2, <2>3 DEF PresenceStateOf
<1>2. CASE ~ \E s \in X : s.left > 0
  BY <1>2 DEF PresenceStateOf
<1> QED
  BY <1>1, <1>2

\* A signal is one that may be seen.
LEMMA SignalSeen ==
    ASSUME PresenceTypeOK, NEW s \in signals
    PROVE  s \in [value : Values, left : 0 .. ExpiresAfter] /\ s.left \in {0, ExpiresAfter}
<1>1. {0, ExpiresAfter} \subseteq 0 .. ExpiresAfter
  BY PresenceNumbers
<1> QED
  BY <1>1 DEF PresenceTypeOK

\* The page that watches keeps the invariant: it draws what it is told, or is away.
LEMMA WatcherKeeps ==
    ASSUME PresenceInv, (\E s \in signals : Deliver(s)) \/ WatcherLeaves \/ WatcherReturns
    PROVE  PresenceInv'
<1> USE DEF PresenceInv
<1>1. UNCHANGED <<tab, link, frames, overtaken, gone>>
  BY DEF Deliver, WatcherLeaves, WatcherReturns
<1>2. /\ link \in [Connections -> [live : BOOLEAN, recent : BOOLEAN, held : SUBSET Nat]]
      /\ frames \in Seq(ClientFrames) /\ overtaken \in BOOLEAN /\ watching \in BOOLEAN
      /\ drawn \in BOOLEAN /\ dark \in Nat
      /\ signals \subseteq [value : Values, left : {0, ExpiresAfter}]
      /\ sees \subseteq [value : Values, left : 0 .. ExpiresAfter]
      /\ ~watching => dark = 0
  BY DEF PresenceTypeOK, SeatCovered
<1>3. ASSUME NEW s \in signals, Deliver(s) PROVE PresenceInv'
  <2>1. /\ signals' = signals \ {s} /\ sees' = {s} /\ UNCHANGED <<watching, dark>>
        /\ drawn' = (drawn \/ PresenceStateOf({s}) # "unknown")
    BY <1>3 DEF Deliver
  <2>2. drawn' \in BOOLEAN
    BY <2>1
  <2>3. sees' \subseteq [value : Values, left : 0 .. ExpiresAfter] /\ sees' \subseteq sees \cup signals
    BY <2>1, SignalSeen
  <2>4. s.left > 0 \/ drawn => drawn'
    BY <2>1, <2>3, StateFacts
  <2>5. Lit => Lit'
    BY <2>1, <2>4, <1>1 DEF Lit
  <2> QED
    BY <2>1, <2>2, <2>3, <2>5, <1>1, <1>2, ServedKeeps DEF PresenceComing
<1>4. CASE WatcherLeaves
  <2>1. watching' = FALSE /\ signals' = {} /\ dark' = 0 /\ UNCHANGED <<sees, drawn>>
    BY <1>4 DEF WatcherLeaves
  <2>2. Lit'
    BY <2>1 DEF Lit
  <2> QED
    BY <2>1, <2>2, <1>1, <1>2, ServedKeeps
<1>5. CASE WatcherReturns
  <2>1. watching' = TRUE /\ UNCHANGED <<signals, sees, drawn, dark>>
    BY <1>5 DEF WatcherReturns
  <2>2. (Lit => Lit') /\ (PresenceComing => PresenceComing')
    BY <2>1, <1>1 DEF Lit, PresenceComing
  <2> QED
    BY <2>1, <2>2, <1>1, <1>2, ServedKeeps
<1> QED
  BY <1>3, <1>4, <1>5

\* The sweep of a heartbeat and the end of a connection keep the invariant: what
\* they announce counts for nothing.
LEMMA SweepKeeps ==
    ASSUME PresenceInv, NEW c \in Connections, HeartbeatTick(c) \/ LeaveHub(c)
    PROVE  PresenceInv'
<1> USE DEF PresenceInv
<1>1. UNCHANGED <<tab, frames, watching, sees, drawn, dark, overtaken, gone>>
  BY DEF HeartbeatTick, LeaveHub
<1>2. /\ link \in [Connections -> [live : BOOLEAN, recent : BOOLEAN, held : SUBSET Nat]]
      /\ frames \in Seq(ClientFrames) /\ overtaken \in BOOLEAN /\ watching \in BOOLEAN
      /\ drawn \in BOOLEAN /\ dark \in Nat
      /\ signals \subseteq [value : Values, left : {0, ExpiresAfter}]
      /\ sees \subseteq [value : Values, left : 0 .. ExpiresAfter]
      /\ ~watching => dark = 0
  BY DEF PresenceTypeOK, SeatCovered
<1>3. /\ link' \in [Connections -> [live : BOOLEAN, recent : BOOLEAN, held : SUBSET Nat]]
      /\ \A k \in Connections : link'[k].recent = link[k].recent
  <2>1. CASE HeartbeatTick(c)
    BY <2>1, <1>2 DEF HeartbeatTick
  <2>2. CASE LeaveHub(c)
    BY <2>2, <1>2 DEF LeaveHub
  <2> QED
    BY <2>1, <2>2
<1>4. signals' \in {signals, signals \cup {Tombstone}}
  BY DEF HeartbeatTick, LeaveHub, Broadcast
<1>5. Tombstone \in [value : Values, left : {0, ExpiresAfter}] /\ Tombstone.left = 0
  BY DEF Tombstone, Values
<1>6. signals' \subseteq [value : Values, left : {0, ExpiresAfter}]
  BY <1>2, <1>4, <1>5
<1>7. (\A s \in signals : s.left = 0) => \A s \in signals' : s.left = 0
  BY <1>4, <1>5
<1>8. (Lit => Lit') /\ (PresenceComing => PresenceComing')
  BY <1>1, <1>4 DEF Lit, PresenceComing
<1> QED
  BY <1>1, <1>2, <1>3, <1>6, <1>7, <1>8, ServedKeeps

\* The frames that an accepted one has passed are the same frames.
LEMMA PassedFacts ==
    ASSUME PresenceTypeOK, NEW i \in 1 .. Len(frames)
    PROVE  /\ Taken(i) \in Seq(ClientFrames)
           /\ \A j \in 1 .. Len(frames) : j # i =>
                 \E k \in 1 .. Len(Taken(i)) : Taken(i)[k].value = frames[j].value
<1> DEFINE fr(j) == [frames[j] EXCEPT !.passed = @ \/ (j < i /\ frames[j].by = frames[i].by)]
           q == [j \in 1 .. Len(frames) |-> fr(j)]
<1>1. Len(frames) \in Nat /\ \A j \in 1 .. Len(frames) : frames[j] \in ClientFrames
  BY LenProperties, ElementOfSeq DEF PresenceTypeOK
<1>2. ASSUME NEW j \in 1 .. Len(frames)
      PROVE  fr(j) \in ClientFrames /\ fr(j).value = frames[j].value
  <2>1. frames[j] \in ClientFrames
    BY <1>1
  <2> DEFINE b == frames[j].passed \/ (j < i /\ frames[j].by = frames[i].by)
  <2>2. b \in BOOLEAN /\ fr(j) = [frames[j] EXCEPT !.passed = b]
    BY <2>1 DEF ClientFrames
  <2> HIDE DEF b, fr
  <2> QED
    BY <2>1, <2>2 DEF ClientFrames
<1> HIDE DEF fr
<1>3. q \in Seq(ClientFrames) /\ Len(q) = Len(frames)
  BY <1>1, <1>2
<1>4. \A j \in 1 .. Len(frames) : q[j].value = frames[j].value
  BY <1>2
<1>5. Taken(i) = RemoveAt(q, i)
  BY DEF Taken, fr
<1> HIDE DEF q
<1>6. /\ RemoveAt(q, i) \in Seq(ClientFrames)
      /\ \A j \in 1 .. Len(q) : j # i =>
            \E k \in 1 .. Len(RemoveAt(q, i)) : RemoveAt(q, i)[k] = q[j]
  <2>1. q \in Seq(ClientFrames) /\ i \in 1 .. Len(q)
    BY <1>3
  <2> HIDE DEF q
  <2> QED
    BY <2>1, RemoveAtFacts, Zenon
<1>7. ASSUME NEW j \in 1 .. Len(frames), j # i
      PROVE  \E k \in 1 .. Len(Taken(i)) : Taken(i)[k].value = frames[j].value
  <2>1. PICK k \in 1 .. Len(RemoveAt(q, i)) : RemoveAt(q, i)[k] = q[j]
    BY <1>3, <1>6, <1>7
  <2> QED
    BY <2>1, <1>4, <1>5
<1> QED
  BY <1>5, <1>6, <1>7

\* A frame that is handled keeps the invariant: when it is presence, the seat has
\* just been announced, by this frame, by the one accepted before it in the tick,
\* or it was overtaken.
LEMMA FrameKeeps ==
    ASSUME PresenceInv, NEW i \in 1 .. Len(frames), Accept(i) \/ Drop(i)
    PROVE  PresenceInv'
<1> USE DEF PresenceInv
<1>1. UNCHANGED <<tab, watching, sees, drawn, dark, gone>>
  BY DEF Accept, Drop
<1>2. /\ link \in [Connections -> [live : BOOLEAN, recent : BOOLEAN, held : SUBSET Nat]]
      /\ frames \in Seq(ClientFrames) /\ overtaken \in BOOLEAN /\ watching \in BOOLEAN
      /\ drawn \in BOOLEAN /\ dark \in Nat
      /\ signals \subseteq [value : Values, left : {0, ExpiresAfter}]
      /\ sees \subseteq [value : Values, left : 0 .. ExpiresAfter]
      /\ ~watching => dark = 0
  BY DEF PresenceTypeOK, SeatCovered
<1>3. frames # <<>> /\ frames[i] \in ClientFrames
  BY <1>2, LenProperties, ElementOfSeq
<1>4. /\ frames' \in Seq(ClientFrames)
      /\ \A j \in 1 .. Len(frames) : j # i =>
            \E k \in 1 .. Len(frames') : frames'[k].value = frames[j].value
  <2>1. CASE Accept(i)
    BY <2>1, PassedFacts DEF Accept
  <2>2. CASE Drop(i)
    <3>1. frames' = RemoveAt(frames, i)
      BY <2>2 DEF Drop
    <3> QED
      BY <3>1, <1>2, RemoveAtFacts
  <2> QED
    BY <2>1, <2>2
<1>5. PresenceComing => PresenceComing' \/ frames[i].value # "typing"
  <2>1. SUFFICES ASSUME NEW j \in 1 .. Len(frames), frames[j].value # "typing", j # i
                 PROVE  PresenceComing'
    BY DEF PresenceComing
  <2> QED
    BY <2>1, <1>4 DEF PresenceComing
<1>6. CASE Drop(i)
  <2>1. /\ frames[i].passed \/ TooSoon(frames[i])
        /\ UNCHANGED <<link, signals>>
        /\ overtaken' = (overtaken \/ (frames[i].value # "typing" /\ frames[i].passed))
    BY <1>6 DEF Drop
  <2>2. overtaken' \in BOOLEAN /\ (overtaken => overtaken')
    BY <2>1
  <2>3. Lit => Lit'
    BY <2>1, <2>2, <1>1 DEF Lit
  <2>4. frames[i].value # "typing" => Lit'
    <3>1. CASE frames[i].passed
      BY <3>1, <2>1 DEF Lit
    <3>2. CASE TooSoon(frames[i])
      <4>1. link[frames[i].by].recent /\ frames[i].by \in Connections
        BY <3>2, <1>3 DEF TooSoon, ClientFrames
      <4> QED
        BY <4>1, <2>3 DEF SeatCovered
    <3> QED
      BY <3>1, <3>2, <2>1
  <2> QED
    BY <2>1, <2>2, <2>3, <2>4, <1>1, <1>2, <1>3, <1>4, <1>5, ServedKeeps
<1>7. CASE Accept(i)
  <2>1. UNCHANGED overtaken
    BY <1>7 DEF Accept
  <2>2. CASE frames[i].value = "typing"
    <3>1. UNCHANGED <<link, signals>>
      BY <2>2, <1>7 DEF Accept
    <3>2. Lit => Lit'
      BY <3>1, <2>1, <1>1 DEF Lit
    <3> QED
      BY <3>1, <3>2, <2>1, <2>2, <1>1, <1>2, <1>3, <1>4, <1>5, ServedKeeps
  <2>3. CASE frames[i].value # "typing"
    <3> DEFINE s == Signal(frames[i].value)
    <3>1. /\ link' = [link EXCEPT ![frames[i].by].recent = TRUE,
                                  ![frames[i].by].held = {ExpiresAfter}]
          /\ signals' = IF watching THEN signals \cup {s} ELSE signals
      BY <2>3, <1>7 DEF Accept, Broadcast
    <3>2. s \in [value : Values, left : {0, ExpiresAfter}] /\ s.left > 0
      BY <2>3, <1>3, PresenceNumbers DEF Signal, ClientFrames
    <3> HIDE DEF s
    <3>3. link' \in [Connections -> [live : BOOLEAN, recent : BOOLEAN, held : SUBSET Nat]]
      BY <3>1, <1>2, <1>3, PresenceNumbers, ZenonT(30) DEF ClientFrames
    <3>4. signals' \subseteq [value : Values, left : {0, ExpiresAfter}]
      BY <3>1, <3>2, <1>2
    <3>5. Lit'
      BY <3>1, <3>2, <1>1, <1>2 DEF Lit
    <3> QED
      BY <3>3, <3>4, <3>5, <2>1, <1>1, <1>2, <1>3, <1>4, ServedKeeps
  <2> QED
    BY <2>2, <2>3
<1> QED
  BY <1>6, <1>7

\* A tick keeps the invariant: with nothing under way the seat was drawn in this
\* tick, was overtaken, or has a page whose timer still runs.
LEMMA TickKeeps ==
    ASSUME PresenceInv, Tick
    PROVE  PresenceInv'
<1> USE DEF PresenceInv
<1>1. /\ frames = <<>> /\ signals = {} /\ UNCHANGED <<frames, signals, watching>>
      /\ \A p \in Pages : 0 \notin tab[p].catchUp /\ ~KeepAliveDue(p)
      /\ tab' = [p \in Pages |-> [tab[p] EXCEPT !.due = Sooner(@),
                                                !.catchUp = {Sooner(n) : n \in @}]]
      /\ link' = [c \in Connections |->
                     [link[c] EXCEPT !.recent = FALSE, !.held = {Sooner(n) : n \in @}]]
      /\ sees' = {[s EXCEPT !.left = Sooner(@)] : s \in sees}
      /\ dark' = IF SeatOpen /\ watching /\ ~drawn THEN Later(dark, KeepAlive) ELSE 0
      /\ drawn' = (PresenceStateOf(sees') # "unknown")
      /\ overtaken' = (overtaken /\ ~drawn)
      /\ gone' = IF SeatOpen THEN 0 ELSE Later(gone, ExpiresAfter)
  BY DEF Tick
<1>2. /\ tab \in [Pages -> [socket : SUBSET Connections, hidden : BOOLEAN,
                            due : 0 .. KeepAlive, catchUp : SUBSET {0, 1}]]
      /\ link \in [Connections -> [live : BOOLEAN, recent : BOOLEAN, held : SUBSET Nat]]
      /\ sees \subseteq [value : Values, left : 0 .. ExpiresAfter]
      /\ frames \in Seq(ClientFrames) /\ watching \in BOOLEAN
      /\ signals \subseteq [value : Values, left : {0, ExpiresAfter}]
      /\ drawn \in BOOLEAN /\ overtaken \in BOOLEAN /\ dark \in Nat /\ gone \in Nat
  BY DEF PresenceTypeOK
<1>3. /\ \A b \in Nat : \A n \in 0 .. b : Sooner(n) \in 0 .. b
      /\ \A n \in Nat : Sooner(n) \in Nat /\ (n > 0 => Sooner(n) = n - 1) /\ Sooner(0) = 0
      /\ \A b, n \in Nat : Later(n, b) \in Nat /\ (n <= b => Later(n, b) = n + 1)
  BY DEF Sooner, Later
<1>4. ASSUME NEW p \in Pages
      PROVE  /\ tab'[p] \in [socket : SUBSET Connections, hidden : BOOLEAN,
                             due : 0 .. KeepAlive, catchUp : SUBSET {0, 1}]
             /\ tab'[p].socket = tab[p].socket /\ tab'[p].due = Sooner(tab[p].due)
  <2>1. tab[p] \in [socket : SUBSET Connections, hidden : BOOLEAN,
                    due : 0 .. KeepAlive, catchUp : SUBSET {0, 1}]
    BY <1>2
  <2>2. Sooner(tab[p].due) \in 0 .. KeepAlive
    BY <2>1, <1>3, PresenceNumbers
  <2>3. {Sooner(n) : n \in tab[p].catchUp} \subseteq {0, 1}
    BY <2>1 DEF Sooner
  <2>4. tab'[p] = [tab[p] EXCEPT !.due = Sooner(tab[p].due),
                                 !.catchUp = {Sooner(n) : n \in tab[p].catchUp}]
    BY <1>1
  <2> QED
    BY <2>1, <2>2, <2>3, <2>4
<1>5. ASSUME NEW c \in Connections
      PROVE  link'[c] \in [live : BOOLEAN, recent : BOOLEAN, held : SUBSET Nat] /\ ~link'[c].recent
  <2>1. link[c] \in [live : BOOLEAN, recent : BOOLEAN, held : SUBSET Nat]
    BY <1>2
  <2>2. {Sooner(n) : n \in link[c].held} \subseteq Nat
    BY <2>1, <1>3
  <2>3. link'[c] = [link[c] EXCEPT !.recent = FALSE, !.held = {Sooner(n) : n \in link[c].held}]
    BY <1>1
  <2> QED
    BY <2>1, <2>2, <2>3
<1>6. ASSUME NEW s \in sees
      PROVE  /\ [s EXCEPT !.left = Sooner(@)] \in [value : Values, left : 0 .. ExpiresAfter]
             /\ [s EXCEPT !.left = Sooner(@)].left = Sooner(s.left)
             /\ s.left \in Nat
  <2>1. s \in [value : Values, left : 0 .. ExpiresAfter]
    BY <1>2
  <2>2. Sooner(s.left) \in 0 .. ExpiresAfter
    BY <2>1, <1>3, PresenceNumbers
  <2> QED
    BY <2>1, <2>2
<1>7. PresenceTypeOK'
  <2>1. tab' \in [Pages -> [socket : SUBSET Connections, hidden : BOOLEAN,
                            due : 0 .. KeepAlive, catchUp : SUBSET {0, 1}]]
    <3>1. tab' = [p \in Pages |-> tab'[p]]
      BY <1>1
    <3> QED
      BY <3>1, <1>4
  <2>2. link' \in [Connections -> [live : BOOLEAN, recent : BOOLEAN, held : SUBSET Nat]]
    <3>1. link' = [c \in Connections |-> link'[c]]
      BY <1>1
    <3> QED
      BY <3>1, <1>5
  <2>3. sees' \subseteq [value : Values, left : 0 .. ExpiresAfter]
    BY <1>1, <1>6
  <2>4. drawn' \in BOOLEAN /\ overtaken' \in BOOLEAN
    BY <1>1
  <2>5. dark' \in Nat /\ gone' \in Nat
    BY <1>1, <1>2, <1>3, PresenceNumbers
  <2> QED
    BY <2>1, <2>2, <2>3, <2>4, <2>5, <1>1, <1>2 DEF PresenceTypeOK
<1>8. (\A p \in Pages : PageOpen(p)' <=> PageOpen(p)) /\ (SeatOpen' <=> SeatOpen)
  BY <1>4 DEF PageOpen, SeatOpen
<1>9. ASSUME NEW p \in Pages, PageOpen(p)
      PROVE  dark' + tab'[p].due <= KeepAlive \/ overtaken'
  <2>1. tab[p].due \in Nat /\ tab[p].due > 0 /\ tab[p].due <= KeepAlive
    <3>1. tab[p].due \in 0 .. KeepAlive
      BY <1>2
    <3>2. tab[p].due # 0
      BY <1>1, <1>9 DEF KeepAliveDue
    <3> QED
      BY <3>1, <3>2, PresenceNumbers
  <2>2. tab'[p].due = tab[p].due - 1
    BY <2>1, <1>3, <1>4
  <2>3. dark + tab[p].due <= KeepAlive \/ drawn \/ overtaken \/ dark = 0
    <3>1. ~PresenceComing
      <4>1. Len(frames) = 0
        BY <1>1, EmptySeq
      <4>2. \A i \in 1 .. 0 : FALSE
        OBVIOUS
      <4> QED
        BY <4>1, <4>2 DEF PresenceComing
    <3>2. Lit => drawn \/ overtaken \/ dark = 0
      BY <1>1 DEF Lit
    <3> QED
      BY <3>1, <3>2, <1>9 DEF SeatCovered
  <2>4. dark' = 0 \/ (~drawn /\ dark' = Later(dark, KeepAlive))
    BY <1>1
  <2>5. CASE dark' = 0
    BY <2>1, <2>2, <2>5, PresenceNumbers
  <2>6. CASE ~drawn /\ dark' = Later(dark, KeepAlive) /\ overtaken
    BY <2>6, <1>1
  <2>7. CASE ~drawn /\ dark' = Later(dark, KeepAlive) /\ ~overtaken
    <3>1. dark + tab[p].due <= KeepAlive \/ dark = 0
      BY <2>3, <2>7
    <3>2. dark <= KeepAlive
      BY <3>1, <2>1, <1>2, PresenceNumbers
    <3>3. dark' = dark + 1
      BY <3>2, <2>7, <1>2, <1>3, PresenceNumbers
    <3> QED
      BY <3>1, <3>3, <2>1, <2>2, <1>2, PresenceNumbers
  <2> QED
    BY <2>4, <2>5, <2>6, <2>7
<1>10. SeatCovered'
  <2>1. ~watching' => dark' = 0
    BY <1>1
  <2>2. \A p \in Pages : PageOpen(p)' => dark' + tab'[p].due <= KeepAlive \/ Lit'
    BY <1>8, <1>9 DEF Lit
  <2> QED
    BY <2>1, <2>2, <1>5 DEF SeatCovered
<1>11. SeatFading'
  <2>1. SUFFICES ASSUME ~SeatOpen, NEW s \in sees
                 PROVE  Sooner(s.left) = 0 \/ Sooner(s.left) + gone' <= ExpiresAfter
    BY <1>1, <1>6, <1>8 DEF SeatFading
  <2>2. s.left \in Nat /\ (s.left = 0 \/ s.left + gone <= ExpiresAfter)
    BY <2>1, <1>6 DEF SeatFading
  <2>3. gone' = Later(gone, ExpiresAfter)
    BY <2>1, <1>1
  <2>4. CASE s.left = 0
    BY <2>4, <1>3
  <2>5. CASE s.left > 0 /\ s.left + gone <= ExpiresAfter
    <3>1. gone' = gone + 1
      <4>1. gone \in Nat /\ gone <= ExpiresAfter
        BY <2>2, <2>5, <1>2, PresenceNumbers
      <4> QED
        BY <4>1, <2>3, <1>3, PresenceNumbers
    <3>2. Sooner(s.left) = s.left - 1
      BY <2>2, <2>5, <1>3
    <3> QED
      BY <3>1, <3>2, <2>2, <2>5, <1>2, PresenceNumbers
  <2> QED
    BY <2>2, <2>4, <2>5
<1>12. SeatReturns'
  <2>1. CASE dark' = 0
    BY <2>1, PresenceNumbers DEF SeatReturns
  <2>2. CASE SeatOpen
    <3>1. PICK p \in Pages : PageOpen(p)
      BY <2>2 DEF SeatOpen
    <3>2. tab'[p].due \in Nat /\ dark' \in Nat
      BY <1>7, PresenceNumbers DEF PresenceTypeOK
    <3> QED
      BY <3>1, <3>2, <1>9, PresenceNumbers DEF SeatReturns
  <2> QED
    BY <2>1, <2>2, <1>1
<1> QED
  BY <1>7, <1>10, <1>11, <1>12

\* Every step of the pages, the server and the page that watches keeps the invariant.
LEMMA PresenceNextInv ==
    ASSUME PresenceInv, [PresenceNext]_presenceVars
    PROVE  PresenceInv'
<1>1. CASE PresenceNext
  <2>1. CASE (\E s \in signals : Deliver(s)) \/ WatcherLeaves \/ WatcherReturns
    BY <2>1, WatcherKeeps
  <2>2. ASSUME NEW p \in Pages, \/ Connect(p) \/ ChangeVisibility(p) \/ CatchUp(p) \/ KeepSeat(p)
                                \/ Type(p) \/ LeavePage(p) \/ LosePage(p)
        PROVE  PresenceInv'
    BY <2>2, ConnectKeeps, AnnounceKeeps, UnseatedKeeps
  <2>3. ASSUME NEW i \in 1 .. Len(frames), Accept(i) \/ Drop(i)
        PROVE  PresenceInv'
    BY <2>3, FrameKeeps
  <2>4. ASSUME NEW c \in Connections, HeartbeatTick(c) \/ LeaveHub(c)
        PROVE  PresenceInv'
    BY <2>4, SweepKeeps
  <2>5. CASE Tick
    BY <2>5, TickKeeps
  <2> QED
    BY <1>1, <2>1, <2>2, <2>3, <2>4, <2>5 DEF PresenceNext
<1>2. CASE UNCHANGED presenceVars
  <2>1. \A p \in Pages : PageOpen(p)' <=> PageOpen(p)
    BY <1>2 DEF presenceVars, PageOpen
  <2> QED
    BY <1>2, <2>1 DEF presenceVars, PresenceInv, PresenceTypeOK, SeatCovered, SeatFading,
       SeatReturns, SeatOpen, Lit, PresenceComing
<1> QED
  BY <1>1, <1>2

\* Under the invariant what is drawn follows the pages, both ways.
LEMMA PresenceInvHonest == PresenceInv => PresenceHonest
<1> SUFFICES ASSUME PresenceInv PROVE PresenceHonest
  OBVIOUS
<1> USE DEF PresenceInv
<1>1. GoneFades
  <2>1. SUFFICES ASSUME ~SeatOpen, gone >= ExpiresAfter, NEW s \in sees
                 PROVE  ~(s.left > 0)
    <3>1. sees \subseteq [value : Values, left : 0 .. ExpiresAfter]
      BY DEF PresenceTypeOK
    <3> QED
      BY <3>1, StateFacts DEF GoneFades
  <2>2. s.left \in Nat /\ gone \in Nat
    BY PresenceNumbers DEF PresenceTypeOK
  <2>3. s.left = 0 \/ s.left + gone <= ExpiresAfter
    BY <2>1 DEF SeatFading
  <2> QED
    BY <2>1, <2>2, <2>3, PresenceNumbers
<1> QED
  BY <1>1 DEF PresenceHonest

\* For any number of pages and connections, whatever order the server handles
\* their frames in, what classmates draw of a seat follows its pages: a seat with
\* an open page is drawn again within one keepalive unless its frames were
\* overtaken, and a seat without one fades when its last signal has run out
\* (room-access-client.tsx, connection.ts, ephemeral-signals.ts).
THEOREM PresenceIsHonest == PresenceSpec => []PresenceHonest
BY PresenceInitInv, PresenceNextInv, PresenceInvHonest, PTL DEF PresenceSpec

-----------------------------------------------------------------------------
(* A room's analytics: what is published can be rebuilt from its patches,   *)
(* an epoch has one algorithm, a dropped event has its replay, a projection *)
(* admits one review, and a stream that has run dry shows exactly the       *)
(* messages that count.  PInv is the inductive invariant.                   *)

\* The rows of the stream: one for each key, a consume for each event, none for an
\* event to come, and a queued one has an attempt left.
StreamKnown ==
  /\ \A i, j \in jobs : i.type = j.type /\ i.reason = j.reason /\ i.source = j.source => i = j
  /\ \A j \in jobs : /\ j.source <= Len(log) /\ j.through <= Len(log)
                     /\ j.type = "consume" => j.reason = "event"
                     /\ j.type = "replay" => j.reason \in {"late_event", "analytics_review"}
                     /\ j.status = "queued" => j.attempts < MaxAttempts
                     /\ j.status = "succeeded" => j.through <= checkpoint
  /\ \A k \in 1..Len(log) : \E j \in jobs : j.type = "consume" /\ j.through = k

\* The head is where the cursor is, and has no more versions than events.
HeadKnown ==
  /\ checkpoint = 0 => head = None /\ snapshots = {}
  /\ checkpoint > 0 => head # None /\ head.through = checkpoint /\ head.version <= head.through

\* A snapshot is the only one of its version; one of a replay epoch was installed
\* when its job succeeded, and one of an algorithm's epoch by that algorithm.
SnapshotsKnown ==
  /\ \A s, t \in snapshots : s.epoch = t.epoch /\ s.version = t.version => s = t
  /\ \A s \in snapshots : s.epoch.kind = "replay" =>
       \E j \in jobs : /\ j.type = "replay" /\ j.status = "succeeded"
                       /\ j.reason = s.epoch.reason /\ j.source = s.epoch.source
  /\ \A s \in snapshots : s.epoch.kind = "algorithm" => s.algorithm = s.epoch.version

\* A review was decided on a snapshot of the events before it.
ReviewsKnown ==
  \A r \in 1..Len(log) : log[r].type = "review" =>
    \E s \in snapshots :
      s.epoch = log[r].epoch /\ s.version = log[r].version /\ s.through < r

\* The message of event k counts among the first n events.
CountsIn(k, n) ==
  /\ log[k].type = "message" /\ k \notin Suppressed(n)
  /\ \A r \in 1..n : /\ log[r].type = "retract" /\ log[r].target = k => r \in Suppressed(n)
                     /\ log[r].type = "review" /\ log[r].kind = "drop" => log[r].target.message # k

\* A head that dropped nothing shows what counts among the events it covers.
HeadExact ==
  head # None /\ ~head.requiresReplay =>
    {e.message : e \in head.edges} = {k \in 1..head.through : CountsIn(k, head.through)}

PInv ==
  /\ ProjectionTypeOK /\ PatchesRebuildSnapshots /\ OneAlgorithmPerEpoch
  /\ ReplayOwed /\ OneReviewPerHead
  /\ StreamKnown /\ HeadKnown /\ SnapshotsKnown /\ ReviewsKnown /\ HeadExact

-----------------------------------------------------------------------------
(* The rebuild: what a fold over the log computes.                         *)

\* A set of numbers that is not empty has a smallest one.
LEMMA SmallestNumber ==
    ASSUME NEW T \in SUBSET Nat, T # {}
    PROVE  \E x \in T : \A y \in T : x <= y
<1> DEFINE R == OpToRel(<, Nat)
<1>1. IsWellFoundedOn(R, Nat)
  BY NatLessThanWellFounded
<1>2. \A x, y \in Nat : x < y => <<x, y>> \in R
  BY DEF OpToRel
<1> HIDE DEF R
<1>3. PICK x \in T : \A y \in T : ~(<<y, x>> \in R)
  BY <1>1, WFMin
<1>4. \A y \in T : ~(y < x)
  BY <1>2, <1>3
<1>5. \A y \in T : x <= y
  BY <1>4
<1> QED
  BY <1>5

\* f holds the maps after the first 0, 1, ... n events, starting from base.
Folded(f, base, n) ==
  f = [k \in 0..n |-> IF k = 0 THEN base ELSE Corrected(f[k - 1], log[k])]

\* Such a function exists, for every number of events.
LEMMA FoldExists ==
    ASSUME NEW base, NEW n \in Nat
    PROVE  \E f : Folded(f, base, n)
<1> DEFINE T == {m \in Nat : ~ \E f : Folded(f, base, m)}
<1>1. SUFFICES ASSUME T # {} PROVE FALSE
  OBVIOUS
<1>2. PICK m \in T : \A y \in T : m <= y
  BY <1>1, SmallestNumber
<1>3. CASE m = 0
  <2> DEFINE f == [k \in 0..0 |-> base]
  <2>1. \A k \in 0..0 : k = 0
    OBVIOUS
  <2>2. f = [k \in 0..0 |-> IF k = 0 THEN base ELSE Corrected(f[k - 1], log[k])]
    BY <2>1
  <2>3. Folded(f, base, 0)
    BY <2>2 DEF Folded
  <2> QED
    BY <2>3, <1>2, <1>3
<1>4. CASE m # 0
  <2>1. m \in Nat /\ m - 1 \in Nat /\ ~(m <= m - 1)
    BY <1>2, <1>4
  <2>2. PICK g : Folded(g, base, m - 1)
    BY <2>1, <1>2
  <2> DEFINE f == [k \in 0..m |-> IF k = m THEN Corrected(g[m - 1], log[m]) ELSE g[k]]
  <2>3. ASSUME NEW k \in 0..m
        PROVE  f[k] = IF k = 0 THEN base ELSE Corrected(f[k - 1], log[k])
    <3>1. CASE k = m
      <4>1. m - 1 \in 0..m /\ m - 1 # m
        BY <2>1
      <4>2. f[m - 1] = g[m - 1]
        BY <4>1
      <4> QED
        BY <4>2, <3>1, <1>4
    <3>2. CASE k # m
      <4>1. k \in 0..m - 1
        BY <3>2, <2>1
      <4>2. g[k] = IF k = 0 THEN base ELSE Corrected(g[k - 1], log[k])
        BY <4>1, <2>2 DEF Folded
      <4>3. k # 0 => k - 1 \in 0..m /\ k - 1 # m
        BY <4>1, <2>1
      <4>4. k # 0 => f[k - 1] = g[k - 1]
        BY <4>3
      <4> QED
        BY <4>2, <4>4, <3>2
    <3> QED
      BY <3>1, <3>2
  <2> HIDE DEF f
  <2>4. f = [k \in 0..m |-> f[k]]
    BY DEF f
  <2>5. Folded(f, base, m)
    BY <2>3, <2>4 DEF Folded
  <2> QED
    BY <2>5, <1>2
<1> QED
  BY <1>3, <1>4

\* The rebuild is the last map of such a function.
LEMMA MapIsFold ==
    ASSUME NEW n \in Nat, NEW replaying
    PROVE  \E f : /\ Folded(f, [valid |-> TRUE, edges |-> Extracted(n, replaying)], n)
                  /\ Map(n, replaying) = f[n]
<1> DEFINE base == [valid |-> TRUE, edges |-> Extracted(n, replaying)]
           g == CHOOSE f : f = [k \in 0..n |-> IF k = 0 THEN base
                                               ELSE Corrected(f[k - 1], log[k])]
<1>1. \E f : f = [k \in 0..n |-> IF k = 0 THEN base ELSE Corrected(f[k - 1], log[k])]
  BY FoldExists, ZenonT(20) DEF Folded
<1>2. g = [k \in 0..n |-> IF k = 0 THEN base ELSE Corrected(g[k - 1], log[k])]
  BY <1>1
<1>3. Map(n, replaying) = g[n]
  BY DEF Map
<1> QED
  BY <1>2, <1>3 DEF Folded

\* What an event of each type carries.
LEMMA EntryFacts ==
    ASSUME NEW e \in Entries
    PROVE  /\ e.type \in {"message", "retract", "other", "review"}
           /\ e.type = "retract" => e.target \in 1..MaxEvents
           /\ e.type = "review" => /\ e.kind \in {"approve", "suppress", "relabel", "drop"}
                                   /\ e.epoch \in Epoch /\ e.version \in 1..MaxEvents
           /\ e.type = "review" /\ e.kind = "suppress" => e.target \in 1..MaxEvents
           /\ e.type = "review" /\ e.kind # "suppress" => e.target \in Edge
  BY DEF Entries

\* The messages a set of edges shows, and a set that shows each in one form.
Messages(edges) == {e.message : e \in edges}
Single(edges) == \A a, b \in edges : a.message = b.message => a = b

\* The messages whose edge an event drops.
DroppedBy(event) ==
  IF event.type = "review" /\ event.kind = "drop" THEN {event.target.message} ELSE {}

\* A correction that is valid keeps one form for each message and removes the
\* message it drops, and no other.
LEMMA CorrectedFacts ==
    ASSUME NEW valid \in BOOLEAN, NEW edges \in SUBSET Edge, NEW event \in Entries,
           NEW c, c = Corrected([valid |-> valid, edges |-> edges], event)
    PROVE  /\ c = [valid |-> c.valid, edges |-> c.edges]
           /\ c.valid \in BOOLEAN /\ c.edges \in SUBSET Edge
           /\ c.valid => valid
           /\ c.valid /\ Single(edges) => /\ Single(c.edges)
                                          /\ Messages(c.edges) = Messages(edges) \ DroppedBy(event)
<1>1. CASE event.type # "review" \/ event.kind \in {"approve", "suppress"}
  <2>1. c = [valid |-> valid, edges |-> edges]
    BY <1>1 DEF Corrected
  <2>2. DroppedBy(event) = {}
    BY <1>1 DEF DroppedBy
  <2>3. Messages(edges) \ {} = Messages(edges)
    OBVIOUS
  <2> QED
    BY <2>1, <2>2, <2>3
<1>2. CASE event.type = "review" /\ event.kind = "drop"
  <2>1. event.target \in Edge
    BY <1>2, EntryFacts
  <2>2. c = [valid |-> valid /\ event.target \in edges, edges |-> edges \ {event.target}]
    BY <1>2 DEF Corrected
  <2>3. c.valid = (valid /\ event.target \in edges)
    BY <2>2
  <2>4. c.edges = edges \ {event.target}
    BY <2>2
  <2>5. Single(edges) => Single(c.edges)
    BY <2>4 DEF Single
  <2>6. ASSUME event.target \in edges, Single(edges)
        PROVE  Messages(c.edges) = Messages(edges) \ {event.target.message}
    BY <2>4, <2>6 DEF Single, Messages
  <2>7. DroppedBy(event) = {event.target.message}
    BY <1>2 DEF DroppedBy
  <2>8. c = [valid |-> c.valid, edges |-> c.edges] /\ c.edges \in SUBSET Edge
    BY <2>2, <2>3, <2>4
  <2>9. c.valid \in BOOLEAN
    BY <2>3
  <2> QED
    BY <2>3, <2>5, <2>6, <2>7, <2>8, <2>9
<1>3. CASE event.type = "review" /\ event.kind = "relabel"
  <2>1. event.target \in Edge
    BY <1>3, EntryFacts
  <2> DEFINE fixed == [event.target EXCEPT !.form = "fixed"]
  <2>2. fixed \in Edge /\ fixed.message = event.target.message
    BY <2>1 DEF Edge
  <2>3. c = [valid |-> valid /\ event.target \in edges,
             edges |-> (edges \ {event.target}) \cup {fixed}]
    BY <1>3 DEF Corrected
  <2> HIDE DEF fixed
  <2>4. c.valid = (valid /\ event.target \in edges)
    BY <2>3
  <2>5. c.edges = (edges \ {event.target}) \cup {fixed}
    BY <2>3
  <2>6. ASSUME event.target \in edges, Single(edges)
        PROVE  Single(c.edges) /\ Messages(c.edges) = Messages(edges)
    BY <2>2, <2>5, <2>6 DEF Single, Messages
  <2>7. Messages(edges) \ DroppedBy(event) = Messages(edges)
    BY <1>3 DEF DroppedBy
  <2>8. c = [valid |-> c.valid, edges |-> c.edges] /\ c.edges \in SUBSET Edge
    BY <2>2, <2>3, <2>4, <2>5
  <2>9. c.valid \in BOOLEAN
    BY <2>4
  <2> QED
    BY <2>4, <2>6, <2>7, <2>8, <2>9
<1> QED
  BY <1>1, <1>2, <1>3, EntryFacts

\* The messages dropped by the first k events.
Dropped(k) == UNION {DroppedBy(log[r]) : r \in 1..k}

\* What the map after k events holds, when the corrections up to it were valid.
Sound(m, base, k) ==
  /\ m = [valid |-> m.valid, edges |-> m.edges]
  /\ m.valid \in BOOLEAN /\ m.edges \in SUBSET Edge
  /\ m.valid => Single(m.edges) /\ Messages(m.edges) = Messages(base) \ Dropped(k)

\* Every map of the fold is of that kind.
LEMMA FoldSound ==
    ASSUME log \in Seq(Entries), NEW n \in 0..Len(log), NEW base \in SUBSET Edge, Single(base),
           NEW f, Folded(f, [valid |-> TRUE, edges |-> base], n)
    PROVE  Sound(f[n], base, n)
<1> DEFINE T == {k \in 0..n : ~Sound(f[k], base, k)}
<1>1. SUFFICES ASSUME T # {} PROVE FALSE
  OBVIOUS
<1>2. T \in SUBSET Nat
  OBVIOUS
<1>3. PICK k \in T : \A y \in T : k <= y
  BY <1>1, <1>2, SmallestNumber
<1>4. \A y \in 0..n : f[y] = IF y = 0 THEN [valid |-> TRUE, edges |-> base]
                            ELSE Corrected(f[y - 1], log[y])
  BY DEF Folded
<1>5. CASE k = 0
  <2>1. f[0] = [valid |-> TRUE, edges |-> base]
    BY <1>3, <1>4, <1>5
  <2>2. Dropped(0) = {}
    BY DEF Dropped
  <2>3. Messages(base) \ {} = Messages(base)
    OBVIOUS
  <2>4. Sound(f[0], base, 0)
    BY <2>1, <2>2, <2>3 DEF Sound
  <2> QED
    BY <2>4, <1>3, <1>5
<1>6. CASE k # 0
  <2>1. k \in 1..n /\ k - 1 \in 0..n /\ ~(k <= k - 1) /\ k \in 1..Len(log)
    BY <1>3, <1>6
  <2>2. Sound(f[k - 1], base, k - 1)
    BY <2>1, <1>3
  <2>3. log[k] \in Entries
    BY <2>1, ElementOfSeq
  <2>4. f[k] = Corrected([valid |-> f[k - 1].valid, edges |-> f[k - 1].edges], log[k])
    BY <2>1, <1>4, <2>2, <1>6 DEF Sound
  <2>5. /\ f[k] = [valid |-> f[k].valid, edges |-> f[k].edges]
        /\ f[k].valid \in BOOLEAN /\ f[k].edges \in SUBSET Edge
        /\ f[k].valid => f[k - 1].valid
        /\ f[k].valid /\ Single(f[k - 1].edges) =>
             /\ Single(f[k].edges)
             /\ Messages(f[k].edges) = Messages(f[k - 1].edges) \ DroppedBy(log[k])
    BY <2>2, <2>3, <2>4, CorrectedFacts DEF Sound
  <2>6. Dropped(k) = Dropped(k - 1) \cup DroppedBy(log[k])
    <3>1. \A r : r \in 1..k <=> (r \in 1..k - 1 \/ r = k)
      BY <2>1
    <3> QED
      BY <3>1 DEF Dropped
  <2>7. ASSUME f[k].valid
        PROVE  Single(f[k].edges) /\ Messages(f[k].edges) = Messages(base) \ Dropped(k)
    <3>1. Single(f[k - 1].edges) /\ Messages(f[k - 1].edges) = Messages(base) \ Dropped(k - 1)
      BY <2>2, <2>5, <2>7 DEF Sound
    <3>2. Messages(f[k].edges) = (Messages(base) \ Dropped(k - 1)) \ DroppedBy(log[k])
      BY <2>5, <2>7, <3>1
    <3>3. (Messages(base) \ Dropped(k - 1)) \ DroppedBy(log[k]) = Messages(base) \ Dropped(k)
      BY <2>6
    <3> QED
      BY <2>5, <2>7, <3>1, <3>2, <3>3
  <2>8. Sound(f[k], base, k)
    BY <2>5, <2>7 DEF Sound
  <2> QED
    BY <2>8, <1>3
<1> QED
  BY <1>5, <1>6

\* The messages the online gate, or a replay, leaves for the first n events.
LEMMA ExtractedFacts ==
    ASSUME log \in Seq(Entries), Len(log) <= MaxEvents, NEW n \in 0..Len(log),
           NEW replaying \in BOOLEAN
    PROVE  /\ Extracted(n, replaying) \in SUBSET Edge
           /\ Single(Extracted(n, replaying))
           /\ (replaying \/ Late(n) = {}) =>
                Messages(Extracted(n, replaying)) \ Dropped(n) = {k \in 1..n : CountsIn(k, n)}
<1> DEFINE accepted == Accepted(n, replaying)
           retracted == {log[k].target : k \in {k \in accepted : log[k].type = "retract"}}
           kept == {k \in accepted : log[k].type = "message"} \ retracted
<1>1. Extracted(n, replaying) = {[message |-> k, form |-> "raw"] : k \in kept}
  BY DEF Extracted
<1>2. accepted \subseteq 1..n
  BY DEF Accepted, Semantic
<1>3. MaxEvents \in Nat /\ Len(log) \in Nat
  BY ProjectionAssumption, LenProperties
<1>4. \A k \in 1..n : k \in 1..MaxEvents /\ k \in 1..Len(log)
  BY <1>3
<1>5. kept \subseteq 1..MaxEvents
  BY <1>2, <1>4
<1>6. ASSUME replaying \/ Late(n) = {} PROVE accepted = Semantic(n)
  BY <1>6 DEF Accepted
<1>7. ASSUME accepted = Semantic(n), NEW k
      PROVE  k \in kept \ Dropped(n) <=> k \in 1..n /\ CountsIn(k, n)
  <2>1. k \in kept <=> /\ k \in 1..n /\ log[k].type = "message" /\ k \notin Suppressed(n)
                       /\ \A r \in 1..n : log[r].type = "retract" /\ log[r].target = k
                                            => r \in Suppressed(n)
    BY <1>7 DEF Semantic
  <2>2. k \in Dropped(n) <=> \E r \in 1..n : /\ log[r].type = "review" /\ log[r].kind = "drop"
                                             /\ log[r].target.message = k
    BY DEF Dropped, DroppedBy
  <2> HIDE DEF kept
  <2> QED
    BY <2>1, <2>2 DEF CountsIn
<1> HIDE DEF kept, accepted
<1>8. Extracted(n, replaying) \in SUBSET Edge
  BY <1>1, <1>5 DEF Edge
<1>9. Single(Extracted(n, replaying))
  BY <1>1 DEF Single
<1>10. Messages(Extracted(n, replaying)) = kept
  <2>1. \A k \in kept : [message |-> k, form |-> "raw"].message = k
    OBVIOUS
  <2>2. \A e \in Extracted(n, replaying) : e.message \in kept
    BY <1>1
  <2>3. \A k \in kept : [message |-> k, form |-> "raw"] \in Extracted(n, replaying)
    BY <1>1
  <2> QED
    BY <2>1, <2>2, <2>3 DEF Messages
<1>11. (replaying \/ Late(n) = {}) => kept \ Dropped(n) = {k \in 1..n : CountsIn(k, n)}
  BY <1>6, <1>7
<1> QED
  BY <1>8, <1>9, <1>10, <1>11

\* The rebuild of a valid ledger that drops no event shows exactly what counts.
LEMMA MapFacts ==
    ASSUME log \in Seq(Entries), Len(log) <= MaxEvents, NEW n \in 0..Len(log),
           NEW replaying \in BOOLEAN
    PROVE  /\ Map(n, replaying).edges \in SUBSET Edge
           /\ Map(n, replaying).valid /\ (replaying \/ Late(n) = {}) =>
                {e.message : e \in Map(n, replaying).edges} = {k \in 1..n : CountsIn(k, n)}
<1>1. n \in Nat
  BY LenProperties
<1>2. PICK f : /\ Folded(f, [valid |-> TRUE, edges |-> Extracted(n, replaying)], n)
               /\ Map(n, replaying) = f[n]
  BY <1>1, MapIsFold
<1>3. Sound(f[n], Extracted(n, replaying), n)
  BY <1>2, ExtractedFacts, FoldSound
<1>4. /\ f[n].edges \in SUBSET Edge
      /\ f[n].valid => Messages(f[n].edges) = Messages(Extracted(n, replaying)) \ Dropped(n)
  BY <1>3 DEF Sound
<1> QED
  BY <1>2, <1>4, ExtractedFacts DEF Messages

-----------------------------------------------------------------------------
(* Init and the room's events.                                             *)

\* A new room has nothing stored.
LEMMA ProjectionInit == Init => PInv
<1> SUFFICES ASSUME Init PROVE PInv
  OBVIOUS
<1> USE DEF Init
<1>1. Len(log) = 0 /\ log \in Seq(Entries) /\ MaxEvents \in Nat
  BY ProjectionAssumption
<1>2. \A k \in 1..Len(log) : FALSE
  BY <1>1
<1>3. ProjectionTypeOK
  BY <1>1, ProjectionAssumption DEF ProjectionTypeOK
<1>4. PatchesRebuildSnapshots /\ OneAlgorithmPerEpoch /\ ReplayOwed
  BY DEF PatchesRebuildSnapshots, OneAlgorithmPerEpoch, ReplayOwed
<1>5. OneReviewPerHead
  BY DEF OneReviewPerHead
<1>6. StreamKnown /\ ReviewsKnown
  BY <1>2 DEF StreamKnown, ReviewsKnown
<1>7. HeadKnown /\ SnapshotsKnown /\ HeadExact
  BY DEF HeadKnown, SnapshotsKnown, HeadExact
<1> QED
  BY <1>3, <1>4, <1>5, <1>6, <1>7 DEF PInv

\* What counts among the first n events does not depend on a later one.
LEMMA CountsStable ==
    ASSUME log \in Seq(Entries), NEW event \in Entries, log' = Append(log, event),
           NEW n \in 0..Len(log)
    PROVE  {k \in 1..n : CountsIn(k, n)}' = {k \in 1..n : CountsIn(k, n)}
<1>1. \A k \in 1..n : log'[k] = log[k]
  <2>1. \A k \in 1..n : k \in 1..Len(log)
    BY LenProperties
  <2> QED
    BY <2>1, AppendProperties
<1>2. Suppressed(n)' = Suppressed(n)
  BY <1>1 DEF Suppressed
<1>3. ASSUME NEW k \in 1..n PROVE CountsIn(k, n)' <=> CountsIn(k, n)
  BY <1>1, <1>2 DEF CountsIn
<1> QED
  BY <1>3

\* An event and its jobs: the rows are new, the cursor and the head stay, and a
\* review names the head that is caught up with the room.
LEMMA AppendStep ==
    ASSUME PInv, NEW event \in Entries, NEW more,
           more \in SUBSET {Job("replay", "analytics_review", Len(log) + 1, Len(log) + 1)},
           event.type = "review" => Reviewable(event.epoch, event.version),
           Append1(event, more)
    PROVE  PInv'
<1> DEFINE N == Len(log) + 1
           added == {Job("consume", "event", N, N)} \cup more
<1>1. /\ ProjectionTypeOK /\ StreamKnown /\ HeadKnown /\ SnapshotsKnown /\ ReviewsKnown
      /\ OneReviewPerHead /\ ReplayOwed /\ HeadExact
      /\ PatchesRebuildSnapshots /\ OneAlgorithmPerEpoch
  BY DEF PInv
<1>2. /\ Len(log) < MaxEvents /\ log' = Append(log, event)
      /\ jobs' = jobs \cup added
      /\ checkpoint' = checkpoint /\ head' = head /\ snapshots' = snapshots /\ patches' = patches
      /\ algorithm' = algorithm /\ deploys' = deploys /\ crashes' = crashes
  BY DEF Append1, storeVars
<1>3. /\ log \in Seq(Entries) /\ Len(log) \in Nat /\ MaxEvents \in Nat
      /\ checkpoint \in 0..Len(log) /\ jobs \subseteq Jobs
  BY <1>1, ProjectionAssumption, LenProperties DEF ProjectionTypeOK
<1>4. N \in 1..MaxEvents
  BY <1>2, <1>3
<1>5. /\ log' \in Seq(Entries) /\ Len(log') = N
      /\ \A k \in 1..Len(log) : log'[k] = log[k]
      /\ log'[N] = event
  BY <1>2, <1>3, AppendProperties
<1>6. \A k : k \in 1..N <=> (k \in 1..Len(log) \/ k = N)
  BY <1>3
<1>7. /\ added \subseteq Jobs
      /\ \A i \in added : /\ i.source = N /\ i.through = N /\ i.status = "queued"
                          /\ i.attempts < MaxAttempts
                          /\ i.type = "consume" => i.reason = "event"
                          /\ i.type = "replay" => i.reason = "analytics_review"
      /\ \A i, j \in added : i.type = j.type => i = j
      /\ \E i \in added : i.type = "consume"
  <2> DEFINE c == Job("consume", "event", N, N)
             p == Job("replay", "analytics_review", N, N)
  <2>1. 0 \in 0..MaxAttempts /\ 0 < MaxAttempts
    BY ProjectionAssumption
  <2> HIDE DEF N
  <2>2. /\ c \in Jobs /\ c.type = "consume" /\ c.reason = "event" /\ c.source = N /\ c.through = N
        /\ c.status = "queued" /\ c.attempts = 0
    BY <1>4, <2>1 DEF Job, Jobs
  <2>3. /\ p \in Jobs /\ p.type = "replay" /\ p.reason = "analytics_review" /\ p.source = N
        /\ p.through = N /\ p.status = "queued" /\ p.attempts = 0
    BY <1>4, <2>1 DEF Job, Jobs
  <2>4. added = {c} \cup more /\ more \in SUBSET {p}
    BY DEF N
  <2> HIDE DEF added, c, p
  <2> QED
    BY <2>1, <2>2, <2>3, <2>4
<1> HIDE DEF added
<1>8. ProjectionTypeOK'
  <2>1. jobs' \subseteq Jobs
    BY <1>2, <1>3, <1>7
  <2>2. checkpoint \in 0..N /\ N <= MaxEvents
    BY <1>3, <1>4
  <2> HIDE DEF N
  <2> QED
    BY <1>1, <1>2, <1>5, <2>1, <2>2 DEF ProjectionTypeOK
<1>9. PatchesRebuildSnapshots' /\ OneAlgorithmPerEpoch'
  BY <1>1, <1>2 DEF PatchesRebuildSnapshots, OneAlgorithmPerEpoch, EdgesAt
<1>10. ReplayOwed'
  BY <1>1, <1>2 DEF ReplayOwed
<1>11. HeadKnown' /\ SnapshotsKnown'
  BY <1>1, <1>2 DEF HeadKnown, SnapshotsKnown
<1>12. StreamKnown'
  <2>1. \A i \in jobs : i.source <= Len(log) /\ i.through <= Len(log)
    BY <1>1 DEF StreamKnown
  <2>2. \A i \in jobs : i.source \in Nat /\ i.through \in Nat
    BY <1>3 DEF Jobs
  <2>3. \A i \in jobs : i.source # N /\ i.source <= N /\ i.through <= N
    BY <1>3, <2>1, <2>2
  <2>4. N <= N
    BY <1>3
  <2> HIDE DEF N
  <2>5. \A i, j \in jobs' : i.type = j.type /\ i.reason = j.reason /\ i.source = j.source => i = j
    BY <1>1, <1>2, <1>7, <2>3 DEF StreamKnown
  <2>6. \A j \in jobs' : /\ j.source <= Len(log') /\ j.through <= Len(log')
                         /\ j.type = "consume" => j.reason = "event"
                         /\ j.type = "replay" => j.reason \in {"late_event", "analytics_review"}
                         /\ j.status = "queued" => j.attempts < MaxAttempts
                         /\ j.status = "succeeded" => j.through <= checkpoint'
    <3>1. ASSUME NEW j \in jobs
          PROVE  /\ j.source <= Len(log') /\ j.through <= Len(log')
                 /\ j.type = "consume" => j.reason = "event"
                 /\ j.type = "replay" => j.reason \in {"late_event", "analytics_review"}
                 /\ j.status = "queued" => j.attempts < MaxAttempts
                 /\ j.status = "succeeded" => j.through <= checkpoint'
      BY <1>1, <1>2, <1>5, <2>3 DEF StreamKnown
    <3>2. ASSUME NEW j \in added
          PROVE  /\ j.source <= Len(log') /\ j.through <= Len(log')
                 /\ j.type = "consume" => j.reason = "event"
                 /\ j.type = "replay" => j.reason \in {"late_event", "analytics_review"}
                 /\ j.status = "queued" => j.attempts < MaxAttempts
                 /\ j.status # "succeeded"
      BY <1>5, <1>7, <2>4
    <3> QED
      BY <3>1, <3>2, <1>2
  <2>7. \A k \in 1..Len(log') : \E j \in jobs' : j.type = "consume" /\ j.through = k
    BY <1>1, <1>2, <1>5, <1>6, <1>7 DEF StreamKnown
  <2> QED
    BY <2>5, <2>6, <2>7 DEF StreamKnown
<1>13. ASSUME event.type = "review"
       PROVE  /\ head \in snapshots /\ head.epoch = event.epoch /\ head.version = event.version
              /\ head.through = Len(log)
  BY <1>13, <1>1 DEF Reviewable, ProjectionTypeOK
<1>14. ReviewsKnown'
  <2>1. Len(log) < N
    BY <1>3
  <2> HIDE DEF N
  <2> SUFFICES ASSUME NEW r \in 1..N, log'[r].type = "review"
               PROVE  \E s \in snapshots : /\ s.epoch = log'[r].epoch
                                           /\ s.version = log'[r].version /\ s.through < r
    BY <1>2, <1>5 DEF ReviewsKnown
  <2>2. CASE r \in 1..Len(log)
    BY <2>2, <1>1, <1>5 DEF ReviewsKnown
  <2>3. CASE r = N
    BY <2>3, <2>1, <1>5, <1>13
  <2> QED
    BY <2>2, <2>3, <1>6
<1>15. OneReviewPerHead'
  <2>1. DOMAIN log' = 1..N /\ DOMAIN log = 1..Len(log)
    BY <1>3, <1>5, LenProperties
  <2>2. ASSUME NEW q \in 1..Len(log), log[q].type = "review", event.type = "review"
        PROVE  ~(log[q].epoch = event.epoch /\ log[q].version = event.version)
    <3>1. PICK s \in snapshots : /\ s.epoch = log[q].epoch /\ s.version = log[q].version
                                 /\ s.through < q
      BY <2>2, <1>1 DEF ReviewsKnown
    <3>2. SUFFICES ASSUME log[q].epoch = event.epoch, log[q].version = event.version
                   PROVE  FALSE
      OBVIOUS
    <3>3. s = head
      BY <3>1, <3>2, <1>13, <2>2, <1>1 DEF SnapshotsKnown
    <3>4. Len(log) < q
      BY <3>1, <3>3, <1>13, <2>2
    <3> QED
      BY <3>4, <1>3
  <2> HIDE DEF N
  <2> QED
    BY <2>1, <2>2, <1>1, <1>5, <1>6 DEF OneReviewPerHead
<1>16. HeadExact'
  <2> SUFFICES ASSUME head # None, ~head.requiresReplay
               PROVE  {e.message : e \in head.edges} = {k \in 1..head.through : CountsIn(k, head.through)}'
    BY <1>2 DEF HeadExact
  <2>1. head.through = checkpoint
    BY <1>1, <1>3 DEF HeadKnown
  <2>2. PICK n \in 0..Len(log) : n = head.through
    BY <2>1, <1>3
  <2>3. {k \in 1..n : CountsIn(k, n)}' = {k \in 1..n : CountsIn(k, n)}
    BY <1>2, <1>3, CountsStable
  <2>4. {e.message : e \in head.edges} = {k \in 1..n : CountsIn(k, n)}
    BY <1>1, <2>2 DEF HeadExact
  <2>5. {k \in 1..head.through : CountsIn(k, head.through)}' = {k \in 1..n : CountsIn(k, n)}'
    BY <2>2, <1>2
  <2> QED
    BY <2>3, <2>4, <2>5
<1> QED
  BY <1>8, <1>9, <1>10, <1>11, <1>12, <1>14, <1>15, <1>16 DEF PInv

\* A message keeps the invariant.
LEMMA MessageStep == ASSUME PInv, NEW time \in Times, Message(time) PROVE PInv'
<1>1. [type |-> "message", time |-> time] \in Entries
  BY ProjectionAssumption DEF Entries
<1> QED
  BY <1>1, AppendStep DEF Message

\* So does the retraction of one.
LEMMA RetractStep ==
    ASSUME PInv, NEW k \in DOMAIN log, NEW time \in Times, Retract(k, time)
    PROVE  PInv'
<1>1. k \in 1..MaxEvents
  <2>1. DOMAIN log = 1..Len(log) /\ Len(log) \in Nat /\ Len(log) <= MaxEvents /\ MaxEvents \in Nat
    BY LenProperties, ProjectionAssumption DEF PInv, ProjectionTypeOK
  <2> QED
    BY <2>1
<1>2. [type |-> "retract", target |-> k, time |-> time] \in Entries
  BY <1>1, ProjectionAssumption DEF Entries
<1> QED
  BY <1>2, AppendStep DEF Retract

\* So does an event no algorithm reads.
LEMMA OtherStep == ASSUME PInv, OtherEvent PROVE PInv'
<1>1. [type |-> "other"] \in Entries
  BY DEF Entries
<1> QED
  BY <1>1, AppendStep DEF OtherEvent

\* A review names the head, which is a snapshot: no second one can name it.
LEMMA ReviewStep ==
    ASSUME PInv, NEW kind \in Reviews, NEW s \in snapshots, Review(kind, s.epoch, s.version)
    PROVE  PInv'
<1>1. /\ snapshots \subseteq Snapshots /\ head \in snapshots /\ DOMAIN log \subseteq 1..MaxEvents
  <2>1. DOMAIN log = 1..Len(log) /\ Len(log) \in Nat /\ Len(log) <= MaxEvents /\ MaxEvents \in Nat
    BY LenProperties, ProjectionAssumption DEF PInv, ProjectionTypeOK
  <2> QED
    BY <2>1 DEF PInv, ProjectionTypeOK, Review, Reviewable
<1>2. s.epoch \in Epoch /\ s.version \in 1..MaxEvents /\ head.edges \subseteq Edge
  BY <1>1 DEF Snapshots
<1>3. PICK target \in ReviewTargets(kind) :
        Append1([type |-> "review", kind |-> kind, target |-> target,
                 epoch |-> s.epoch, version |-> s.version],
                {Job("replay", "analytics_review", Len(log) + 1, Len(log) + 1)})
  BY DEF Review
<1> DEFINE event == [type |-> "review", kind |-> kind, target |-> target,
                     epoch |-> s.epoch, version |-> s.version]
<1>4. kind \in {"approve", "suppress", "relabel", "drop"}
  BY ProjectionAssumption
<1>5. event \in Entries
  <2>1. CASE kind = "suppress"
    <3>1. target \in 1..MaxEvents
      BY <2>1, <1>1, <1>3 DEF ReviewTargets
    <3> QED
      BY <3>1, <2>1, <1>2 DEF Entries
  <2>2. CASE kind \in {"approve", "relabel", "drop"}
    <3>1. target \in Edge
      BY <2>2, <1>2, <1>3 DEF ReviewTargets
    <3> QED
      BY <3>1, <2>2, <1>2 DEF Entries
  <2> QED
    BY <2>1, <2>2, <1>4
<1>6. event.type = "review" => Reviewable(event.epoch, event.version)
  BY DEF Review
<1> HIDE DEF event
<1> QED
  BY <1>3, <1>5, <1>6, AppendStep DEF event

-----------------------------------------------------------------------------
(* The worker.                                                             *)

\* A job's outcome that installs nothing: it is queued again, dead, or a consume the
\* cursor has already passed.
LEMMA JobStep ==
    ASSUME PInv, NEW j \in jobs, j.status = "queued", NEW z \in Jobs,
           z.type = j.type, z.reason = j.reason, z.source = j.source, z.through = j.through,
           z.status = "queued" => z.attempts < MaxAttempts,
           z.status = "succeeded" => z.type = "consume" /\ z.through <= checkpoint,
           jobs' = (jobs \ {j}) \cup {z},
           UNCHANGED <<log, checkpoint, storeVars, algorithm, deploys>>,
           crashes' \in 0..MaxCrashes
    PROVE  PInv'
<1>1. /\ ProjectionTypeOK /\ StreamKnown /\ HeadKnown /\ SnapshotsKnown /\ ReviewsKnown
      /\ OneReviewPerHead /\ ReplayOwed /\ HeadExact
      /\ PatchesRebuildSnapshots /\ OneAlgorithmPerEpoch
  BY DEF PInv
<1>2. /\ log' = log /\ checkpoint' = checkpoint /\ head' = head /\ snapshots' = snapshots
      /\ patches' = patches /\ algorithm' = algorithm /\ deploys' = deploys
  BY DEF storeVars
<1>3. ProjectionTypeOK'
  BY <1>1, <1>2 DEF ProjectionTypeOK
<1>4. PatchesRebuildSnapshots' /\ OneAlgorithmPerEpoch' /\ OneReviewPerHead' /\ ReviewsKnown'
  BY <1>1, <1>2 DEF PatchesRebuildSnapshots, OneAlgorithmPerEpoch, EdgesAt, OneReviewPerHead,
                    ReviewsKnown
<1>5. HeadKnown' /\ HeadExact'
  BY <1>1, <1>2 DEF HeadKnown, HeadExact, CountsIn, Suppressed
<1>6. ReplayOwed'
  <2> SUFFICES ASSUME head # None, head.requiresReplay
               PROVE  \E i \in jobs' : /\ i.type = "replay" /\ i.through = head.through
                                       /\ i.status # "succeeded"
    BY <1>2 DEF ReplayOwed
  <2>1. PICK i \in jobs : i.type = "replay" /\ i.through = head.through /\ i.status # "succeeded"
    BY <1>1 DEF ReplayOwed
  <2>2. CASE i = j
    BY <2>1, <2>2
  <2>3. CASE i # j
    BY <2>1, <2>3
  <2> QED
    BY <2>2, <2>3
<1>7. SnapshotsKnown'
  BY <1>1, <1>2 DEF SnapshotsKnown
<1>8. StreamKnown'
  <2>1. \A i, l \in jobs' : i.type = l.type /\ i.reason = l.reason /\ i.source = l.source => i = l
    BY <1>1 DEF StreamKnown
  <2>2. ASSUME NEW i \in jobs'
        PROVE  /\ i.source <= Len(log) /\ i.through <= Len(log)
               /\ i.type = "consume" => i.reason = "event"
               /\ i.type = "replay" => i.reason \in {"late_event", "analytics_review"}
               /\ i.status = "queued" => i.attempts < MaxAttempts
               /\ i.status = "succeeded" => i.through <= checkpoint
    <3>1. CASE i \in jobs
      BY <3>1, <1>1 DEF StreamKnown
    <3>2. CASE i = z
      BY <3>2, <1>1 DEF StreamKnown
    <3> QED
      BY <3>1, <3>2
  <2>3. ASSUME NEW k \in 1..Len(log)
        PROVE  \E i \in jobs' : i.type = "consume" /\ i.through = k
    BY <1>1 DEF StreamKnown
  <2> QED
    BY <2>1, <2>2, <2>3, <1>2 DEF StreamKnown
<1> QED
  BY <1>3, <1>4, <1>5, <1>6, <1>7, <1>8 DEF PInv

\* An attempt that raises or is lost.
LEMMA RaiseStep ==
    ASSUME PInv, NEW j \in jobs, Runnable(j), Raise(j), UNCHANGED <<log, algorithm, deploys>>,
           crashes' \in 0..MaxCrashes
    PROVE  PInv'
<1> DEFINE status == IF j.attempts + 1 < MaxAttempts THEN "queued" ELSE "dead"
           y == [j EXCEPT !.attempts = @ + 1]
           z == [y EXCEPT !.status = status]
<1>1. /\ j \in Jobs /\ j.status = "queued" /\ j.attempts < MaxAttempts
      /\ UNCHANGED <<log, checkpoint, storeVars, algorithm, deploys>>
  BY DEF PInv, ProjectionTypeOK, StreamKnown, Runnable, Raise
<1>2. jobs' = (jobs \ {j}) \cup {z}
  BY <1>1 DEF Raise, Failed, Jobs
<1>3. j.attempts \in Nat /\ MaxAttempts \in Nat /\ j.attempts + 1 \in 0..MaxAttempts
  BY <1>1, ProjectionAssumption DEF Jobs
<1>4. y \in Jobs /\ y.attempts = j.attempts + 1
  BY <1>1, <1>3 DEF Jobs
<1>5. y.type = j.type /\ y.reason = j.reason /\ y.source = j.source /\ y.through = j.through
  BY <1>1 DEF Jobs
<1> HIDE DEF y
<1>6. status \in {"queued", "dead"} /\ (status = "queued" => j.attempts + 1 < MaxAttempts)
  OBVIOUS
<1> HIDE DEF status
<1>7. /\ z \in Jobs /\ z.status = status /\ z.attempts = y.attempts
      /\ z.type = y.type /\ z.reason = y.reason /\ z.source = y.source /\ z.through = y.through
  BY <1>4, <1>6 DEF Jobs
<1> HIDE DEF z
<1>8. z.status = "queued" => z.attempts < MaxAttempts
  BY <1>4, <1>6, <1>7
<1>9. z.status # "succeeded"
  BY <1>6, <1>7
<1> QED
  BY <1>1, <1>2, <1>5, <1>7, <1>8, <1>9, JobStep

\* What the worker may install for job j: the next version of the epoch it continues,
\* or the first of one of its own, over the events up to the cursor or one more.
Installable(j, s) ==
  /\ s \in Snapshots /\ s.through \in {checkpoint, checkpoint + 1} /\ s.through <= Len(log)
  /\ j.through <= s.through /\ s.version <= s.through
  /\ s.version = IF head # None /\ head.epoch = s.epoch THEN head.version + 1 ELSE 1
  /\ \A t \in snapshots : t.epoch = s.epoch => t.algorithm = s.algorithm
  /\ s.epoch.kind = "algorithm" => s.algorithm = s.epoch.version
  /\ s.epoch.kind = "replay" =>
       \/ \E t \in snapshots : t.epoch = s.epoch
       \/ j.type = "replay" /\ j.reason = s.epoch.reason /\ j.source = s.epoch.source
  /\ ~s.requiresReplay =>
       {e.message : e \in s.edges} = {k \in 1..s.through : CountsIn(k, s.through)}

\* The patches still rebuild the snapshots, the new one too.
LEMMA InstallRebuilds ==
    ASSUME PInv, NEW j \in jobs, NEW s, Installable(j, s), Persistable(s),
           snapshots' = snapshots \cup {s}, patches' = patches \cup {PatchOf(s)}
    PROVE  PatchesRebuildSnapshots' /\ patches' \subseteq Patches
<1>1. /\ PatchesRebuildSnapshots /\ SnapshotsKnown /\ snapshots \subseteq Snapshots
      /\ head \in snapshots \cup {None} /\ patches \subseteq Patches
  BY DEF PInv, ProjectionTypeOK
<1>2. s \in Snapshots /\ s.version = IF head # None /\ head.epoch = s.epoch THEN head.version + 1 ELSE 1
  BY DEF Installable
<1>3. \A t, u \in snapshots' : t.epoch = u.epoch /\ t.version = u.version => t = u
  BY <1>1 DEF SnapshotsKnown, Persistable
<1>4. \A t \in snapshots' : t.version \in 1..MaxEvents /\ t.edges \subseteq Edge
  BY <1>1, <1>2 DEF Snapshots
<1>5. \A t \in snapshots' : t.version \in Nat /\ t.version >= 1 /\ t.version # 0
  BY <1>4, ProjectionAssumption
<1>6. ASSUME NEW t \in snapshots, NEW u \in snapshots',
             u.epoch = t.epoch, u.version = t.version - 1
      PROVE  u \in snapshots
  <2>1. t.version \in Nat /\ t.version >= 1 /\ u.version \in Nat /\ u.version >= 1
    BY <1>5
  <2>2. t.version > 1
    BY <1>6, <2>1
  <2>3. PICK v \in snapshots : v.epoch = t.epoch /\ v.version = t.version - 1
    BY <2>2, <1>1 DEF PatchesRebuildSnapshots
  <2>4. v = u
    BY <2>3, <1>3, <1>6
  <2> QED
    BY <2>3, <2>4
<1>7. ASSUME NEW t \in snapshots
      PROVE  EdgesAt(t.epoch, t.version - 1)' = EdgesAt(t.epoch, t.version - 1)
  <2>1. {u \in snapshots' : u.epoch = t.epoch /\ u.version = t.version - 1}
          = {u \in snapshots : u.epoch = t.epoch /\ u.version = t.version - 1}
    BY <1>6
  <2> QED
    BY <2>1 DEF EdgesAt
<1> DEFINE base == Baseline(s.epoch)
           p == PatchOf(s)
<1>8. /\ base \subseteq Edge
      /\ EdgesAt(s.epoch, s.version - 1)' = base
      /\ s.version > 1 => \E t \in snapshots : t.epoch = s.epoch /\ t.version = s.version - 1
  <2>1. CASE head # None /\ head.epoch = s.epoch
    <3>1. head \in snapshots /\ head \in snapshots' /\ base = head.edges
      BY <2>1, <1>1 DEF Baseline
    <3>2. s.version - 1 = head.version
      BY <2>1, <1>2, <3>1, <1>5
    <3>3. {u \in snapshots' : u.epoch = s.epoch /\ u.version = s.version - 1} = {head}
      BY <2>1, <3>1, <3>2, <1>3
    <3>4. EdgesAt(s.epoch, s.version - 1)' = head.edges
      BY <3>3 DEF EdgesAt
    <3> QED
      BY <3>1, <3>2, <3>4, <2>1, <1>4
  <2>2. CASE ~(head # None /\ head.epoch = s.epoch)
    <3>1. s.version = 1 /\ base = {}
      BY <2>2, <1>2 DEF Baseline
    <3>2. {u \in snapshots' : u.epoch = s.epoch /\ u.version = s.version - 1} = {}
      BY <3>1, <1>5
    <3>3. EdgesAt(s.epoch, s.version - 1)' = {}
      BY <3>2 DEF EdgesAt
    <3> QED
      BY <3>1, <3>3
  <2> QED
    BY <2>1, <2>2
<1>9. /\ p \in Patches /\ p.epoch = s.epoch /\ p.version = s.version
      /\ p.added = s.edges \ base /\ p.removed = base \ s.edges
  BY <1>2, <1>8 DEF PatchOf, Patches, Snapshots
<1> HIDE DEF p, base
<1>10. p \in patches'
  BY DEF p
<1>11. ASSUME NEW t \in snapshots'
       PROVE  \E q \in patches' :
                /\ q.epoch = t.epoch /\ q.version = t.version
                /\ t.version > 1 => \E u \in snapshots' : u.epoch = t.epoch /\ u.version = t.version - 1
                /\ t.edges = (EdgesAt(t.epoch, t.version - 1)' \ q.removed) \cup q.added
  <2>1. CASE t \in snapshots
    <3>1. PICK q \in patches :
            /\ q.epoch = t.epoch /\ q.version = t.version
            /\ t.version > 1 => \E u \in snapshots : u.epoch = t.epoch /\ u.version = t.version - 1
            /\ t.edges = (EdgesAt(t.epoch, t.version - 1) \ q.removed) \cup q.added
      BY <2>1, <1>1 DEF PatchesRebuildSnapshots
    <3> QED
      BY <3>1, <2>1, <1>7
  <2>2. CASE t = s
    <3>1. s.edges = (base \ p.removed) \cup p.added
      BY <1>9
    <3> QED
      BY <3>1, <2>2, <1>8, <1>9, <1>10
  <2> QED
    BY <2>1, <2>2
<1>12. patches' \subseteq Patches
  BY <1>1, <1>9 DEF p
<1> QED
  BY <1>11, <1>12 DEF PatchesRebuildSnapshots

\* The replay a snapshot that dropped late events asks for.
Requested(j, s, requests) ==
  IF s.requiresReplay
  THEN /\ j.type = "consume" /\ s.through = checkpoint + 1
       /\ \E r \in Jobs : /\ requests = {r} /\ r.type = "replay" /\ r.reason = "late_event"
                          /\ r.status = "queued" /\ r.attempts = 0
                          /\ r.source <= Len(log) /\ r.through = s.through
                          /\ ~Conflicting(r)
  ELSE requests = {}

\* The rows of the stream after an installation.
LEMMA InstallStream ==
    ASSUME PInv, NEW j \in jobs, j.status = "queued", NEW s, Installable(j, s),
           NEW requests, Requested(j, s, requests), Install(j, s, requests), log' = log
    PROVE  /\ StreamKnown' /\ jobs' \subseteq Jobs
           /\ s.requiresReplay =>
                \E i \in jobs' : i.type = "replay" /\ i.through = s.through /\ i.status # "succeeded"
           /\ \E z \in jobs' : /\ z.type = j.type /\ z.reason = j.reason /\ z.source = j.source
                               /\ z.status = "succeeded"
           /\ jobs \ {j} \subseteq jobs'
           /\ checkpoint' = s.through
<1> DEFINE z == [j EXCEPT !.status = "succeeded"]
           fresh == {r \in requests : \A i \in jobs : i.type = "replay" =>
                       i.reason # r.reason \/ i.source # r.source}
<1>1. /\ StreamKnown /\ jobs \subseteq Jobs /\ checkpoint \in Nat /\ Len(log) \in Nat
      /\ MaxAttempts \in Nat /\ 0 < MaxAttempts
  <2>1. log \in Seq(Entries) /\ checkpoint \in 0..Len(log)
    BY DEF PInv, ProjectionTypeOK
  <2>2. Len(log) \in Nat
    BY <2>1, LenProperties
  <2> QED
    BY <2>1, <2>2, ProjectionAssumption DEF PInv, ProjectionTypeOK
<1>2. /\ s.through \in {checkpoint, checkpoint + 1} /\ s.through <= Len(log)
      /\ j.through <= s.through
  BY DEF Installable
<1>3. checkpoint' = s.through
  BY <1>1, <1>2 DEF Install
<1>4. jobs' = (jobs \ {j}) \cup {z} \cup fresh
  BY DEF Install
<1>5. /\ z \in Jobs /\ z.type = j.type /\ z.reason = j.reason /\ z.source = j.source
      /\ z.through = j.through /\ z.status = "succeeded"
  BY <1>1 DEF Jobs
<1>6. \A r \in requests : /\ r \in Jobs /\ r.type = "replay" /\ r.reason = "late_event"
                          /\ r.status = "queued" /\ r.attempts = 0
                          /\ r.source <= Len(log) /\ r.through = s.through
  BY DEF Requested
<1>7. \A r, q \in requests : r = q
  BY DEF Requested
<1>8. \A r \in fresh : r \in requests /\ (\A i \in jobs : i.type = "replay" =>
                                            i.reason # r.reason \/ i.source # r.source)
  OBVIOUS
<1>9. \A r \in requests : r \notin fresh => \E i \in jobs :
        i.type = "replay" /\ i.reason = r.reason /\ i.source = r.source
  OBVIOUS
<1> HIDE DEF z, fresh
<1>10. jobs' \subseteq Jobs
  BY <1>1, <1>4, <1>5, <1>6, <1>8
<1>11. \A i \in jobs : i.status = "succeeded" => i.through <= s.through
  <2>1. \A i \in jobs : i.through \in Nat /\ (i.status = "succeeded" => i.through <= checkpoint)
    BY <1>1 DEF StreamKnown, Jobs
  <2>2. s.through \in Nat /\ checkpoint <= s.through
    BY <1>1, <1>2
  <2> QED
    BY <2>1, <2>2, <1>1
<1>12. StreamKnown'
  <2>1. ASSUME NEW i \in jobs', NEW l \in jobs',
               i.type = l.type, i.reason = l.reason, i.source = l.source
        PROVE  i = l
    <3>1. CASE i \in fresh
      BY <3>1, <2>1, <1>4, <1>5, <1>6, <1>7, <1>8
    <3>2. CASE l \in fresh
      BY <3>2, <2>1, <1>4, <1>5, <1>6, <1>7, <1>8
    <3>3. CASE i \notin fresh /\ l \notin fresh
      BY <3>3, <2>1, <1>1, <1>4, <1>5 DEF StreamKnown
    <3> QED
      BY <3>1, <3>2, <3>3
  <2>2. ASSUME NEW i \in jobs'
        PROVE  /\ i.source <= Len(log) /\ i.through <= Len(log)
               /\ i.type = "consume" => i.reason = "event"
               /\ i.type = "replay" => i.reason \in {"late_event", "analytics_review"}
               /\ i.status = "queued" => i.attempts < MaxAttempts
               /\ i.status = "succeeded" => i.through <= s.through
    <3>1. CASE i \in jobs
      BY <3>1, <1>1, <1>11 DEF StreamKnown
    <3>2. CASE i = z
      BY <3>2, <1>1, <1>2, <1>5 DEF StreamKnown
    <3>3. CASE i \in fresh
      BY <3>3, <1>1, <1>2, <1>6, <1>8
    <3> QED
      BY <3>1, <3>2, <3>3, <1>4
  <2>3. ASSUME NEW k \in 1..Len(log)
        PROVE  \E i \in jobs' : i.type = "consume" /\ i.through = k
    BY <1>1, <1>4, <1>5 DEF StreamKnown
  <2> QED
    BY <2>1, <2>2, <2>3, <1>3 DEF StreamKnown
<1>13. ASSUME s.requiresReplay
       PROVE  \E i \in jobs' : /\ i.type = "replay" /\ i.through = s.through
                               /\ i.status # "succeeded"
  <2>1. PICK r \in requests : ~Conflicting(r)
    BY <1>13 DEF Requested
  <2>2. CASE r \in fresh
    BY <2>2, <1>4, <1>6, <1>8
  <2>3. CASE r \notin fresh
    <3>1. PICK i \in jobs : i.type = "replay" /\ i.reason = r.reason /\ i.source = r.source
      BY <2>3, <1>9
    <3>2. i.through = r.through
      BY <2>1, <3>1 DEF Conflicting
    <3>3. i.through = checkpoint + 1
      BY <3>2, <1>6, <1>13 DEF Requested
    <3>4. i.status # "succeeded"
      <4>1. i.status = "succeeded" => i.through <= checkpoint
        BY <1>1 DEF StreamKnown
      <4>2. ~(checkpoint + 1 <= checkpoint)
        BY <1>1
      <4> QED
        BY <3>3, <4>1, <4>2
    <3>5. j.type = "consume"
      BY <1>13 DEF Requested
    <3>6. i # j
      BY <3>1, <3>5
    <3> QED
      BY <3>1, <3>2, <3>4, <3>6, <1>4, <1>6
  <2> QED
    BY <2>2, <2>3
<1> QED
  BY <1>3, <1>4, <1>5, <1>10, <1>12, <1>13

\* An installation keeps the invariant.
LEMMA InstallStep ==
    ASSUME PInv, NEW j \in jobs, j.status = "queued", NEW s, Installable(j, s), Persistable(s),
           NEW requests, Requested(j, s, requests), Install(j, s, requests),
           UNCHANGED <<log, algorithm, deploys, crashes>>
    PROVE  PInv'
<1>1. /\ ProjectionTypeOK /\ StreamKnown /\ HeadKnown /\ SnapshotsKnown /\ ReviewsKnown
      /\ OneReviewPerHead /\ OneAlgorithmPerEpoch
  BY DEF PInv
<1>2. /\ snapshots' = snapshots \cup {s} /\ patches' = patches \cup {PatchOf(s)} /\ head' = s
      /\ log' = log /\ algorithm' = algorithm /\ deploys' = deploys /\ crashes' = crashes
  BY DEF Install
<1>3. PatchesRebuildSnapshots' /\ patches' \subseteq Patches
  BY <1>2, InstallRebuilds
<1>4. /\ StreamKnown' /\ jobs' \subseteq Jobs
      /\ s.requiresReplay =>
           \E i \in jobs' : i.type = "replay" /\ i.through = s.through /\ i.status # "succeeded"
      /\ \E z \in jobs' : /\ z.type = j.type /\ z.reason = j.reason /\ z.source = j.source
                          /\ z.status = "succeeded"
      /\ jobs \ {j} \subseteq jobs'
      /\ checkpoint' = s.through
  BY <1>2, InstallStream
<1>5. /\ s \in Snapshots /\ s.through <= Len(log) /\ s.version <= s.through
      /\ s.through \in 1..MaxEvents
  BY DEF Installable, Snapshots
<1>6. s.through \in 0..Len(log) /\ s.through > 0 /\ s.through # 0
  <2>1. Len(log) \in Nat /\ MaxEvents \in Nat
    BY <1>1, LenProperties, ProjectionAssumption DEF ProjectionTypeOK
  <2> QED
    BY <1>5, <2>1
<1>7. ProjectionTypeOK'
  BY <1>1, <1>2, <1>3, <1>4, <1>5, <1>6 DEF ProjectionTypeOK
<1>8. OneAlgorithmPerEpoch'
  BY <1>1, <1>2 DEF OneAlgorithmPerEpoch, Installable
<1>9. ReplayOwed'
  BY <1>2, <1>4 DEF ReplayOwed
<1>10. OneReviewPerHead' /\ ReviewsKnown'
  BY <1>1, <1>2 DEF OneReviewPerHead, ReviewsKnown
<1>11. HeadKnown'
  <2>1. s # None
    BY <1>5, NoneAssumption
  <2> QED
    BY <2>1, <1>2, <1>4, <1>5, <1>6 DEF HeadKnown
<1>12. SnapshotsKnown'
  <2>1. \A t, u \in snapshots' : t.epoch = u.epoch /\ t.version = u.version => t = u
    BY <1>1, <1>2 DEF SnapshotsKnown, Persistable
  <2>2. ASSUME NEW t \in snapshots, t.epoch.kind = "replay"
        PROVE  \E i \in jobs' : /\ i.type = "replay" /\ i.status = "succeeded"
                                /\ i.reason = t.epoch.reason /\ i.source = t.epoch.source
    <3>1. PICK i \in jobs : /\ i.type = "replay" /\ i.status = "succeeded"
                            /\ i.reason = t.epoch.reason /\ i.source = t.epoch.source
      BY <2>2, <1>1 DEF SnapshotsKnown
    <3>2. i \in jobs'
      BY <3>1, <1>4
    <3> QED
      BY <3>1, <3>2
  <2>3. ASSUME s.epoch.kind = "replay"
        PROVE  \E i \in jobs' : /\ i.type = "replay" /\ i.status = "succeeded"
                                /\ i.reason = s.epoch.reason /\ i.source = s.epoch.source
    <3>1. CASE \E t \in snapshots : t.epoch = s.epoch
      BY <3>1, <2>2, <2>3
    <3>2. CASE j.type = "replay" /\ j.reason = s.epoch.reason /\ j.source = s.epoch.source
      BY <3>2, <1>4
    <3> QED
      BY <3>1, <3>2, <2>3 DEF Installable
  <2>4. \A t \in snapshots' : t.epoch.kind = "algorithm" => t.algorithm = t.epoch.version
    BY <1>1, <1>2 DEF SnapshotsKnown, Installable
  <2> QED
    BY <2>1, <2>2, <2>3, <2>4, <1>2 DEF SnapshotsKnown
<1>13. HeadExact'
  <2> SUFFICES ASSUME ~s.requiresReplay
               PROVE  {e.message : e \in s.edges} = {k \in 1..s.through : CountsIn(k, s.through)}'
    BY <1>2 DEF HeadExact
  <2>1. {e.message : e \in s.edges} = {k \in 1..s.through : CountsIn(k, s.through)}
    BY DEF Installable
  <2>2. ASSUME NEW k \in 1..s.through PROVE CountsIn(k, s.through)' <=> CountsIn(k, s.through)
    BY <1>2 DEF CountsIn, Suppressed
  <2> QED
    BY <2>1, <2>2
<1> QED
  BY <1>3, <1>4, <1>7, <1>8, <1>9, <1>10, <1>11, <1>12, <1>13 DEF PInv

\* The fields and the type of a snapshot that is put together.
LEMMA SnapshotFields ==
    ASSUME NEW epoch \in Epoch, NEW version \in 1..MaxEvents, NEW through \in 1..MaxEvents,
           NEW dropped \in BOOLEAN, NEW by \in 1..2, NEW edges \in SUBSET Edge,
           NEW s, s = [epoch |-> epoch, version |-> version, through |-> through,
                       requiresReplay |-> dropped, algorithm |-> by, edges |-> edges]
    PROVE  /\ s \in Snapshots /\ s.epoch = epoch /\ s.version = version /\ s.through = through
           /\ s.requiresReplay = dropped /\ s.algorithm = by /\ s.edges = edges
  BY DEF Snapshots

\* The snapshot of a consume continues the current epoch, or begins that of a new
\* algorithm; the late events it drops are owed by the request it makes.
LEMMA ConsumeInstalls ==
    ASSUME PInv, NEW j \in jobs, j.type = "consume", checkpoint + 1 = j.through,
           Map(j.through, FALSE).valid
    PROVE  LET s == Snapshot(j.through, CurrentEpoch, FALSE, Map(j.through, FALSE).edges)
           IN /\ Installable(j, s)
              /\ s.requiresReplay => Late(j.through) # {}
              /\ s.through = checkpoint + 1
<1> DEFINE n == j.through
           epoch == CurrentEpoch
           edges == Map(n, FALSE).edges
           continues == head # None /\ head.epoch = epoch
           version == IF continues THEN head.version + 1 ELSE 1
           s == Snapshot(n, epoch, FALSE, edges)
<1>1. /\ log \in Seq(Entries) /\ Len(log) <= MaxEvents /\ Len(log) \in Nat /\ MaxEvents \in Nat
      /\ j \in Jobs /\ checkpoint \in 0..Len(log) /\ algorithm \in 1..2
      /\ head \in snapshots \cup {None} /\ snapshots \subseteq Snapshots
      /\ j.through <= Len(log) /\ HeadKnown /\ SnapshotsKnown /\ OneAlgorithmPerEpoch
  BY LenProperties, ProjectionAssumption DEF PInv, ProjectionTypeOK, StreamKnown
<1>2. n \in 1..MaxEvents /\ n \in 0..Len(log) /\ n = checkpoint + 1 /\ checkpoint \in Nat
  BY <1>1 DEF Jobs
<1>3. /\ edges \in SUBSET Edge
      /\ Late(n) = {} => {e.message : e \in edges} = {k \in 1..n : CountsIn(k, n)}
  BY <1>1, <1>2, MapFacts
<1>4. head # None => /\ head \in Snapshots /\ head \in snapshots /\ head.through = checkpoint
                     /\ head.version <= checkpoint /\ head.version \in 1..MaxEvents
                     /\ head.epoch \in Epoch
  BY <1>1, <1>2 DEF HeadKnown, Snapshots
<1>5. epoch \in Epoch
  BY <1>1, <1>4 DEF CurrentEpoch, Epoch
<1>6. version \in 1..MaxEvents /\ version <= n
  <2>1. CASE continues
    <3>1. head.version \in Nat /\ head.version <= checkpoint
      BY <2>1, <1>4, <1>1
    <3>2. head.version + 1 \in 1..MaxEvents /\ head.version + 1 <= n
      BY <3>1, <1>1, <1>2
    <3> QED
      BY <3>2, <2>1
  <2>2. CASE ~continues
    BY <2>2, <1>1, <1>2
  <2> QED
    BY <2>1, <2>2
<1>7. \A t \in snapshots : t.epoch = epoch => t.algorithm = algorithm
  <2>1. CASE head = None
    BY <2>1, <1>1, <1>2 DEF HeadKnown
  <2>2. CASE head # None /\ head.algorithm # algorithm
    <3>1. epoch = [kind |-> "algorithm", version |-> algorithm]
      BY <2>2 DEF CurrentEpoch
    <3>2. epoch.kind = "algorithm" /\ epoch.version = algorithm
      BY <3>1
    <3> HIDE DEF epoch
    <3> QED
      BY <3>2, <1>1 DEF SnapshotsKnown
  <2>3. CASE head # None /\ head.algorithm = algorithm
    <3>1. epoch = head.epoch
      BY <2>3 DEF CurrentEpoch
    <3> HIDE DEF epoch
    <3> QED
      BY <3>1, <2>3, <1>1, <1>4 DEF OneAlgorithmPerEpoch
  <2> QED
    BY <2>1, <2>2, <2>3
<1>8. (epoch.kind = "algorithm" => algorithm = epoch.version)
      /\ (epoch.kind = "replay" => \E t \in snapshots : t.epoch = epoch)
  <2>1. CASE head = None
    BY <2>1 DEF CurrentEpoch
  <2>2. CASE head # None /\ head.algorithm # algorithm
    BY <2>2 DEF CurrentEpoch
  <2>3. CASE head # None /\ head.algorithm = algorithm
    <3>1. epoch = head.epoch
      BY <2>3 DEF CurrentEpoch
    <3> HIDE DEF epoch
    <3> QED
      BY <3>1, <2>3, <1>1, <1>4 DEF SnapshotsKnown
  <2> QED
    BY <2>1, <2>2, <2>3
<1>9. PICK dropped \in BOOLEAN : dropped = (~FALSE /\ Late(n) # {})
  OBVIOUS
<1>10. dropped <=> Late(n) # {}
  BY <1>9
<1>11. s = [epoch |-> epoch, version |-> version, through |-> n, requiresReplay |-> dropped,
            algorithm |-> algorithm, edges |-> edges]
  BY <1>9 DEF Snapshot
<1>12. version = IF head # None /\ head.epoch = epoch THEN head.version + 1 ELSE 1
  OBVIOUS
<1> HIDE DEF epoch, edges, version, continues, s
<1> HIDE DEF n
<1>13. /\ epoch \in Epoch /\ version \in 1..MaxEvents /\ n \in 1..MaxEvents
       /\ dropped \in BOOLEAN /\ algorithm \in 1..2 /\ edges \in SUBSET Edge
  BY <1>1, <1>2, <1>3, <1>5, <1>6
<1>14. /\ s.epoch = epoch /\ s.version = version /\ s.through = n
       /\ s.requiresReplay = dropped /\ s.algorithm = algorithm /\ s.edges = edges
       /\ s \in Snapshots
  BY <1>11, <1>13, SnapshotFields
<1>15. n <= n /\ n <= Len(log) /\ n \in {checkpoint, checkpoint + 1}
  BY <1>1, <1>2
<1>16. ~dropped => {e.message : e \in edges} = {k \in 1..n : CountsIn(k, n)}
  BY <1>3, <1>10
<1>17. j.through = n
  BY DEF n
<1>18. /\ s.through \in {checkpoint, checkpoint + 1} /\ s.through <= Len(log)
       /\ j.through <= s.through /\ s.version <= s.through
  BY <1>6, <1>14, <1>15, <1>17
<1>19. s.version = IF head # None /\ head.epoch = s.epoch THEN head.version + 1 ELSE 1
  BY <1>12, <1>14
<1>20. /\ \A t \in snapshots : t.epoch = s.epoch => t.algorithm = s.algorithm
       /\ s.epoch.kind = "algorithm" => s.algorithm = s.epoch.version
       /\ s.epoch.kind = "replay" => \E t \in snapshots : t.epoch = s.epoch
  BY <1>7, <1>8, <1>14
<1>21. ~s.requiresReplay =>
         {e.message : e \in s.edges} = {k \in 1..s.through : CountsIn(k, s.through)}
  BY <1>14, <1>16
<1>22. Installable(j, s)
  BY <1>14, <1>18, <1>19, <1>20, <1>21 DEF Installable
<1>23. s.requiresReplay => Late(n) # {}
  BY <1>10, <1>14
<1> QED
  BY <1>2, <1>14, <1>17, <1>22, <1>23 DEF s, epoch, edges, n

\* A consume: passed already, out of order, invalid, or the next snapshot.
LEMMA ConsumeStep ==
    ASSUME PInv, NEW j \in jobs, Runnable(j), j.type = "consume", Consume(j),
           UNCHANGED <<log, algorithm, deploys, crashes>>
    PROVE  PInv'
<1> DEFINE n == j.through
           map == Map(n, FALSE)
           s == Snapshot(n, CurrentEpoch, FALSE, map.edges)
           requests == IF s.requiresReplay THEN {LateReplay(n)} ELSE {}
<1>1. /\ j \in Jobs /\ j.status = "queued" /\ crashes' \in 0..MaxCrashes
      /\ checkpoint \in Nat /\ n \in Nat /\ Len(log) \in Nat /\ Len(log) <= MaxEvents /\ MaxEvents \in Nat
      /\ n <= Len(log) /\ n \in 1..MaxEvents
  BY LenProperties, ProjectionAssumption DEF PInv, ProjectionTypeOK, StreamKnown, Runnable, Jobs
<1>2. CASE Raise(j)
  BY <1>1, <1>2, RaiseStep
<1>3. CASE checkpoint >= n /\ Complete(j)
  <2> DEFINE z == [j EXCEPT !.status = "succeeded"]
  <2>1. /\ z \in Jobs /\ z.type = j.type /\ z.reason = j.reason /\ z.source = j.source
        /\ z.through = j.through /\ z.status = "succeeded"
    BY <1>1 DEF Jobs
  <2>2. jobs' = (jobs \ {j}) \cup {z} /\ UNCHANGED <<checkpoint, storeVars>>
    BY <1>3 DEF Complete
  <2>3. n <= checkpoint
    BY <1>1, <1>3
  <2> HIDE DEF z
  <2> QED
    BY <2>1, <2>2, <2>3, <1>1, JobStep
<1>4. CASE /\ checkpoint + 1 = n /\ map.valid /\ Persistable(s)
           /\ \A r \in requests : ~Conflicting(r)
           /\ Install(j, s, requests)
  <2>1. /\ Installable(j, s) /\ s.through = checkpoint + 1
        /\ s.requiresReplay => Late(n) # {}
    BY <1>4, ConsumeInstalls
  <2>2. Requested(j, s, requests)
    <3>1. CASE s.requiresReplay
      <4> DEFINE r == LateReplay(n)
                 source == CHOOSE k \in Late(n) : \A l \in Late(n) : k <= l
      <4>1. Late(n) \subseteq 1..n /\ Late(n) # {}
        BY <2>1, <3>1 DEF Late, Semantic
      <4>2. Late(n) \in SUBSET Nat
        BY <4>1, <1>1
      <4>3. source \in Late(n)
        BY <4>1, <4>2, SmallestNumber
      <4>4. source \in 1..MaxEvents /\ source <= Len(log)
        BY <4>1, <4>3, <1>1, SMTT(30)
      <4>5. r = Job("replay", "late_event", source, n)
        BY DEF LateReplay
      <4> HIDE DEF source
      <4>6. 0 \in 0..MaxAttempts
        BY ProjectionAssumption
      <4>7. /\ r \in Jobs /\ r.type = "replay" /\ r.reason = "late_event"
            /\ r.status = "queued" /\ r.attempts = 0 /\ r.source = source /\ r.through = n
        BY <1>1, <4>4, <4>5, <4>6 DEF Job, Jobs
      <4>8. requests = {r}
        BY <3>1
      <4>9. ~Conflicting(r)
        BY <4>8, <1>4
      <4> HIDE DEF r, requests
      <4> QED
        BY <3>1, <4>4, <4>7, <4>8, <4>9, <2>1, <1>4 DEF Requested
    <3>2. CASE ~s.requiresReplay
      BY <3>2 DEF Requested
    <3> QED
      BY <3>1, <3>2
  <2> HIDE DEF s, requests, map, n
  <2> QED
    BY <2>1, <2>2, <1>1, <1>4, InstallStep
<1>5. \/ Raise(j)
      \/ checkpoint >= n /\ Complete(j)
      \/ /\ checkpoint + 1 = n /\ map.valid /\ Persistable(s)
         /\ \A r \in requests : ~Conflicting(r)
         /\ Install(j, s, requests)
  BY DEF Consume, Materialize
<1> QED
  BY <1>2, <1>3, <1>4, <1>5

\* A replay: ahead of the cursor, invalid, or the first snapshot of an epoch of its
\* own.  The epoch of a job still queued has no snapshot, so the head is never in it.
LEMMA ReplayStep ==
    ASSUME PInv, NEW j \in jobs, Runnable(j), j.type = "replay", Replay(j),
           UNCHANGED <<log, algorithm, deploys, crashes>>
    PROVE  PInv'
<1> DEFINE n == checkpoint
           epoch == [kind |-> "replay", reason |-> j.reason, source |-> j.source]
           map == Map(n, TRUE)
           s == Snapshot(n, epoch, TRUE, map.edges)
           requests == IF s.requiresReplay THEN {LateReplay(n)} ELSE {}
<1>1. /\ j \in Jobs /\ j.status = "queued" /\ crashes' \in 0..MaxCrashes
      /\ log \in Seq(Entries) /\ Len(log) <= MaxEvents /\ Len(log) \in Nat /\ MaxEvents \in Nat
      /\ n \in 0..Len(log) /\ n \in Nat /\ algorithm \in 1..2
      /\ head \in snapshots \cup {None} /\ snapshots \subseteq Snapshots
      /\ HeadKnown /\ SnapshotsKnown /\ StreamKnown
  BY LenProperties, ProjectionAssumption DEF PInv, ProjectionTypeOK, Runnable
<1>2. CASE Raise(j)
  BY <1>1, <1>2, RaiseStep
<1>3. epoch.kind = "replay" /\ epoch.reason = j.reason /\ epoch.source = j.source
  OBVIOUS
<1>4. epoch \in Epoch
  <2>1. j.reason \in {"late_event", "analytics_review"} /\ j.source \in 1..MaxEvents
    BY <1>1 DEF StreamKnown, Jobs
  <2> QED
    BY <2>1 DEF Epoch
<1>5. \A t \in snapshots : t.epoch # epoch
  <2> SUFFICES ASSUME NEW t \in snapshots, t.epoch = epoch PROVE FALSE
    OBVIOUS
  <2>1. t.epoch.kind = "replay" /\ t.epoch.reason = j.reason /\ t.epoch.source = j.source
    BY <1>3
  <2> HIDE DEF epoch
  <2>2. PICK i \in jobs : /\ i.type = "replay" /\ i.status = "succeeded"
                          /\ i.reason = j.reason /\ i.source = j.source
    BY <2>1, <1>1 DEF SnapshotsKnown
  <2>3. i = j
    BY <2>2, <1>1 DEF StreamKnown
  <2> QED
    BY <2>2, <2>3, <1>1
<1>6. CASE ~(n < j.through)
  <2>1. n \in 1..MaxEvents /\ j.through <= n /\ 0 < n
    BY <1>1, <1>6 DEF Jobs
  <2>2. head # None /\ head \in snapshots
    BY <2>1, <1>1 DEF HeadKnown
  <2>3. head.epoch # epoch
    BY <2>2, <1>5
  <2>4. Materialize(j, n, epoch, TRUE)
    BY <1>6, <2>3 DEF Replay
  <2>5. CASE /\ map.valid /\ Persistable(s)
             /\ \A r \in requests : ~Conflicting(r)
             /\ Install(j, s, requests)
    <3> DEFINE edges == map.edges
    <3>1. /\ edges \in SUBSET Edge
          /\ {e.message : e \in edges} = {k \in 1..n : CountsIn(k, n)}
      BY <1>1, <2>5, MapFacts
    <3>2. PICK dropped \in BOOLEAN : dropped = (~TRUE /\ Late(n) # {})
      OBVIOUS
    <3>3. ~dropped
      BY <3>2
    <3>4. s = [epoch |-> epoch, version |-> 1, through |-> n, requiresReplay |-> dropped,
               algorithm |-> algorithm, edges |-> edges]
      BY <2>3, <3>2 DEF Snapshot
    <3> HIDE DEF edges, s, epoch, requests
    <3>5. 1 \in 1..MaxEvents /\ 1 <= n
      BY <2>1, <1>1
    <3>6. /\ s.epoch = epoch /\ s.version = 1 /\ s.through = n
          /\ s.requiresReplay = dropped /\ s.algorithm = algorithm /\ s.edges = edges
          /\ s \in Snapshots
      <4>1. /\ epoch \in Epoch /\ 1 \in 1..MaxEvents /\ n \in 1..MaxEvents
            /\ dropped \in BOOLEAN /\ algorithm \in 1..2 /\ edges \in SUBSET Edge
        BY <1>1, <1>4, <2>1, <3>1, <3>5
      <4> HIDE DEF n
      <4> QED
        BY <4>1, <3>4, SnapshotFields
    <3>7. ~s.requiresReplay
      BY <3>3, <3>6
    <3>8. requests = {}
      BY <3>7 DEF requests
    <3>9. Requested(j, s, requests)
      BY <3>7, <3>8 DEF Requested
    <3>10. /\ s.through \in {checkpoint, checkpoint + 1} /\ s.through <= Len(log)
           /\ j.through <= s.through /\ s.version <= s.through
      BY <3>5, <3>6, <2>1, <1>1
    <3>11. s.version = IF head # None /\ head.epoch = s.epoch THEN head.version + 1 ELSE 1
      BY <3>6, <2>3
    <3>12. /\ \A t \in snapshots : t.epoch = s.epoch => t.algorithm = s.algorithm
           /\ s.epoch.kind = "algorithm" => s.algorithm = s.epoch.version
           /\ j.type = "replay" /\ j.reason = s.epoch.reason /\ j.source = s.epoch.source
      BY <3>6, <1>3, <1>5
    <3>13. {e.message : e \in s.edges} = {k \in 1..s.through : CountsIn(k, s.through)}
      BY <3>1, <3>6
    <3>14. Installable(j, s)
      BY <3>6, <3>10, <3>11, <3>12, <3>13 DEF Installable
    <3> QED
      BY <3>9, <3>14, <2>5, <1>1, InstallStep
  <2> QED
    BY <2>4, <2>5, <1>2 DEF Materialize
<1>7. CASE n < j.through
  BY <1>2, <1>7 DEF Replay
<1> QED
  BY <1>6, <1>7

-----------------------------------------------------------------------------
(* The theorem.                                                            *)

\* A lost attempt.
LEMMA CrashStep == ASSUME PInv, Crash PROVE PInv'
<1>1. PICK j \in jobs : Runnable(j) /\ Raise(j)
  BY DEF Crash
<1>2. UNCHANGED <<log, algorithm, deploys>>
  BY DEF Crash
<1>3. crashes' \in 0..MaxCrashes
  BY ProjectionAssumption DEF Crash, PInv, ProjectionTypeOK
<1> QED
  BY <1>1, <1>2, <1>3, RaiseStep

\* A deployment changes what the next consume installs and nothing that is stored.
LEMMA DeployStep == ASSUME PInv, Deploy PROVE PInv'
<1>1. /\ ProjectionTypeOK /\ StreamKnown /\ HeadKnown /\ SnapshotsKnown /\ ReviewsKnown
      /\ OneReviewPerHead /\ ReplayOwed /\ HeadExact
      /\ PatchesRebuildSnapshots /\ OneAlgorithmPerEpoch
  BY DEF PInv
<1>2. /\ log' = log /\ checkpoint' = checkpoint /\ head' = head /\ snapshots' = snapshots
      /\ patches' = patches /\ jobs' = jobs /\ crashes' = crashes
  BY DEF Deploy, storeVars
<1>3. algorithm' \in 1..2 /\ deploys' \in 0..MaxDeploys
  BY <1>1, ProjectionAssumption DEF Deploy, ProjectionTypeOK
<1>4. ProjectionTypeOK'
  BY <1>1, <1>2, <1>3 DEF ProjectionTypeOK
<1>5. PatchesRebuildSnapshots' /\ OneAlgorithmPerEpoch' /\ OneReviewPerHead' /\ ReviewsKnown'
  BY <1>1, <1>2 DEF PatchesRebuildSnapshots, OneAlgorithmPerEpoch, EdgesAt, OneReviewPerHead,
                    ReviewsKnown
<1>6. HeadKnown' /\ HeadExact'
  BY <1>1, <1>2 DEF HeadKnown, HeadExact, CountsIn, Suppressed
<1>7. ReplayOwed' /\ SnapshotsKnown' /\ StreamKnown'
  BY <1>1, <1>2 DEF ReplayOwed, SnapshotsKnown, StreamKnown
<1> QED
  BY <1>4, <1>5, <1>6, <1>7 DEF PInv

\* A step that changes nothing.
LEMMA ProjectionStutter == ASSUME PInv, UNCHANGED vars PROVE PInv'
<1>1. /\ ProjectionTypeOK /\ StreamKnown /\ HeadKnown /\ SnapshotsKnown /\ ReviewsKnown
      /\ OneReviewPerHead /\ ReplayOwed /\ HeadExact
      /\ PatchesRebuildSnapshots /\ OneAlgorithmPerEpoch
  BY DEF PInv
<1>2. /\ log' = log /\ checkpoint' = checkpoint /\ head' = head /\ snapshots' = snapshots
      /\ patches' = patches /\ jobs' = jobs /\ crashes' = crashes
      /\ algorithm' = algorithm /\ deploys' = deploys
  BY DEF vars
<1>3. ProjectionTypeOK'
  BY <1>1, <1>2 DEF ProjectionTypeOK
<1>4. PatchesRebuildSnapshots' /\ OneAlgorithmPerEpoch' /\ OneReviewPerHead' /\ ReviewsKnown'
  BY <1>1, <1>2 DEF PatchesRebuildSnapshots, OneAlgorithmPerEpoch, EdgesAt, OneReviewPerHead,
                    ReviewsKnown
<1>5. HeadKnown' /\ HeadExact'
  BY <1>1, <1>2 DEF HeadKnown, HeadExact, CountsIn, Suppressed
<1>6. ReplayOwed' /\ SnapshotsKnown' /\ StreamKnown'
  BY <1>1, <1>2 DEF ReplayOwed, SnapshotsKnown, StreamKnown
<1> QED
  BY <1>3, <1>4, <1>5, <1>6 DEF PInv

\* A stream that has run dry is at the end of the log: its last consume succeeded, and
\* the replay a late event is owed has too, so the head dropped nothing.
LEMMA QuietIsComplete == PInv => QuietMeansComplete
<1> SUFFICES ASSUME PInv, head # None, \A j \in jobs : j.status = "succeeded"
             PROVE  /\ head.through = Len(log)
                    /\ {e.message : e \in head.edges} = {k \in DOMAIN log : Counts(k)}
  BY DEF QuietMeansComplete
<1>1. /\ log \in Seq(Entries) /\ Len(log) \in Nat /\ DOMAIN log = 1..Len(log)
      /\ checkpoint \in 0..Len(log) /\ head \in snapshots
      /\ HeadKnown /\ StreamKnown /\ ReplayOwed /\ HeadExact
  BY LenProperties DEF PInv, ProjectionTypeOK
<1>2. checkpoint = Len(log)
  <2>1. CASE Len(log) = 0
    BY <2>1, <1>1
  <2>2. CASE Len(log) # 0
    <3>1. Len(log) \in 1..Len(log)
      BY <2>2, <1>1
    <3>2. PICK j \in jobs : j.through = Len(log)
      BY <3>1, <1>1 DEF StreamKnown
    <3>3. Len(log) <= checkpoint
      <4>1. j.status = "succeeded" => j.through <= checkpoint
        BY <1>1 DEF StreamKnown
      <4> QED
        BY <3>2, <4>1
    <3>4. checkpoint \in 0..Len(log) /\ Len(log) \in Nat
      BY <1>1
    <3> QED
      BY <3>3, <3>4
  <2> QED
    BY <2>1, <2>2
<1>3. head.through = Len(log)
  BY <1>1, <1>2 DEF HeadKnown
<1>4. ~head.requiresReplay
  BY <1>1 DEF ReplayOwed
<1>5. {e.message : e \in head.edges} = {k \in 1..Len(log) : CountsIn(k, Len(log))}
  BY <1>1, <1>3, <1>4 DEF HeadExact
<1>6. ASSUME NEW k \in 1..Len(log) PROVE Counts(k) <=> CountsIn(k, Len(log))
  <2>1. ASSUME NEW r \in 1..Len(log)
        PROVE  (CASE log[r].type = "retract" -> log[r].target = k => r \in Suppressed(Len(log))
                  [] log[r].type = "review"  -> log[r].kind = "drop" => log[r].target.message # k
                  [] OTHER -> TRUE)
               <=> /\ log[r].type = "retract" /\ log[r].target = k => r \in Suppressed(Len(log))
                   /\ log[r].type = "review" /\ log[r].kind = "drop" => log[r].target.message # k
    <3>1. CASE log[r].type = "retract"
      BY <3>1
    <3>2. CASE log[r].type = "review"
      BY <3>2
    <3>3. CASE log[r].type # "retract" /\ log[r].type # "review"
      BY <3>3
    <3> QED
      BY <3>1, <3>2, <3>3
  <2> QED
    BY <2>1, <1>1 DEF Counts, CountsIn
<1> QED
  BY <1>1, <1>3, <1>5, <1>6

\* What is published can be rebuilt from its patches, belongs to one algorithm per
\* epoch, owes the replays it lost, admits one review per projection, and is complete
\* when the worker is quiet, for any number of events, attempts, crashes and deployments.
THEOREM ProjectionIsSafe == ProjectionSpec => []ProjectionSafe
<1>1. PInv /\ [Next]_vars => PInv'
  <2> SUFFICES ASSUME PInv, [Next]_vars PROVE PInv'
    OBVIOUS
  <2>1. CASE \E t \in Times : Message(t)
    BY <2>1, MessageStep
  <2>2. CASE \E k \in DOMAIN log, t \in Times : Retract(k, t)
    BY <2>2, RetractStep
  <2>3. CASE OtherEvent
    BY <2>3, OtherStep
  <2>4. CASE \E kind \in Reviews, s \in snapshots : Review(kind, s.epoch, s.version)
    BY <2>4, ReviewStep
  <2>5. CASE Work
    <3>1. PICK j \in jobs : Runnable(j) /\ Handle(j)
      BY <2>5 DEF Work
    <3>2. UNCHANGED <<log, algorithm, deploys, crashes>>
      BY <2>5 DEF Work
    <3>3. j.type \in {"consume", "replay"}
      BY DEF PInv, ProjectionTypeOK, Jobs
    <3>4. CASE j.type = "consume"
      BY <3>1, <3>2, <3>4, ConsumeStep DEF Handle
    <3>5. CASE j.type = "replay"
      BY <3>1, <3>2, <3>5, ReplayStep DEF Handle
    <3> QED
      BY <3>3, <3>4, <3>5
  <2>6. CASE Crash
    BY <2>6, CrashStep
  <2>7. CASE Deploy
    BY <2>7, DeployStep
  <2>8. CASE UNCHANGED vars
    BY <2>8, ProjectionStutter
  <2> QED
    BY <2>1, <2>2, <2>3, <2>4, <2>5, <2>6, <2>7, <2>8 DEF Next
<1>2. PInv => ProjectionSafe
  BY QuietIsComplete DEF PInv, ProjectionSafe
<1> QED
  BY <1>1, <1>2, ProjectionInit, PTL DEF ProjectionSpec

-----------------------------------------------------------------------------
(* A room's export.  Each row is read back as it was written, so the       *)
(* validation of a whole text accepts it and of a cut one almost never.     *)

-----------------------------------------------------------------------------
(* The loops of the export, as sequences of states.                        *)

\* One turn of a loop: the ordered reading of a table, the joining of texts, the
\* parser over the symbols, the validation over the records.
Turn(loop, s, i, x) ==
    CASE loop = "order" -> IF i \in x THEN Append(s, i) ELSE s
      [] loop = "join"  -> IF i = 1 THEN x[1] ELSE s \o x[i]
      [] loop = "parse" -> ParseSymbol(s, x, i)
      [] loop = "file"  -> Filed(s, x[i])

\* f holds the states after 0, 1, ... last turns.
Turns(f, loop, base, x, last) ==
    f = [i \in 0 .. last |-> IF i = 0 THEN base ELSE Turn(loop, f[i - 1], i, x)]

\* Such a function exists, for every number of turns.
LEMMA TurnsExist ==
    ASSUME NEW loop, NEW base, NEW x, NEW last \in Nat
    PROVE  \E f : Turns(f, loop, base, x, last)
<1> DEFINE T == {m \in Nat : ~ \E f : Turns(f, loop, base, x, m)}
<1>1. SUFFICES ASSUME T # {} PROVE FALSE
  OBVIOUS
<1>2. PICK m \in T : \A y \in T : m <= y
  BY <1>1, SmallestNumber
<1>3. CASE m = 0
  <2> DEFINE f == [k \in 0 .. 0 |-> base]
  <2>1. \A k \in 0 .. 0 : k = 0
    OBVIOUS
  <2>2. f = [k \in 0 .. 0 |-> IF k = 0 THEN base ELSE Turn(loop, f[k - 1], k, x)]
    BY <2>1
  <2>3. Turns(f, loop, base, x, 0)
    BY <2>2 DEF Turns
  <2> QED
    BY <2>3, <1>2, <1>3
<1>4. CASE m # 0
  <2>1. m \in Nat /\ m - 1 \in Nat /\ ~(m <= m - 1)
    BY <1>2, <1>4
  <2>2. PICK g : Turns(g, loop, base, x, m - 1)
    BY <2>1, <1>2
  <2> DEFINE f == [k \in 0 .. m |-> IF k = m THEN Turn(loop, g[m - 1], m, x) ELSE g[k]]
  <2>3. ASSUME NEW k \in 0 .. m
        PROVE  f[k] = IF k = 0 THEN base ELSE Turn(loop, f[k - 1], k, x)
    <3>1. CASE k = m
      <4>1. m - 1 \in 0 .. m /\ m - 1 # m
        BY <2>1
      <4>2. f[m - 1] = g[m - 1]
        BY <4>1
      <4> QED
        BY <4>2, <3>1, <1>4
    <3>2. CASE k # m
      <4>1. k \in 0 .. m - 1
        BY <3>2, <2>1
      <4>2. g[k] = IF k = 0 THEN base ELSE Turn(loop, g[k - 1], k, x)
        BY <4>1, <2>2 DEF Turns
      <4>3. k # 0 => k - 1 \in 0 .. m /\ k - 1 # m
        BY <4>1, <2>1
      <4>4. k # 0 => f[k - 1] = g[k - 1]
        BY <4>3
      <4> QED
        BY <4>2, <4>4, <3>2
    <3> QED
      BY <3>1, <3>2
  <2> HIDE DEF f
  <2>4. f = [k \in 0 .. m |-> f[k]]
    BY DEF f
  <2>5. Turns(f, loop, base, x, m)
    BY <2>3, <2>4 DEF Turns
  <2> QED
    BY <2>5, <1>2
<1> QED
  BY <1>3, <1>4

\* The first and the next state of a loop.
LEMMA TurnsFacts ==
    ASSUME NEW f, NEW loop, NEW base, NEW x, NEW last \in Nat, Turns(f, loop, base, x, last)
    PROVE  /\ f[0] = base
           /\ \A i \in 1 .. last : f[i] = Turn(loop, f[i - 1], i, x)
  BY DEF Turns

\* The table read in order is the last state of its loop.
LEMMA OrderTurns ==
    ASSUME NEW S, NEW n \in Nat
    PROVE  \E f : Turns(f, "order", << >>, S, n) /\ Ascending(S, n) = f[n]
<1> DEFINE g == CHOOSE s : s = [i \in 0 .. n |-> IF i = 0 THEN << >>
                                                ELSE IF i \in S THEN Append(s[i - 1], i) ELSE s[i - 1]]
<1>1. \A s, i : Turn("order", s, i, S) = IF i \in S THEN Append(s, i) ELSE s
  BY DEF Turn
<1>2. \E f : f = [i \in 0 .. n |-> IF i = 0 THEN << >>
                                  ELSE IF i \in S THEN Append(f[i - 1], i) ELSE f[i - 1]]
  <2>1. PICK f : Turns(f, "order", << >>, S, n)
    BY TurnsExist
  <2>2. f = [i \in 0 .. n |-> IF i = 0 THEN << >>
                             ELSE IF i \in S THEN Append(f[i - 1], i) ELSE f[i - 1]]
    BY <2>1, <1>1 DEF Turns
  <2> QED
    BY <2>2
<1>3. g = [i \in 0 .. n |-> IF i = 0 THEN << >>
                           ELSE IF i \in S THEN Append(g[i - 1], i) ELSE g[i - 1]]
  BY <1>2
<1>4. Ascending(S, n) = g[n]
  BY DEF Ascending
<1> HIDE DEF g
<1>5. Turns(g, "order", << >>, S, n)
  BY <1>1, <1>3 DEF Turns
<1> QED
  BY <1>4, <1>5

\* So is a joined text,
LEMMA JoinTurns ==
    ASSUME NEW x, Len(x) \in Nat \ {0}
    PROVE  \E f : /\ f[1] = x[1] /\ \A i \in 2 .. Len(x) : f[i] = f[i - 1] \o x[i]
                  /\ FlattenSeq(x) = f[Len(x)]
<1> DEFINE N == Len(x)
           g == CHOOSE h : h = [i \in 1 .. N |-> IF i = 1 THEN x[i] ELSE h[i - 1] \o x[i]]
<1>1. \A s, i : Turn("join", s, i, x) = IF i = 1 THEN x[1] ELSE s \o x[i]
  BY DEF Turn
<1>2. \E h : h = [i \in 1 .. N |-> IF i = 1 THEN x[i] ELSE h[i - 1] \o x[i]]
  <2>1. PICK f : Turns(f, "join", << >>, x, N)
    BY TurnsExist
  <2>2. ASSUME NEW i \in 1 .. N
        PROVE  f[i] = IF i = 1 THEN x[i] ELSE f[i - 1] \o x[i]
    <3>1. f[i] = Turn("join", f[i - 1], i, x)
      BY <2>1, TurnsFacts
    <3> QED
      BY <3>1, <1>1, Zenon
  <2> DEFINE h == [i \in 1 .. N |-> f[i]]
  <2>3. \A i \in 1 .. N : h[i] = IF i = 1 THEN x[i] ELSE h[i - 1] \o x[i]
    <3> SUFFICES ASSUME NEW i \in 1 .. N
                 PROVE  h[i] = IF i = 1 THEN x[i] ELSE h[i - 1] \o x[i]
      OBVIOUS
    <3>1. i # 1 => i - 1 \in 1 .. N
      OBVIOUS
    <3>2. i # 1 => h[i - 1] = f[i - 1]
      BY <3>1
    <3> QED
      BY <3>2, <2>2
  <2> HIDE DEF h
  <2>4. h = [i \in 1 .. N |-> h[i]]
    BY DEF h
  <2>5. h = [i \in 1 .. N |-> IF i = 1 THEN x[i] ELSE h[i - 1] \o x[i]]
    BY <2>3, <2>4
  <2> QED
    BY <2>5
<1>3. g = [i \in 1 .. N |-> IF i = 1 THEN x[i] ELSE g[i - 1] \o x[i]]
  BY <1>2
<1>4. FlattenSeq(x) = g[N]
  BY DEF FlattenSeq
<1> HIDE DEF g
<1>5. g[1] = x[1] /\ \A i \in 2 .. N : g[i] = g[i - 1] \o x[i]
  <2>1. 1 \in 1 .. N /\ \A i \in 2 .. N : i \in 1 .. N /\ i # 1
    OBVIOUS
  <2>2. ASSUME NEW i \in 1 .. N
        PROVE  g[i] = IF i = 1 THEN x[i] ELSE g[i - 1] \o x[i]
    BY <1>3, Zenon
  <2> QED
    BY <2>1, <2>2, Zenon
<1> QED
  BY <1>4, <1>5

\* what the parser returns: its verdict and its records, from its last state e,
Outcome(e) == [ok |-> /\ ~e.bad
                      /\ ~e.quoted /\ ~e.after /\ ~e.started /\ e.field = << >> /\ e.row = << >>,
               records |-> e.records]

LEMMA ParseTurns ==
    ASSUME NEW x, Len(x) \in Nat
    PROVE  \E f : /\ Turns(f, "parse", ParserStart, x, Len(x))
                  /\ \A text : Tail(text) = x => ParseCsvRecords(text) = Outcome(f[Len(x)])
<1> DEFINE g == CHOOSE s : s = [i \in 0 .. Len(x) |-> IF i = 0 THEN ParserStart
                                                     ELSE ParseSymbol(s[i - 1], x, i)]
<1>1. \A s, i : Turn("parse", s, i, x) = ParseSymbol(s, x, i)
  BY DEF Turn
<1>2. \E f : f = [i \in 0 .. Len(x) |-> IF i = 0 THEN ParserStart ELSE ParseSymbol(f[i - 1], x, i)]
  <2>1. PICK f : Turns(f, "parse", ParserStart, x, Len(x))
    BY TurnsExist
  <2>2. f = [i \in 0 .. Len(x) |-> IF i = 0 THEN ParserStart ELSE ParseSymbol(f[i - 1], x, i)]
    BY <2>1, <1>1 DEF Turns
  <2> QED
    BY <2>2
<1>3. g = [i \in 0 .. Len(x) |-> IF i = 0 THEN ParserStart ELSE ParseSymbol(g[i - 1], x, i)]
  BY <1>2
<1>4. ASSUME NEW text, Tail(text) = x
      PROVE  ParseCsvRecords(text) = Outcome(g[Len(x)])
  BY <1>4 DEF ParseCsvRecords, Outcome
<1> HIDE DEF g
<1>5. Turns(g, "parse", ParserStart, x, Len(x))
  BY <1>1, <1>3 DEF Turns
<1> QED
  BY <1>4, <1>5

\* and what the validation files.
LEMMA FileTurns ==
    ASSUME NEW x, Len(x) \in Nat
    PROVE  \E f : /\ Turns(f, "file", [type \in DOMAIN RecordTypes |-> << >>], x, Len(x))
                  /\ FiledRecords(x) = f[Len(x)]
<1> DEFINE base == [type \in DOMAIN RecordTypes |-> << >>]
           g == CHOOSE s : s = [i \in 0 .. Len(x) |-> IF i = 0 THEN base ELSE Filed(s[i - 1], x[i])]
<1>1. \A s, i : Turn("file", s, i, x) = Filed(s, x[i])
  BY DEF Turn
<1>4. FiledRecords(x) = g[Len(x)]
  BY DEF FiledRecords
<1> HIDE DEF base
<1>2. \E f : f = [i \in 0 .. Len(x) |-> IF i = 0 THEN base ELSE Filed(f[i - 1], x[i])]
  <2>1. PICK f : Turns(f, "file", base, x, Len(x))
    BY TurnsExist
  <2>2. f = [i \in 0 .. Len(x) |-> IF i = 0 THEN base ELSE Filed(f[i - 1], x[i])]
    BY <2>1, <1>1 DEF Turns
  <2> QED
    BY <2>2
<1>3. g = [i \in 0 .. Len(x) |-> IF i = 0 THEN base ELSE Filed(g[i - 1], x[i])]
  BY <1>2
<1> HIDE DEF g
<1>5. Turns(g, "file", base, x, Len(x))
  BY <1>1, <1>3 DEF Turns
<1> QED
  BY <1>4, <1>5 DEF base

-----------------------------------------------------------------------------
(* What the server writes.                                                 *)

\* s spells k symbols of t, from its place a on.
Spells(s, t, a, k) == s \in Seq(Nat) /\ Len(s) = k /\ \A i \in 1 .. k : s[i] = t[a + i]

Joins(v, s, u) == v = s \o u

\* What a joined text holds.
Joined(v, s, u, S) ==
    /\ v \in Seq(S) /\ Len(v) = Len(s) + Len(u)
    /\ \A i \in 1 .. Len(s) + Len(u) : v[i] = IF i <= Len(s) THEN s[i] ELSE u[i - Len(s)]

LEMMA JoinsFacts ==
    ASSUME NEW S, NEW s \in Seq(S), NEW u \in Seq(S), NEW v, Joins(v, s, u)
    PROVE  Joined(v, s, u, S)
<1>1. v = s \o u
  BY DEF Joins
<1>2. /\ s \o u \in Seq(S) /\ Len(s \o u) = Len(s) + Len(u)
      /\ \A i \in 1 .. Len(s) + Len(u) : (s \o u)[i] = IF i <= Len(s) THEN s[i] ELSE u[i - Len(s)]
  BY ConcatProperties, Zenon
<1> QED
  BY <1>1, <1>2, Zenon DEF Joined

\* What is joined to it goes on spelling.
LEMMA SpellsMore ==
    ASSUME NEW s, NEW t, NEW a \in Nat, NEW k \in Nat, Spells(s, t, a, k),
           NEW u, NEW m \in Nat, NEW b, b = a + k, Spells(u, t, b, m),
           NEW v, Joins(v, s, u), NEW j, j = k + m
    PROVE  Spells(v, t, a, j)
<1>1. s \in Seq(Nat) /\ u \in Seq(Nat) /\ Len(s) = k /\ Len(u) = m
  BY DEF Spells
<1>2. /\ v \in Seq(Nat) /\ Len(v) = k + m
      /\ \A i \in 1 .. k + m : v[i] = IF i <= k THEN s[i] ELSE u[i - k]
  <2>1. Joined(v, s, u, Nat)
    BY <1>1, JoinsFacts
  <2> QED
    BY <1>1, <2>1 DEF Joined
<1>3. ASSUME NEW i \in 1 .. k + m
      PROVE  v[i] = t[a + i]
  <2>1. v[i] = IF i <= k THEN s[i] ELSE u[i - k]
    BY <1>2
  <2>2. CASE i <= k
    BY <2>1, <2>2 DEF Spells
  <2>3. CASE ~(i <= k)
    <3>1. i - k \in 1 .. m /\ b + (i - k) = a + i
      BY <2>3
    <3>2. u[i - k] = t[b + (i - k)]
      BY <3>1 DEF Spells
    <3> QED
      BY <2>1, <2>3, <3>1, <3>2
  <2> QED
    BY <2>2, <2>3
<1> QED
  BY <1>2, <1>3 DEF Spells

\* The symbols of a row of the export.
Line(t, n) == <<t, Comma, Quote, Brace, Quote, Quote, Identity(n), Quote, Quote, Comma,
                Quote, Quote, Quote, Quote, Brace, Quote, Newline>>

LEMMA LineFacts ==
    ASSUME NEW t, NEW n
    PROVE  /\ Line(t, n)[1] = t /\ Line(t, n)[2] = Comma /\ Line(t, n)[3] = Quote
           /\ Line(t, n)[4] = Brace /\ Line(t, n)[5] = Quote /\ Line(t, n)[6] = Quote
           /\ Line(t, n)[7] = Identity(n) /\ Line(t, n)[8] = Quote /\ Line(t, n)[9] = Quote
           /\ Line(t, n)[10] = Comma /\ Line(t, n)[11] = Quote /\ Line(t, n)[12] = Quote
           /\ Line(t, n)[13] = Quote /\ Line(t, n)[14] = Quote /\ Line(t, n)[15] = Brace
           /\ Line(t, n)[16] = Quote /\ Line(t, n)[17] = Newline
  BY DEF Line

LEMMA JsonFacts ==
    ASSUME NEW n \in Nat
    PROVE  /\ Json(n) \in Seq(Nat) /\ Len(Json(n)) = 8 /\ DOMAIN Json(n) = 1 .. 8
           /\ Json(n)[1] = Brace /\ Json(n)[2] = Quote /\ Json(n)[3] = Identity(n)
           /\ Json(n)[4] = Quote /\ Json(n)[5] = Comma /\ Json(n)[6] = Quote
           /\ Json(n)[7] = Quote /\ Json(n)[8] = Brace
<1>1. Identity(n) \in Nat /\ Brace \in Nat /\ Quote \in Nat /\ Comma \in Nat
  BY DEF Identity, Brace, Quote, Comma
<1> QED
  BY <1>1 DEF Json

\* One or two symbols.
LEMMA SpellsOne ==
    ASSUME NEW c \in Nat, NEW t, NEW a \in Nat, t[a + 1] = c
    PROVE  Spells(<<c>>, t, a, 1)
<1>1. <<c>> \in Seq(Nat) /\ Len(<<c>>) = 1 /\ <<c>>[1] = c
  OBVIOUS
<1>2. \A i \in 1 .. 1 : i = 1
  OBVIOUS
<1> QED
  BY <1>1, <1>2 DEF Spells

LEMMA SpellsTwo ==
    ASSUME NEW c \in Nat, NEW d \in Nat, NEW t, NEW a \in Nat, t[a + 1] = c, t[a + 2] = d
    PROVE  Spells(<<c, d>>, t, a, 2)
<1>1. <<c, d>> \in Seq(Nat) /\ Len(<<c, d>>) = 2 /\ <<c, d>>[1] = c /\ <<c, d>>[2] = d
  OBVIOUS
<1>2. \A i \in 1 .. 2 : i = 1 \/ i = 2
  OBVIOUS
<1> QED
  BY <1>1, <1>2 DEF Spells

\* csv() of a record's JSON is the quoted field of its row.
LEMMA CsvSpells ==
    ASSUME NEW t, NEW n \in Nat
    PROVE  Spells(Csv(Json(n)), Line(t, n), 2, 14)
<1> DEFINE J == Json(n)
           L == Line(t, n)
           x == [i \in DOMAIN J |-> IF J[i] = Quote THEN <<Quote, Quote>> ELSE <<J[i]>>]
<1>1. /\ J \in Seq(Nat) /\ Len(J) = 8 /\ DOMAIN J = 1 .. 8
      /\ J[1] = Brace /\ J[2] = Quote /\ J[3] = Identity(n) /\ J[4] = Quote /\ J[5] = Comma
      /\ J[6] = Quote /\ J[7] = Quote /\ J[8] = Brace
  BY JsonFacts
<1>2. Csv(J) = (<<Quote>> \o FlattenSeq(x)) \o <<Quote>>
  <2>1. Quote \in ToSet(J)
    BY <1>1 DEF ToSet
  <2>2. {Quote, Comma, Newline} \cap ToSet(J) # {}
    BY <2>1
  <2> HIDE DEF J
  <2> QED
    BY <2>2, Zenon DEF Csv
<1>3. /\ Identity(n) \in Nat /\ Brace \in Nat /\ Quote \in Nat /\ Comma \in Nat /\ Newline \in Nat
      /\ Brace # Quote /\ Comma # Quote /\ Identity(n) # Quote
  BY DEF Identity, Brace, Quote, Comma, Newline
<1>4. /\ L[3] = Quote /\ L[4] = Brace /\ L[5] = Quote /\ L[6] = Quote /\ L[7] = Identity(n)
      /\ L[8] = Quote /\ L[9] = Quote /\ L[10] = Comma /\ L[11] = Quote /\ L[12] = Quote
      /\ L[13] = Quote /\ L[14] = Quote /\ L[15] = Brace /\ L[16] = Quote
  BY LineFacts
<1> HIDE DEF J, L
<1>5. /\ Len(x) = 8
      /\ x[1] = <<Brace>> /\ x[2] = <<Quote, Quote>> /\ x[3] = <<Identity(n)>>
      /\ x[4] = <<Quote, Quote>> /\ x[5] = <<Comma>> /\ x[6] = <<Quote, Quote>>
      /\ x[7] = <<Quote, Quote>> /\ x[8] = <<Brace>>
  <2>1. x = [i \in 1 .. 8 |-> IF J[i] = Quote THEN <<Quote, Quote>> ELSE <<J[i]>>]
    BY <1>1
  <2>2. Len(x) = 8
    BY <2>1
  <2>3. ASSUME NEW i \in 1 .. 8
        PROVE  x[i] = IF J[i] = Quote THEN <<Quote, Quote>> ELSE <<J[i]>>
    BY <2>1
  <2> HIDE DEF x
  <2>4. x[1] = <<J[1]>> /\ x[3] = <<J[3]>> /\ x[5] = <<J[5]>> /\ x[8] = <<J[8]>>
    BY <2>3, <1>1, <1>3
  <2>5. /\ x[2] = <<Quote, Quote>> /\ x[4] = <<Quote, Quote>> /\ x[6] = <<Quote, Quote>>
        /\ x[7] = <<Quote, Quote>>
    BY <2>3, <1>1
  <2> QED
    BY <2>2, <2>4, <2>5, <1>1
<1> HIDE DEF x
<1>6. PICK f : /\ f[1] = x[1] /\ \A i \in 2 .. Len(x) : f[i] = f[i - 1] \o x[i]
               /\ FlattenSeq(x) = f[Len(x)]
  <2>1. Len(x) \in Nat \ {0}
    BY <1>5
  <2> QED
    BY <2>1, JoinTurns
<1>7. /\ Joins(f[2], f[1], x[2]) /\ Joins(f[3], f[2], x[3]) /\ Joins(f[4], f[3], x[4])
      /\ Joins(f[5], f[4], x[5]) /\ Joins(f[6], f[5], x[6]) /\ Joins(f[7], f[6], x[7])
      /\ Joins(f[8], f[7], x[8]) /\ FlattenSeq(x) = f[8]
  <2>1. /\ f[2] = f[2 - 1] \o x[2] /\ f[3] = f[3 - 1] \o x[3] /\ f[4] = f[4 - 1] \o x[4]
        /\ f[5] = f[5 - 1] \o x[5] /\ f[6] = f[6 - 1] \o x[6] /\ f[7] = f[7 - 1] \o x[7]
        /\ f[8] = f[8 - 1] \o x[8]
    <3>1. \A i \in 2 .. 8 : i \in 2 .. Len(x)
      BY <1>5
    <3>2. 2 \in 2 .. 8 /\ 3 \in 2 .. 8 /\ 4 \in 2 .. 8 /\ 5 \in 2 .. 8 /\ 6 \in 2 .. 8 /\ 7 \in 2 .. 8
          /\ 8 \in 2 .. 8
      OBVIOUS
    <3> QED
      BY <3>1, <3>2, <1>6, Zenon
  <2>2. 2 - 1 = 1 /\ 3 - 1 = 2 /\ 4 - 1 = 3 /\ 5 - 1 = 4 /\ 6 - 1 = 5 /\ 7 - 1 = 6 /\ 8 - 1 = 7
    OBVIOUS
  <2> QED
    BY <2>1, <2>2, <1>5, <1>6, Zenon DEF Joins
<1>8. /\ Spells(x[1], L, 3, 1) /\ Spells(x[2], L, 4, 2) /\ Spells(x[3], L, 6, 1)
      /\ Spells(x[4], L, 7, 2) /\ Spells(x[5], L, 9, 1) /\ Spells(x[6], L, 10, 2)
      /\ Spells(x[7], L, 12, 2) /\ Spells(x[8], L, 14, 1)
  <2>1. Spells(x[1], L, 3, 1) /\ Spells(x[2], L, 4, 2)
    BY <1>3, <1>4, <1>5, SpellsOne, SpellsTwo
  <2>2. Spells(x[3], L, 6, 1) /\ Spells(x[4], L, 7, 2)
    BY <1>3, <1>4, <1>5, SpellsOne, SpellsTwo
  <2>3. Spells(x[5], L, 9, 1) /\ Spells(x[6], L, 10, 2)
    BY <1>3, <1>4, <1>5, SpellsOne, SpellsTwo
  <2>4. Spells(x[7], L, 12, 2) /\ Spells(x[8], L, 14, 1)
    BY <1>3, <1>4, <1>5, SpellsOne, SpellsTwo
  <2> QED
    BY <2>1, <2>2, <2>3, <2>4
<1>9. Spells(f[1], L, 3, 1)
  BY <1>6, <1>8
<1>10. Spells(f[2], L, 3, 3)
  BY <1>7, <1>8, <1>9, SpellsMore
<1>11. Spells(f[3], L, 3, 4)
  BY <1>7, <1>8, <1>10, SpellsMore
<1>12. Spells(f[4], L, 3, 6)
  BY <1>7, <1>8, <1>11, SpellsMore
<1>13. Spells(f[5], L, 3, 7)
  BY <1>7, <1>8, <1>12, SpellsMore
<1>14. Spells(f[6], L, 3, 9)
  BY <1>7, <1>8, <1>13, SpellsMore
<1>15. Spells(f[7], L, 3, 11)
  BY <1>7, <1>8, <1>14, SpellsMore
<1>16. Spells(f[8], L, 3, 12)
  BY <1>7, <1>8, <1>15, SpellsMore
<1>17. Spells(<<Quote>>, L, 2, 1) /\ Spells(<<Quote>>, L, 15, 1)
  BY <1>3, <1>4, SpellsOne
<1>18. PICK y, z : Joins(y, <<Quote>>, FlattenSeq(x)) /\ Joins(z, y, <<Quote>>)
  BY Zenon DEF Joins
<1>19. Spells(y, L, 2, 13)
  BY <1>7, <1>16, <1>17, <1>18, SpellsMore
<1>20. Spells(z, L, 2, 14)
  BY <1>17, <1>18, <1>19, SpellsMore
<1>21. Csv(J) = z
  BY <1>2, <1>18, Zenon DEF Joins
<1> QED
  BY <1>20, <1>21 DEF J, L

Types == {"manifest", "event", "artifact", "projection", "artifact_provenance", "projection_provenance"}

\* A record type has a symbol of its own, which is none of the special ones.
LEMMA TypeFacts ==
    /\ DOMAIN RecordTypes = Types
    /\ \A t \in Types : RecordTypes[t] \in 5 .. 10 /\ RecordTypes[t] \in Nat
    /\ \A t, u \in Types : RecordTypes[t] = RecordTypes[u] => t = u
<1>1. DOMAIN RecordTypes = Types
  BY DEF RecordTypes, Types
<1>2. /\ RecordTypes["manifest"] = 5 /\ RecordTypes["event"] = 6 /\ RecordTypes["artifact"] = 7
      /\ RecordTypes["projection"] = 8 /\ RecordTypes["artifact_provenance"] = 9
      /\ RecordTypes["projection_provenance"] = 10
  BY DEF RecordTypes
<1> QED
  BY <1>1, <1>2 DEF Types

RowType == [type : Types, n : Nat]

\* The symbols of a row, from the row.
LineOf(entry) == Line(RecordTypes[entry.type], entry.n)

\* A row's text.
LEMMA RowSpells ==
    ASSUME NEW entry \in RowType
    PROVE  Spells(Row(entry), LineOf(entry), 0, 17)
<1> DEFINE t == RecordTypes[entry.type]
           L == LineOf(entry)
<1>1. t \in Nat /\ entry.n \in Nat /\ Comma \in Nat /\ Newline \in Nat
  BY TypeFacts DEF RowType, Comma, Newline
<1>2. L[1] = t /\ L[2] = Comma /\ L[17] = Newline
  BY LineFacts DEF LineOf
<1>3. Spells(Csv(Json(entry.n)), L, 2, 14)
  BY <1>1, CsvSpells DEF LineOf
<1>4. PICK y, z : Joins(y, <<t, Comma>>, Csv(Json(entry.n))) /\ Joins(z, y, <<Newline>>)
  BY Zenon DEF Joins
<1>5. Row(entry) = z
  BY <1>4, Zenon DEF Row, Joins
<1> HIDE DEF L, t
<1>6. Spells(<<t, Comma>>, L, 0, 2) /\ Spells(<<Newline>>, L, 16, 1)
  BY <1>1, <1>2, SpellsOne, SpellsTwo
<1>7. Spells(y, L, 0, 16)
  BY <1>3, <1>4, <1>6, SpellsMore
<1>8. Spells(z, L, 0, 17)
  BY <1>4, <1>6, <1>7, SpellsMore
<1> QED
  BY <1>5, <1>8 DEF L

\* The first k rows of a list, one after the other.
Prints(s, rows, k) ==
    /\ s \in Seq(Nat) /\ Len(s) = 17 * k
    /\ \A i \in 1 .. k, j \in 1 .. 17 : s[17 * (i - 1) + j] = LineOf(rows[i])[j]

\* One more row.
LEMMA PrintsMore ==
    ASSUME NEW rows \in Seq(RowType), NEW k \in Nat, k + 1 <= Len(rows),
           NEW s, Prints(s, rows, k), NEW v, Joins(v, s, Row(rows[k + 1]))
    PROVE  Prints(v, rows, k + 1)
<1> DEFINE u == Row(rows[k + 1])
<1>1. rows[k + 1] \in RowType
  BY ElementOfSeq, LenProperties
<1>2. u \in Seq(Nat) /\ Len(u) = 17 /\ \A j \in 1 .. 17 : u[j] = LineOf(rows[k + 1])[j]
  <2>1. Spells(u, LineOf(rows[k + 1]), 0, 17)
    BY <1>1, RowSpells
  <2> QED
    BY <2>1 DEF Spells
<1>3. s \in Seq(Nat) /\ Len(s) = 17 * k
  BY DEF Prints
<1> HIDE DEF u
<1>4. /\ v \in Seq(Nat) /\ Len(v) = 17 * k + 17
      /\ \A i \in 1 .. 17 * k + 17 : v[i] = IF i <= 17 * k THEN s[i] ELSE u[i - 17 * k]
  <2>1. Joins(v, s, u)
    BY DEF u
  <2>2. Joined(v, s, u, Nat)
    BY <2>1, <1>2, <1>3, JoinsFacts
  <2> QED
    BY <2>2, <1>2, <1>3 DEF Joined
<1>5. ASSUME NEW i \in 1 .. k + 1, NEW j \in 1 .. 17
      PROVE  v[17 * (i - 1) + j] = LineOf(rows[i])[j]
  <2>1. CASE i <= k
    <3>1. 17 * (i - 1) + j \in 1 .. 17 * k + 17 /\ 17 * (i - 1) + j <= 17 * k /\ i \in 1 .. k
      BY <2>1
    <3>2. v[17 * (i - 1) + j] = s[17 * (i - 1) + j]
      BY <3>1, <1>4
    <3> QED
      BY <3>1, <3>2 DEF Prints
  <2>2. CASE i = k + 1
    <3>1. /\ 17 * (i - 1) + j \in 1 .. 17 * k + 17 /\ ~(17 * (i - 1) + j <= 17 * k)
          /\ (17 * (i - 1) + j) - 17 * k = j
      BY <2>2
    <3>2. v[17 * (i - 1) + j] = u[j]
      BY <3>1, <1>4
    <3> QED
      BY <3>2, <2>2, <1>2
  <2> QED
    BY <2>1, <2>2
<1>6. Len(v) = 17 * (k + 1)
  BY <1>4
<1> QED
  BY <1>4, <1>5, <1>6 DEF Prints

\* All rows.
LEMMA BodyPrints ==
    ASSUME NEW rows \in Seq(RowType), Len(rows) # 0
    PROVE  Prints(FlattenSeq([i \in 1 .. Len(rows) |-> Row(rows[i])]), rows, Len(rows))
<1> DEFINE N == Len(rows)
           x == [i \in 1 .. N |-> Row(rows[i])]
<1>1. N \in Nat \ {0}
  BY LenProperties
<1>2. Len(x) = N /\ \A i \in 1 .. N : x[i] = Row(rows[i])
  BY <1>1
<1> HIDE DEF x
<1>3. PICK f : /\ f[1] = x[1] /\ \A i \in 2 .. Len(x) : f[i] = f[i - 1] \o x[i]
               /\ FlattenSeq(x) = f[Len(x)]
  BY <1>1, <1>2, JoinTurns
<1>4. f[1] = Row(rows[1]) /\ \A i \in 2 .. N : Joins(f[i], f[i - 1], Row(rows[i]))
  <2>1. 1 \in 1 .. N /\ \A i \in 2 .. N : i \in 1 .. N
    BY <1>1
  <2> QED
    BY <2>1, <1>2, <1>3, Zenon DEF Joins
<1>5. Prints(f[1], rows, 1)
  <2>1. rows[1] \in RowType
    BY <1>1, ElementOfSeq
  <2>2. Spells(f[1], LineOf(rows[1]), 0, 17)
    BY <2>1, <1>4, RowSpells
  <2>3. \A i \in 1 .. 1 : i = 1
    OBVIOUS
  <2> QED
    BY <2>2, <2>3 DEF Prints, Spells
<1> DEFINE T == {k \in Nat : k \in 1 .. N /\ ~Prints(f[k], rows, k)}
<1>6. T = {}
  <2> SUFFICES ASSUME T # {} PROVE FALSE
    OBVIOUS
  <2>1. PICK k \in T : \A y \in T : k <= y
    BY SmallestNumber
  <2>2. k \in 2 .. N /\ k - 1 \in Nat /\ k - 1 \in 1 .. N /\ (k - 1) + 1 = k
    BY <2>1, <1>1, <1>5
  <2>3. Prints(f[k - 1], rows, k - 1)
    BY <2>1, <2>2
  <2>4. Joins(f[k], f[k - 1], Row(rows[(k - 1) + 1])) /\ (k - 1) + 1 <= Len(rows)
    BY <2>2, <1>4
  <2>5. Prints(f[k], rows, (k - 1) + 1)
    BY <2>2, <2>3, <2>4, PrintsMore
  <2> QED
    BY <2>1, <2>2, <2>5
<1>7. Prints(f[N], rows, N)
  BY <1>1, <1>6
<1> QED
  BY <1>2, <1>3, <1>7 DEF x

-----------------------------------------------------------------------------
(* How the browser reads it.                                               *)

ParserState == [records : Seq(Seq(Seq(Nat))), row : Seq(Seq(Nat)), field : Seq(Nat),
                started : BOOLEAN, quoted : BOOLEAN, after : BOOLEAN, skip : BOOLEAN, bad : BOOLEAN]

\* The record of a row: its type and its JSON.
Rec(t, n) == Append(<< <<t>> >>, Json(n))

\* Between two rows.
Resting(s, recs) ==
    /\ s \in ParserState /\ s.records = recs /\ s.row = << >> /\ s.field = << >>
    /\ ~s.started /\ ~s.quoted /\ ~s.after /\ ~s.skip /\ ~s.bad

\* After the symbol of the type.
InType(s, recs, t) ==
    /\ s \in ParserState /\ s.records = recs /\ s.row = << >> /\ s.field = <<t>>
    /\ s.started /\ ~s.quoted /\ ~s.after /\ ~s.skip /\ ~s.bad

\* After the comma.
AtValue(s, recs, t) ==
    /\ s \in ParserState /\ s.records = recs /\ s.row = << <<t>> >> /\ s.field = << >>
    /\ ~s.started /\ ~s.quoted /\ ~s.after /\ ~s.skip /\ ~s.bad

\* Inside the quotes, k symbols of the JSON read; then between two quotes that are one.
InValue(s, recs, t, n, k) ==
    /\ s \in ParserState /\ s.records = recs /\ s.row = << <<t>> >> /\ Spells(s.field, Json(n), 0, k)
    /\ s.started /\ s.quoted /\ ~s.after /\ ~s.skip /\ ~s.bad
InQuotes(s, recs, t, n, k) ==
    /\ s \in ParserState /\ s.records = recs /\ s.row = << <<t>> >> /\ Spells(s.field, Json(n), 0, k)
    /\ s.started /\ s.quoted /\ ~s.after /\ s.skip /\ ~s.bad

\* After the closing quote.
Closed(s, recs, t, n) ==
    /\ s \in ParserState /\ s.records = recs /\ s.row = << <<t>> >> /\ s.field = Json(n)
    /\ s.started /\ ~s.quoted /\ s.after /\ ~s.skip /\ ~s.bad

LEMMA ReadType ==
    ASSUME NEW s, NEW recs, Resting(s, recs), NEW text, NEW i, NEW t \in 5 .. 10, text[i] = t
    PROVE  InType(ParseSymbol(s, text, i), recs, t)
<1>1. t # Comma /\ t # Newline /\ t # Quote /\ t \in Nat
  BY DEF Comma, Newline, Quote
<1> DEFINE u == [[s EXCEPT !.field = Append(@, t)] EXCEPT !.started = TRUE]
<1>2. ParseSymbol(s, text, i) = u
  BY <1>1 DEF ParseSymbol, Resting
<1>3. Append(<< >>, t) = <<t>> /\ <<t>> \in Seq(Nat)
  BY <1>1
<1>4. /\ u \in ParserState /\ u.records = recs /\ u.row = << >> /\ u.field = <<t>>
      /\ u.started /\ ~u.quoted /\ ~u.after /\ ~u.skip /\ ~u.bad
  BY <1>3 DEF Resting, ParserState
<1> QED
  BY <1>2, <1>4 DEF InType

LEMMA ReadComma ==
    ASSUME NEW s, NEW recs, NEW t \in Nat, InType(s, recs, t), NEW text, NEW i, text[i] = Comma
    PROVE  AtValue(ParseSymbol(s, text, i), recs, t)
<1>1. Comma # Newline /\ Comma # Quote
  BY DEF Comma, Newline, Quote
<1>2. ParseSymbol(s, text, i) = FinishField(s)
  BY <1>1 DEF ParseSymbol, InType
<1>3. Append(<< >>, <<t>>) = << <<t>> >> /\ << <<t>> >> \in Seq(Seq(Nat)) /\ << >> \in Seq(Nat)
  OBVIOUS
<1> DEFINE u == FinishField(s)
<1>4. /\ u \in ParserState /\ u.records = recs /\ u.row = << <<t>> >> /\ u.field = << >>
      /\ ~u.started /\ ~u.quoted /\ ~u.after /\ ~u.skip /\ ~u.bad
  BY <1>3 DEF InType, ParserState, FinishField
<1> QED
  BY <1>2, <1>4 DEF AtValue

LEMMA ReadQuote ==
    ASSUME NEW s, NEW recs, NEW t, AtValue(s, recs, t), NEW text, NEW i, text[i] = Quote, NEW n
    PROVE  InValue(ParseSymbol(s, text, i), recs, t, n, 0)
<1>1. Quote # Newline /\ Comma # Quote
  BY DEF Comma, Newline, Quote
<1> DEFINE u == [s EXCEPT !.started = TRUE, !.quoted = TRUE]
<1>2. ParseSymbol(s, text, i) = u
  BY <1>1 DEF ParseSymbol, AtValue
<1>3. /\ u \in ParserState /\ u.records = recs /\ u.row = << <<t>> >> /\ u.field = << >>
      /\ u.started /\ u.quoted /\ ~u.after /\ ~u.skip /\ ~u.bad
  BY DEF AtValue, ParserState
<1>4. Spells(<< >>, Json(n), 0, 0)
  BY DEF Spells
<1> QED
  BY <1>2, <1>3, <1>4 DEF InValue

\* A symbol of the JSON joins the field.
LEMMA FieldGrows ==
    ASSUME NEW s, NEW n \in Nat, NEW k \in 0 .. 7, Spells(s, Json(n), 0, k), NEW c, c = Json(n)[k + 1]
    PROVE  Append(s, c) \in Seq(Nat) /\ Spells(Append(s, c), Json(n), 0, k + 1)
<1>1. s \in Seq(Nat) /\ Len(s) = k /\ \A i \in 1 .. k : s[i] = Json(n)[i]
  BY DEF Spells
<1>2. c \in Nat
  <2>1. Json(n) \in Seq(Nat) /\ Len(Json(n)) = 8
    BY JsonFacts
  <2>2. k + 1 \in 1 .. Len(Json(n))
    BY <2>1
  <2> QED
    BY <2>1, <2>2, ElementOfSeq, Zenon
<1>3. PICK v : v = Append(s, c)
  OBVIOUS
<1>4. v \in Seq(Nat) /\ Len(v) = k + 1 /\ (\A i \in 1 .. k : v[i] = s[i]) /\ v[k + 1] = c
  BY <1>1, <1>2, <1>3, AppendProperties
<1>5. \A i \in 1 .. k + 1 : v[i] = Json(n)[i]
  BY <1>1, <1>4
<1>6. Spells(v, Json(n), 0, k + 1)
  BY <1>4, <1>5 DEF Spells
<1> QED
  BY <1>3, <1>4, <1>6

LEMMA ReadPlain ==
    ASSUME NEW s, NEW recs, NEW t, NEW n \in Nat, NEW k \in 0 .. 7, InValue(s, recs, t, n, k),
           NEW text, NEW i, text[i] = Json(n)[k + 1], text[i] # Quote
    PROVE  InValue(ParseSymbol(s, text, i), recs, t, n, k + 1)
<1> DEFINE c == text[i]
           u == [s EXCEPT !.field = Append(@, c)]
<1>1. ParseSymbol(s, text, i) = u
  BY DEF ParseSymbol, InValue
<1>2. PICK w : w = Append(s.field, c)
  OBVIOUS
<1>3. w \in Seq(Nat) /\ Spells(w, Json(n), 0, k + 1)
  BY <1>2, FieldGrows DEF InValue
<1>4. /\ u \in ParserState /\ u.records = recs /\ u.row = << <<t>> >> /\ u.field = w
      /\ u.started /\ u.quoted /\ ~u.after /\ ~u.skip /\ ~u.bad
  BY <1>2, <1>3 DEF InValue, ParserState
<1> QED
  BY <1>1, <1>3, <1>4 DEF InValue

LEMMA ReadDoubled ==
    ASSUME NEW s, NEW recs, NEW t, NEW n \in Nat, NEW k \in 0 .. 7, InValue(s, recs, t, n, k),
           NEW text, NEW i, text[i] = Quote, Json(n)[k + 1] = Quote,
           i < Len(text), text[i + 1] = Quote
    PROVE  InQuotes(ParseSymbol(s, text, i), recs, t, n, k + 1)
<1> DEFINE c == text[i]
           u == [[s EXCEPT !.field = Append(@, c)] EXCEPT !.skip = TRUE]
<1>1. ParseSymbol(s, text, i) = u
  BY DEF ParseSymbol, InValue
<1>2. PICK w : w = Append(s.field, c)
  OBVIOUS
<1>3. w \in Seq(Nat) /\ Spells(w, Json(n), 0, k + 1)
  BY <1>2, FieldGrows DEF InValue
<1>4. /\ u \in ParserState /\ u.records = recs /\ u.row = << <<t>> >> /\ u.field = w
      /\ u.started /\ u.quoted /\ ~u.after /\ u.skip /\ ~u.bad
  BY <1>2, <1>3 DEF InValue, ParserState
<1> QED
  BY <1>1, <1>3, <1>4 DEF InQuotes

LEMMA SkipQuote ==
    ASSUME NEW s, NEW recs, NEW t, NEW n, NEW k, InQuotes(s, recs, t, n, k), NEW text, NEW i
    PROVE  InValue(ParseSymbol(s, text, i), recs, t, n, k)
<1> DEFINE u == [s EXCEPT !.skip = FALSE]
<1>1. ParseSymbol(s, text, i) = u
  BY DEF ParseSymbol, InQuotes
<1>2. /\ u \in ParserState /\ u.records = recs /\ u.row = << <<t>> >> /\ u.field = s.field
      /\ u.started /\ u.quoted /\ ~u.after /\ ~u.skip /\ ~u.bad
  BY DEF InQuotes, ParserState
<1> QED
  BY <1>1, <1>2 DEF InValue, InQuotes

LEMMA ReadClosing ==
    ASSUME NEW s, NEW recs, NEW t, NEW n \in Nat, InValue(s, recs, t, n, 8),
           NEW text, NEW i, text[i] = Quote, text[i + 1] # Quote
    PROVE  Closed(ParseSymbol(s, text, i), recs, t, n)
<1> DEFINE u == [s EXCEPT !.quoted = FALSE, !.after = TRUE]
<1>1. ParseSymbol(s, text, i) = u
  BY DEF ParseSymbol, InValue
<1>2. s.field = Json(n)
  <2>1. Json(n) \in Seq(Nat) /\ Len(Json(n)) = 8
    BY JsonFacts
  <2>2. s.field \in Seq(Nat) /\ Len(s.field) = 8 /\ \A j \in 1 .. 8 : s.field[j] = Json(n)[j]
    BY DEF InValue, Spells
  <2> QED
    BY <2>1, <2>2, SeqEqual
<1>3. /\ u \in ParserState /\ u.records = recs /\ u.row = << <<t>> >> /\ u.field = s.field
      /\ u.started /\ ~u.quoted /\ u.after /\ ~u.skip /\ ~u.bad
  BY DEF InValue, ParserState
<1> QED
  BY <1>1, <1>2, <1>3 DEF Closed

LEMMA RecFacts ==
    ASSUME NEW t \in Nat, NEW n \in Nat
    PROVE  /\ Rec(t, n) \in Seq(Seq(Nat)) /\ Len(Rec(t, n)) = 2
           /\ Rec(t, n)[1] = <<t>> /\ Rec(t, n)[2] = Json(n)
           /\ <<t>> # << >> /\ Json(n) # << >>
<1>1. << <<t>> >> \in Seq(Seq(Nat)) /\ Len(<< <<t>> >>) = 1 /\ << <<t>> >>[1] = <<t>>
  OBVIOUS
<1>2. Json(n) \in Seq(Nat) /\ Len(Json(n)) = 8
  BY JsonFacts
<1>3. Json(n) # << >>
  BY <1>2
<1>4. PICK x, y : x = << <<t>> >> /\ y = Json(n)
  OBVIOUS
<1>5. x \in Seq(Seq(Nat)) /\ y \in Seq(Nat) /\ Len(x) = 1 /\ x[1] = <<t>>
  BY <1>1, <1>2, <1>4
<1>6. PICK v : v = Append(x, y)
  OBVIOUS
<1>7. v \in Seq(Seq(Nat)) /\ Len(v) = 2 /\ v[1] = <<t>> /\ v[2] = y
  <2>1. v \in Seq(Seq(Nat)) /\ Len(v) = Len(x) + 1 /\ v[Len(x) + 1] = y
    BY <1>5, <1>6, AppendProperties
  <2>2. \A i \in 1 .. Len(x) : v[i] = x[i]
    BY <1>5, <1>6, AppendProperties
  <2> QED
    BY <2>1, <2>2, <1>5
<1>8. <<t>> # << >>
  OBVIOUS
<1> QED
  BY <1>3, <1>4, <1>6, <1>7, <1>8 DEF Rec

LEMMA ReadNewline ==
    ASSUME NEW s, NEW recs, NEW t \in Nat, NEW n \in Nat, Closed(s, recs, t, n),
           NEW text, NEW i, text[i] = Newline
    PROVE  Resting(ParseSymbol(s, text, i), Append(recs, Rec(t, n)))
<1>1. Newline # Comma /\ Newline # Quote
  BY DEF Comma, Newline, Quote
<1>2. ParseSymbol(s, text, i) = FinishRecord(s)
  BY <1>1 DEF ParseSymbol, Closed
<1>3. PICK r : r = Rec(t, n)
  OBVIOUS
<1>4. /\ r \in Seq(Seq(Nat)) /\ Len(r) = 2 /\ r[1] # << >> /\ r[2] # << >>
  BY <1>3, RecFacts
<1> DEFINE v == FinishField(s)
<1>5. /\ v \in ParserState /\ v.records = recs /\ v.row = r /\ v.field = << >>
      /\ ~v.started /\ ~v.quoted /\ ~v.after /\ ~v.skip /\ ~v.bad
  <2>1. Append(s.row, s.field) = r
    BY <1>3 DEF Closed, Rec
  <2>2. << >> \in Seq(Nat)
    OBVIOUS
  <2> QED
    BY <2>1, <2>2, <1>4 DEF Closed, FinishField, ParserState
<1> DEFINE u == [v EXCEPT !.records = Append(@, r), !.row = << >>]
<1>6. FinishRecord(s) = u
  <2> HIDE DEF v
  <2>1. FinishRecord(s) = IF Len(v.row) # 2 \/ v.row[1] = << >> \/ v.row[2] = << >>
                            THEN [s EXCEPT !.bad = TRUE]
                            ELSE [v EXCEPT !.records = Append(@, v.row), !.row = << >>]
    BY Zenon DEF FinishRecord, v
  <2> QED
    BY <2>1, <1>4, <1>5
<1> HIDE DEF v
<1>7. PICK q : q = Append(recs, r)
  OBVIOUS
<1>8. q \in Seq(Seq(Seq(Nat)))
  <2>1. recs \in Seq(Seq(Seq(Nat)))
    BY <1>5 DEF ParserState
  <2> QED
    BY <2>1, <1>4, <1>7, AppendProperties
<1>9. /\ u \in ParserState /\ u.records = q /\ u.row = << >> /\ u.field = << >>
      /\ ~u.started /\ ~u.quoted /\ ~u.after /\ ~u.skip /\ ~u.bad
  <2>1. u = [v EXCEPT !.records = q, !.row = << >>]
    BY <1>5, <1>7
  <2>2. << >> \in Seq(Seq(Nat))
    OBVIOUS
  <2>3. PICK e : e = << >> /\ e \in Seq(Seq(Nat))
    BY <2>2
  <2>4. u = [v EXCEPT !.records = q, !.row = e]
    BY <2>1, <2>3
  <2> HIDE DEF u
  <2>5. u \in ParserState /\ u.records = q /\ u.row = e
    BY <2>3, <2>4, <1>5, <1>8 DEF ParserState
  <2>6. /\ u.field = v.field /\ u.started = v.started /\ u.quoted = v.quoted
        /\ u.after = v.after /\ u.skip = v.skip /\ u.bad = v.bad
    BY <2>4, <1>5 DEF ParserState
  <2> QED
    BY <2>3, <2>5, <2>6, <1>5
<1> QED
  BY <1>2, <1>3, <1>6, <1>7, <1>9 DEF Resting

\* f holds the parser's states over x; x has the symbols of a row from its place a on.
Parsing(f, x) == \A i \in 1 .. Len(x) : f[i] = ParseSymbol(f[i - 1], x, i)
Written(x, a, t, n) ==
    Len(x) \in Nat /\ a + 17 <= Len(x) /\ \A j \in 1 .. 17 : x[a + j] = Line(t, n)[j]

\* One step of the parser: it reads c and goes from state s to state u.
Reads(s, x, i, c, u) == x[i] = c /\ u = ParseSymbol(s, x, i)

LEMMA OneStep ==
    ASSUME NEW f, NEW x, Parsing(f, x), NEW a \in Nat, NEW t, NEW n, Written(x, a, t, n),
           NEW j \in 1 .. 17
    PROVE  Reads(f[a + (j - 1)], x, a + j, Line(t, n)[j], f[a + j])
<1>1. a + j \in 1 .. Len(x) /\ (a + j) - 1 = a + (j - 1)
  <2>1. Len(x) \in Nat /\ a + 17 <= Len(x)
    BY Zenon DEF Written
  <2> QED
    BY <2>1
<1>2. f[a + j] = ParseSymbol(f[(a + j) - 1], x, a + j)
  BY <1>1, Zenon DEF Parsing
<1>3. x[a + j] = Line(t, n)[j]
  BY DEF Written
<1> QED
  BY <1>1, <1>2, <1>3 DEF Reads

\* The seventeen steps of a row.
LEMMA RowSteps ==
    ASSUME NEW f, NEW x, Parsing(f, x), NEW a \in Nat, NEW t, NEW n, Written(x, a, t, n)
    PROVE  /\ Reads(f[a + 0], x, a + 1, t, f[a + 1])
           /\ Reads(f[a + 1], x, a + 2, Comma, f[a + 2])
           /\ Reads(f[a + 2], x, a + 3, Quote, f[a + 3])
           /\ Reads(f[a + 3], x, a + 4, Brace, f[a + 4])
           /\ Reads(f[a + 4], x, a + 5, Quote, f[a + 5])
           /\ Reads(f[a + 5], x, a + 6, Quote, f[a + 6])
           /\ Reads(f[a + 6], x, a + 7, Identity(n), f[a + 7])
           /\ Reads(f[a + 7], x, a + 8, Quote, f[a + 8])
           /\ Reads(f[a + 8], x, a + 9, Quote, f[a + 9])
           /\ Reads(f[a + 9], x, a + 10, Comma, f[a + 10])
           /\ Reads(f[a + 10], x, a + 11, Quote, f[a + 11])
           /\ Reads(f[a + 11], x, a + 12, Quote, f[a + 12])
           /\ Reads(f[a + 12], x, a + 13, Quote, f[a + 13])
           /\ Reads(f[a + 13], x, a + 14, Quote, f[a + 14])
           /\ Reads(f[a + 14], x, a + 15, Brace, f[a + 15])
           /\ Reads(f[a + 15], x, a + 16, Quote, f[a + 16])
           /\ Reads(f[a + 16], x, a + 17, Newline, f[a + 17])
<1>1. /\ Reads(f[a + (1 - 1)], x, a + 1, Line(t, n)[1], f[a + 1])
      /\ Reads(f[a + (2 - 1)], x, a + 2, Line(t, n)[2], f[a + 2])
      /\ Reads(f[a + (3 - 1)], x, a + 3, Line(t, n)[3], f[a + 3])
      /\ Reads(f[a + (4 - 1)], x, a + 4, Line(t, n)[4], f[a + 4])
      /\ Reads(f[a + (5 - 1)], x, a + 5, Line(t, n)[5], f[a + 5])
      /\ Reads(f[a + (6 - 1)], x, a + 6, Line(t, n)[6], f[a + 6])
      /\ Reads(f[a + (7 - 1)], x, a + 7, Line(t, n)[7], f[a + 7])
      /\ Reads(f[a + (8 - 1)], x, a + 8, Line(t, n)[8], f[a + 8])
      /\ Reads(f[a + (9 - 1)], x, a + 9, Line(t, n)[9], f[a + 9])
      /\ Reads(f[a + (10 - 1)], x, a + 10, Line(t, n)[10], f[a + 10])
      /\ Reads(f[a + (11 - 1)], x, a + 11, Line(t, n)[11], f[a + 11])
      /\ Reads(f[a + (12 - 1)], x, a + 12, Line(t, n)[12], f[a + 12])
      /\ Reads(f[a + (13 - 1)], x, a + 13, Line(t, n)[13], f[a + 13])
      /\ Reads(f[a + (14 - 1)], x, a + 14, Line(t, n)[14], f[a + 14])
      /\ Reads(f[a + (15 - 1)], x, a + 15, Line(t, n)[15], f[a + 15])
      /\ Reads(f[a + (16 - 1)], x, a + 16, Line(t, n)[16], f[a + 16])
      /\ Reads(f[a + (17 - 1)], x, a + 17, Line(t, n)[17], f[a + 17])
  <2>1. /\ 1 \in 1 .. 17 /\ 2 \in 1 .. 17 /\ 3 \in 1 .. 17 /\ 4 \in 1 .. 17 /\ 5 \in 1 .. 17 /\ 6 \in 1 .. 17
        /\ 7 \in 1 .. 17 /\ 8 \in 1 .. 17 /\ 9 \in 1 .. 17 /\ 10 \in 1 .. 17 /\ 11 \in 1 .. 17 /\ 12 \in 1 .. 17
        /\ 13 \in 1 .. 17 /\ 14 \in 1 .. 17 /\ 15 \in 1 .. 17 /\ 16 \in 1 .. 17 /\ 17 \in 1 .. 17
    OBVIOUS
  <2> QED
    BY <2>1, OneStep, Zenon
<1>2. /\ 1 - 1 = 0 /\ 2 - 1 = 1 /\ 3 - 1 = 2 /\ 4 - 1 = 3 /\ 5 - 1 = 4 /\ 6 - 1 = 5
      /\ 7 - 1 = 6 /\ 8 - 1 = 7 /\ 9 - 1 = 8 /\ 10 - 1 = 9 /\ 11 - 1 = 10 /\ 12 - 1 = 11
      /\ 13 - 1 = 12 /\ 14 - 1 = 13 /\ 15 - 1 = 14 /\ 16 - 1 = 15 /\ 17 - 1 = 16
  OBVIOUS
<1> QED
  BY <1>1, <1>2, LineFacts

\* Reading a plain symbol of the JSON, and reading a doubled quote.
LEMMA ReadsPlain ==
    ASSUME NEW s, NEW recs, NEW t, NEW n \in Nat, NEW k \in 0 .. 7, InValue(s, recs, t, n, k),
           NEW c, c = Json(n)[k + 1], c # Quote, NEW x, NEW i, NEW u, Reads(s, x, i, c, u)
    PROVE  InValue(u, recs, t, n, k + 1)
<1>1. x[i] = c /\ u = ParseSymbol(s, x, i)
  BY Zenon DEF Reads
<1>2. x[i] = Json(n)[k + 1] /\ x[i] # Quote
  BY <1>1, Zenon
<1>3. InValue(ParseSymbol(s, x, i), recs, t, n, k + 1)
  BY <1>2, ReadPlain, Zenon
<1> QED
  BY <1>1, <1>3, Zenon

LEMMA ReadsQuotes ==
    ASSUME NEW s, NEW recs, NEW t, NEW n \in Nat, NEW k \in 0 .. 7, InValue(s, recs, t, n, k),
           NEW m, m = k + 1, Json(n)[m] = Quote,
           NEW x, NEW i, i < Len(x), NEW u, Reads(s, x, i, Quote, u),
           NEW j, j = i + 1, NEW v, Reads(u, x, j, Quote, v)
    PROVE  InValue(v, recs, t, n, m)
<1>1. /\ x[i] = Quote /\ u = ParseSymbol(s, x, i)
      /\ x[i + 1] = Quote /\ v = ParseSymbol(u, x, i + 1)
  BY Zenon DEF Reads
<1>2. InQuotes(ParseSymbol(s, x, i), recs, t, n, k + 1)
  BY <1>1, ReadDoubled, Zenon
<1>3. InValue(ParseSymbol(u, x, i + 1), recs, t, n, k + 1)
  BY <1>1, <1>2, SkipQuote, Zenon
<1> QED
  BY <1>1, <1>3, Zenon

\* A whole row: the parser rests again, with one record more.
LEMMA ReadRow ==
    ASSUME NEW f, NEW x, Parsing(f, x), NEW a \in Nat, NEW t \in 5 .. 10, NEW n \in Nat,
           Written(x, a, t, n), NEW recs, Resting(f[a], recs)
    PROVE  Resting(f[a + 17], Append(recs, Rec(t, n)))
<1>1. /\ Json(n)[1] = Brace /\ Json(n)[2] = Quote /\ Json(n)[3] = Identity(n)
      /\ Json(n)[4] = Quote /\ Json(n)[5] = Comma /\ Json(n)[6] = Quote
      /\ Json(n)[7] = Quote /\ Json(n)[8] = Brace
  BY JsonFacts, Zenon
<1>2. Brace # Quote /\ Comma # Quote /\ Newline # Quote /\ Identity(n) # Quote /\ t \in Nat
  BY DEF Brace, Quote, Comma, Newline, Identity
<1>3. a + 17 <= Len(x) /\ Len(x) \in Nat
  BY Zenon DEF Written
<1>4. PICK s0, s1, s2, s3, s4, s5, s6, s7, s8, s9, s10, s11, s12, s13, s14, s15, s16, s17 :
         /\ s0 = f[a] /\ s17 = f[a + 17]
         /\ Reads(s0, x, a + 1, t, s1)
         /\ Reads(s1, x, a + 2, Comma, s2)
         /\ Reads(s2, x, a + 3, Quote, s3)
         /\ Reads(s3, x, a + 4, Brace, s4)
         /\ Reads(s4, x, a + 5, Quote, s5)
         /\ Reads(s5, x, a + 6, Quote, s6)
         /\ Reads(s6, x, a + 7, Identity(n), s7)
         /\ Reads(s7, x, a + 8, Quote, s8)
         /\ Reads(s8, x, a + 9, Quote, s9)
         /\ Reads(s9, x, a + 10, Comma, s10)
         /\ Reads(s10, x, a + 11, Quote, s11)
         /\ Reads(s11, x, a + 12, Quote, s12)
         /\ Reads(s12, x, a + 13, Quote, s13)
         /\ Reads(s13, x, a + 14, Quote, s14)
         /\ Reads(s14, x, a + 15, Brace, s15)
         /\ Reads(s15, x, a + 16, Quote, s16)
         /\ Reads(s16, x, a + 17, Newline, s17)
  <2>1. a + 0 = a
    OBVIOUS
  <2>2. /\ Reads(f[a + 0], x, a + 1, t, f[a + 1])
        /\ Reads(f[a + 1], x, a + 2, Comma, f[a + 2])
        /\ Reads(f[a + 2], x, a + 3, Quote, f[a + 3])
        /\ Reads(f[a + 3], x, a + 4, Brace, f[a + 4])
        /\ Reads(f[a + 4], x, a + 5, Quote, f[a + 5])
        /\ Reads(f[a + 5], x, a + 6, Quote, f[a + 6])
        /\ Reads(f[a + 6], x, a + 7, Identity(n), f[a + 7])
        /\ Reads(f[a + 7], x, a + 8, Quote, f[a + 8])
        /\ Reads(f[a + 8], x, a + 9, Quote, f[a + 9])
        /\ Reads(f[a + 9], x, a + 10, Comma, f[a + 10])
        /\ Reads(f[a + 10], x, a + 11, Quote, f[a + 11])
        /\ Reads(f[a + 11], x, a + 12, Quote, f[a + 12])
        /\ Reads(f[a + 12], x, a + 13, Quote, f[a + 13])
        /\ Reads(f[a + 13], x, a + 14, Quote, f[a + 14])
        /\ Reads(f[a + 14], x, a + 15, Brace, f[a + 15])
        /\ Reads(f[a + 15], x, a + 16, Quote, f[a + 16])
        /\ Reads(f[a + 16], x, a + 17, Newline, f[a + 17])
    BY RowSteps, Zenon
  <2> WITNESS f[a], f[a + 1], f[a + 2], f[a + 3], f[a + 4], f[a + 5], f[a + 6], f[a + 7], f[a + 8], f[a + 9],
              f[a + 10], f[a + 11], f[a + 12], f[a + 13], f[a + 14], f[a + 15], f[a + 16], f[a + 17]
  <2> QED
    BY <2>1, <2>2
<1>5. Resting(s0, recs)
  BY <1>4
<1>6. InType(s1, recs, t)
  BY <1>4, <1>5, ReadType DEF Reads
<1>7. AtValue(s2, recs, t)
  BY <1>2, <1>4, <1>6, ReadComma DEF Reads
<1>8. InValue(s3, recs, t, n, 0)
  BY <1>4, <1>7, ReadQuote DEF Reads
<1>9. InValue(s4, recs, t, n, 1)
  BY <1>1, <1>2, <1>4, <1>8, ReadsPlain
<1>10. InValue(s6, recs, t, n, 2)
  <2>1. a + 5 < Len(x) /\ a + 6 = (a + 5) + 1 /\ 2 = 1 + 1 /\ 1 \in 0 .. 7
    BY <1>3
  <2>2. Reads(s4, x, a + 5, Quote, s5) /\ Reads(s5, x, a + 6, Quote, s6)
    BY <1>4
  <2>3. Json(n)[2] = Quote
    BY <1>1
  <2> QED
    BY <2>1, <2>2, <2>3, <1>9, ReadsQuotes, Zenon
<1>11. InValue(s7, recs, t, n, 3)
  BY <1>1, <1>2, <1>4, <1>10, ReadsPlain
<1>12. InValue(s9, recs, t, n, 4)
  <2>1. a + 8 < Len(x) /\ a + 9 = (a + 8) + 1 /\ 4 = 3 + 1 /\ 3 \in 0 .. 7
    BY <1>3
  <2>2. Reads(s7, x, a + 8, Quote, s8) /\ Reads(s8, x, a + 9, Quote, s9)
    BY <1>4
  <2>3. Json(n)[4] = Quote
    BY <1>1
  <2> QED
    BY <2>1, <2>2, <2>3, <1>11, ReadsQuotes, Zenon
<1>13. InValue(s10, recs, t, n, 5)
  BY <1>1, <1>2, <1>4, <1>12, ReadsPlain
<1>14. InValue(s12, recs, t, n, 6)
  <2>1. a + 11 < Len(x) /\ a + 12 = (a + 11) + 1 /\ 6 = 5 + 1 /\ 5 \in 0 .. 7
    BY <1>3
  <2>2. Reads(s10, x, a + 11, Quote, s11) /\ Reads(s11, x, a + 12, Quote, s12)
    BY <1>4
  <2>3. Json(n)[6] = Quote
    BY <1>1
  <2> QED
    BY <2>1, <2>2, <2>3, <1>13, ReadsQuotes, Zenon
<1>15. InValue(s14, recs, t, n, 7)
  <2>1. a + 13 < Len(x) /\ a + 14 = (a + 13) + 1 /\ 7 = 6 + 1 /\ 6 \in 0 .. 7
    BY <1>3
  <2>2. Reads(s12, x, a + 13, Quote, s13) /\ Reads(s13, x, a + 14, Quote, s14)
    BY <1>4
  <2>3. Json(n)[7] = Quote
    BY <1>1
  <2> QED
    BY <2>1, <2>2, <2>3, <1>14, ReadsQuotes, Zenon
<1>16. InValue(s15, recs, t, n, 8)
  BY <1>1, <1>2, <1>4, <1>15, ReadsPlain
<1>17. Closed(s16, recs, t, n)
  <2>1. (a + 16) + 1 = a + 17
    OBVIOUS
  <2>2. /\ x[a + 16] = Quote /\ x[(a + 16) + 1] # Quote /\ s16 = ParseSymbol(s15, x, a + 16)
    BY <2>1, <1>2, <1>4 DEF Reads
  <2> QED
    BY <2>2, <1>16, ReadClosing
<1>18. Resting(s17, Append(recs, Rec(t, n)))
  BY <1>2, <1>4, <1>17, ReadNewline DEF Reads
<1> QED
  BY <1>4, <1>18

\* The records of the first k rows.
RecordsOf(recs, rows, k) ==
    /\ recs \in Seq(Seq(Seq(Nat))) /\ Len(recs) = k
    /\ \A i \in 1 .. k : recs[i] = Rec(RecordTypes[rows[i].type], rows[i].n)

\* One record more.
LEMMA RecordsMore ==
    ASSUME NEW rows \in Seq(RowType), NEW k \in Nat, k + 1 <= Len(rows), NEW recs, RecordsOf(recs, rows, k),
           NEW r, r = Rec(RecordTypes[rows[k + 1].type], rows[k + 1].n)
    PROVE  RecordsOf(Append(recs, r), rows, k + 1)
<1>1. rows[k + 1] \in RowType
  BY ElementOfSeq, LenProperties
<1>2. r \in Seq(Seq(Nat))
  BY <1>1, RecFacts, TypeFacts DEF RowType
<1>3. recs \in Seq(Seq(Seq(Nat))) /\ Len(recs) = k
  BY DEF RecordsOf
<1>4. PICK v : v = Append(recs, r)
  OBVIOUS
<1>5. v \in Seq(Seq(Seq(Nat))) /\ Len(v) = k + 1 /\ (\A i \in 1 .. k : v[i] = recs[i]) /\ v[k + 1] = r
  BY <1>2, <1>3, <1>4, AppendProperties
<1>6. ASSUME NEW i \in 1 .. k + 1
      PROVE  v[i] = Rec(RecordTypes[rows[i].type], rows[i].n)
  <2>1. CASE i = k + 1
    BY <2>1, <1>5
  <2>2. CASE i # k + 1
    <3>1. i \in 1 .. k
      BY <2>2
    <3> QED
      BY <3>1, <1>5 DEF RecordsOf
  <2> QED
    BY <2>1, <2>2
<1> QED
  BY <1>4, <1>5, <1>6 DEF RecordsOf

\* What the parser reads of r whole rows: their records, and nothing left open.
LEMMA ReadBack ==
    ASSUME NEW rows \in Seq(RowType), NEW r \in 0 .. Len(rows), NEW x, Prints(x, rows, r),
           NEW text, Tail(text) = x
    PROVE  ParseCsvRecords(text).ok /\ RecordsOf(ParseCsvRecords(text).records, rows, r)
<1>1. Len(x) = 17 * r /\ r \in Nat /\ Len(rows) \in Nat /\ r <= Len(rows)
  <2>1. Len(rows) \in Nat
    BY LenProperties
  <2> QED
    BY <2>1 DEF Prints
<1>2. PICK f : /\ Turns(f, "parse", ParserStart, x, Len(x))
               /\ \A w : Tail(w) = x => ParseCsvRecords(w) = Outcome(f[Len(x)])
  <2>1. Len(x) \in Nat
    BY <1>1
  <2> QED
    BY <2>1, ParseTurns
<1>3. f[0] = ParserStart /\ Parsing(f, x)
  <2>1. Len(x) \in Nat
    BY <1>1
  <2>2. f[0] = ParserStart /\ \A i \in 1 .. Len(x) : f[i] = Turn("parse", f[i - 1], i, x)
    <3>1. Turns(f, "parse", ParserStart, x, Len(x))
      BY <1>2
    <3> QED
      BY <2>1, <3>1, TurnsFacts
  <2>3. \A s, i : Turn("parse", s, i, x) = ParseSymbol(s, x, i)
    BY DEF Turn
  <2> QED
    BY <2>2, <2>3, Zenon DEF Parsing
<1> DEFINE Good(k) == \E recs : RecordsOf(recs, rows, k) /\ Resting(f[17 * k], recs)
           T == {k \in Nat : k <= r /\ ~Good(k)}
<1>4. Good(0)
  <2>1. Resting(ParserStart, << >>)
    BY DEF Resting, ParserStart, ParserState
  <2>2. RecordsOf(<< >>, rows, 0)
    BY DEF RecordsOf
  <2>3. 17 * 0 = 0
    OBVIOUS
  <2> QED
    BY <2>1, <2>2, <2>3, <1>3
<1>5. ASSUME NEW k \in Nat, k + 1 <= r, Good(k)
      PROVE  Good(k + 1)
  <2> DEFINE t == RecordTypes[rows[k + 1].type]
             n == rows[k + 1].n
             a == 17 * k
  <2>1. PICK recs : RecordsOf(recs, rows, k) /\ Resting(f[a], recs)
    BY <1>5
  <2>2. rows[k + 1] \in RowType /\ k + 1 <= Len(rows)
    BY <1>1, <1>5, ElementOfSeq
  <2>3. t \in 5 .. 10 /\ n \in Nat
    BY <2>2, TypeFacts DEF RowType
  <2>4. a \in Nat /\ a + 17 <= Len(x) /\ Len(x) \in Nat /\ a + 17 = 17 * (k + 1)
    BY <1>1, <1>5
  <2>5. ASSUME NEW j \in 1 .. 17
        PROVE  x[a + j] = Line(t, n)[j]
    <3>1. k + 1 \in 1 .. r /\ 17 * ((k + 1) - 1) + j = a + j
      BY <1>1, <1>5
    <3>2. x[17 * ((k + 1) - 1) + j] = LineOf(rows[k + 1])[j]
      BY <3>1, Zenon DEF Prints
    <3> QED
      BY <3>1, <3>2 DEF LineOf
  <2> HIDE DEF t, n, a
  <2>6. Written(x, a, t, n)
    BY <2>4, <2>5 DEF Written
  <2>7. Resting(f[a + 17], Append(recs, Rec(t, n)))
    BY <2>1, <2>3, <2>4, <2>6, <1>3, ReadRow, Zenon
  <2>8. RecordsOf(Append(recs, Rec(t, n)), rows, k + 1)
    BY <2>1, <2>2, RecordsMore, Zenon DEF t, n
  <2> QED
    BY <2>4, <2>7, <2>8, Zenon
<1> HIDE DEF Good
<1>6. T = {}
  <2> SUFFICES ASSUME T # {} PROVE FALSE
    OBVIOUS
  <2>1. PICK k \in T : \A y \in T : k <= y
    BY SmallestNumber
  <2>2. k # 0 /\ k \in Nat /\ k <= r /\ ~Good(k)
    BY <2>1, <1>4
  <2>3. k - 1 \in Nat /\ (k - 1) + 1 = k /\ k - 1 <= r /\ ~(k <= k - 1)
    BY <2>2, <1>1
  <2>4. Good(k - 1)
    BY <2>1, <2>3
  <2> QED
    BY <2>2, <2>3, <2>4, <1>5
<1>7. Good(r)
  BY <1>1, <1>6
<1>8. PICK recs : RecordsOf(recs, rows, r) /\ Resting(f[Len(x)], recs)
  BY <1>1, <1>7 DEF Good
<1>9. PICK e : e = f[Len(x)]
  OBVIOUS
<1>10. PICK ok : /\ ok = (~e.bad /\ ~e.quoted /\ ~e.after /\ ~e.started /\ e.field = << >> /\ e.row = << >>)
                 /\ ParseCsvRecords(text) = [ok |-> ok, records |-> e.records]
  BY <1>2, <1>9, Zenon DEF Outcome
<1>11. /\ ~e.bad /\ ~e.quoted /\ ~e.after /\ ~e.started /\ e.field = << >> /\ e.row = << >>
       /\ e.records = recs
  BY <1>8, <1>9 DEF Resting
<1>12. ok = TRUE
  BY <1>10, <1>11, Zenon
<1>13. ParseCsvRecords(text).ok = TRUE /\ ParseCsvRecords(text).records = recs
  BY <1>10, <1>11, <1>12
<1> QED
  BY <1>8, <1>13

-----------------------------------------------------------------------------
(* The rows of a document, and what the validation files of them.          *)

DocType == [throughRoomSeq : Nat, events : Seq(Nat), artifacts : Seq(Nat), projections : Seq(Nat),
            artifactSources : Seq(Nat), projectionSources : Seq(Nat)]

\* From place a on, the rows are those of the list ns.
Block(rows, a, type, ns) == \A i \in 1 .. Len(ns) : rows[a + i] = [type |-> type, n |-> ns[i]]

LEMMA ListedFacts ==
    ASSUME NEW type \in Types, NEW ns \in Seq(Nat)
    PROVE  /\ Listed(type, ns) \in Seq(RowType) /\ Len(Listed(type, ns)) = Len(ns)
           /\ \A i \in 1 .. Len(ns) : Listed(type, ns)[i] = [type |-> type, n |-> ns[i]]
<1> DEFINE N == Len(ns)
<1>1. N \in Nat /\ \A i \in 1 .. N : ns[i] \in Nat
  BY ElementOfSeq, LenProperties
<1>2. \A i \in 1 .. N : [type |-> type, n |-> ns[i]] \in RowType
  BY <1>1 DEF RowType
<1>3. Listed(type, ns) = [i \in 1 .. N |-> [type |-> type, n |-> ns[i]]]
  BY DEF Listed
<1> HIDE DEF N
<1>4. [i \in 1 .. N |-> [type |-> type, n |-> ns[i]]] \in [1 .. N -> RowType]
  BY <1>2
<1>5. \A i \in 1 .. N : Listed(type, ns)[i] = [type |-> type, n |-> ns[i]]
  BY <1>3
<1>6. Listed(type, ns) \in Seq(RowType) /\ Len(Listed(type, ns)) = N
  <2>1. PICK L : L = Listed(type, ns) /\ L \in [1 .. N -> RowType]
    BY <1>3, <1>4
  <2> QED
    BY <2>1, <1>1
<1> QED
  BY <1>5, <1>6 DEF N

\* v is s with the list ns after its m rows.
Adds(v, s, m, type, ns) ==
    /\ v \in Seq(RowType) /\ Len(v) = m + Len(ns) /\ Block(v, m, type, ns)
    /\ \A i \in 1 .. m : v[i] = s[i]

\* What joining a list to the rows adds, and what it keeps.
LEMMA BlockAdded ==
    ASSUME NEW s \in Seq(RowType), NEW type \in Types, NEW ns \in Seq(Nat),
           NEW v, Joins(v, s, Listed(type, ns)), NEW m, Len(s) = m
    PROVE  Adds(v, s, m, type, ns)
<1>1. PICK l : l = Listed(type, ns) /\ l \in Seq(RowType) /\ Len(l) = Len(ns)
  BY ListedFacts
<1>2. \A i \in 1 .. Len(ns) : l[i] = [type |-> type, n |-> ns[i]]
  BY <1>1, ListedFacts
<1>3. Joined(v, s, l, RowType)
  BY <1>1, JoinsFacts
<1>4. m \in Nat /\ Len(ns) \in Nat
  BY LenProperties
<1>5. /\ v \in Seq(RowType) /\ Len(v) = m + Len(ns)
      /\ \A i \in 1 .. m + Len(ns) : v[i] = IF i <= m THEN s[i] ELSE l[i - m]
  BY <1>1, <1>3, Zenon DEF Joined
<1>6. ASSUME NEW i \in 1 .. Len(ns)
      PROVE  v[m + i] = [type |-> type, n |-> ns[i]]
  <2>1. m + i \in 1 .. m + Len(ns) /\ ~(m + i <= m) /\ (m + i) - m = i
    BY <1>4
  <2>2. v[m + i] = l[i]
    BY <2>1, <1>5
  <2> QED
    BY <2>2, <1>2
<1>7. Block(v, m, type, ns)
  BY <1>6, Zenon DEF Block
<1>8. \A i \in 1 .. m : i \in 1 .. m + Len(ns) /\ i <= m
  BY <1>4
<1> QED
  BY <1>5, <1>7, <1>8 DEF Adds

LEMMA BlockKept ==
    ASSUME NEW s, NEW v, NEW m \in Nat, \A i \in 1 .. m : v[i] = s[i],
           NEW a \in Nat, NEW u, NEW ms \in Seq(Nat), Block(s, a, u, ms), a + Len(ms) <= m
    PROVE  Block(v, a, u, ms)
<1>1. ASSUME NEW i \in 1 .. Len(ms)
      PROVE  v[a + i] = [type |-> u, n |-> ms[i]]
  <2>1. Len(ms) \in Nat
    BY LenProperties
  <2>2. a + i \in 1 .. m
    BY <2>1
  <2>3. v[a + i] = s[a + i]
    BY <2>2, Zenon
  <2>4. s[a + i] = [type |-> u, n |-> ms[i]]
    BY Zenon DEF Block
  <2> QED
    BY <2>3, <2>4
<1> QED
  BY <1>1, Zenon DEF Block

\* Where the lists begin: after the manifest, the events, the texts, the
\* projections, the sources of texts and, at the end, those of projections.
AfterEvents(doc) == 1 + Len(doc.events)
AfterArtifacts(doc) == AfterEvents(doc) + Len(doc.artifacts)
AfterProjections(doc) == AfterArtifacts(doc) + Len(doc.projections)
AfterArtifactSources(doc) == AfterProjections(doc) + Len(doc.artifactSources)
AfterAll(doc) == AfterArtifactSources(doc) + Len(doc.projectionSources)

LEMMA Places ==
    ASSUME NEW doc \in DocType
    PROVE  /\ AfterEvents(doc) \in Nat /\ AfterArtifacts(doc) \in Nat /\ AfterProjections(doc) \in Nat
           /\ AfterArtifactSources(doc) \in Nat /\ AfterAll(doc) \in Nat
           /\ 1 <= AfterEvents(doc) /\ AfterEvents(doc) <= AfterArtifacts(doc)
           /\ AfterArtifacts(doc) <= AfterProjections(doc)
           /\ AfterProjections(doc) <= AfterArtifactSources(doc)
           /\ AfterArtifactSources(doc) <= AfterAll(doc)
<1>1. /\ Len(doc.events) \in Nat /\ Len(doc.artifacts) \in Nat /\ Len(doc.projections) \in Nat
      /\ Len(doc.artifactSources) \in Nat /\ Len(doc.projectionSources) \in Nat
  BY LenProperties DEF DocType
<1>2. PICK e, a, p, b, q : /\ e = Len(doc.events) /\ a = Len(doc.artifacts) /\ p = Len(doc.projections)
                           /\ b = Len(doc.artifactSources) /\ q = Len(doc.projectionSources)
  OBVIOUS
<1>3. PICK n2, n3, n4, n5, n6 :
         /\ n2 = AfterEvents(doc) /\ n3 = AfterArtifacts(doc) /\ n4 = AfterProjections(doc)
         /\ n5 = AfterArtifactSources(doc) /\ n6 = AfterAll(doc)
  OBVIOUS
<1>4. n2 = 1 + e /\ n3 = n2 + a /\ n4 = n3 + p /\ n5 = n4 + b /\ n6 = n5 + q
  BY <1>2, <1>3, Zenon DEF AfterEvents, AfterArtifacts, AfterProjections, AfterArtifactSources, AfterAll
<1>5. e \in Nat /\ a \in Nat /\ p \in Nat /\ b \in Nat /\ q \in Nat
  BY <1>1, <1>2
<1>6. /\ n2 \in Nat /\ n3 \in Nat /\ n4 \in Nat /\ n5 \in Nat /\ n6 \in Nat
      /\ 1 <= n2 /\ n2 <= n3 /\ n3 <= n4 /\ n4 <= n5 /\ n5 <= n6
  BY <1>4, <1>5
<1> QED
  BY <1>3, <1>6

Layout(rows, doc) ==
    /\ rows \in Seq(RowType) /\ Len(rows) = AfterAll(doc)
    /\ Block(rows, 0, "manifest", <<doc.throughRoomSeq>>)
    /\ Block(rows, 1, "event", doc.events)
    /\ Block(rows, AfterEvents(doc), "artifact", doc.artifacts)
    /\ Block(rows, AfterArtifacts(doc), "projection", doc.projections)
    /\ Block(rows, AfterProjections(doc), "artifact_provenance", doc.artifactSources)
    /\ Block(rows, AfterArtifactSources(doc), "projection_provenance", doc.projectionSources)

\* The rows of a document are its lists, in this order.
LEMMA RowsLayout ==
    ASSUME NEW doc \in DocType
    PROVE  Layout(Rows(doc), doc)
<1>1. PICK m, e, a, p, b, q : /\ m = <<doc.throughRoomSeq>> /\ e = doc.events /\ a = doc.artifacts
                              /\ p = doc.projections /\ b = doc.artifactSources
                              /\ q = doc.projectionSources
  OBVIOUS
<1>2. /\ m \in Seq(Nat) /\ e \in Seq(Nat) /\ a \in Seq(Nat) /\ p \in Seq(Nat) /\ b \in Seq(Nat)
      /\ q \in Seq(Nat) /\ Len(m) = 1
  BY <1>1 DEF DocType
<1> DEFINE x == <<Listed("manifest", m), Listed("event", e), Listed("artifact", a),
                  Listed("projection", p), Listed("artifact_provenance", b),
                  Listed("projection_provenance", q)>>
<1>3. Rows(doc) = FlattenSeq(x)
  BY <1>1, Zenon DEF Rows
<1>4. /\ Len(x) = 6 /\ x[1] = Listed("manifest", m) /\ x[2] = Listed("event", e)
      /\ x[3] = Listed("artifact", a) /\ x[4] = Listed("projection", p)
      /\ x[5] = Listed("artifact_provenance", b) /\ x[6] = Listed("projection_provenance", q)
  OBVIOUS
<1> HIDE DEF x
<1>5. PICK f : /\ f[1] = x[1] /\ \A i \in 2 .. Len(x) : f[i] = f[i - 1] \o x[i]
               /\ FlattenSeq(x) = f[Len(x)]
  <2>1. Len(x) \in Nat \ {0}
    BY <1>4
  <2> QED
    BY <2>1, JoinTurns
<1>6. /\ Joins(f[2], f[1], Listed("event", e)) /\ Joins(f[3], f[2], Listed("artifact", a))
      /\ Joins(f[4], f[3], Listed("projection", p)) /\ Joins(f[5], f[4], Listed("artifact_provenance", b))
      /\ Joins(f[6], f[5], Listed("projection_provenance", q))
  <2>1. /\ f[2] = f[2 - 1] \o x[2] /\ f[3] = f[3 - 1] \o x[3] /\ f[4] = f[4 - 1] \o x[4]
        /\ f[5] = f[5 - 1] \o x[5] /\ f[6] = f[6 - 1] \o x[6]
    <3>1. \A i \in 2 .. 6 : i \in 2 .. Len(x)
      BY <1>4
    <3>2. 2 \in 2 .. 6 /\ 3 \in 2 .. 6 /\ 4 \in 2 .. 6 /\ 5 \in 2 .. 6 /\ 6 \in 2 .. 6
      OBVIOUS
    <3> QED
      BY <3>1, <3>2, <1>5, Zenon
  <2>2. 2 - 1 = 1 /\ 3 - 1 = 2 /\ 4 - 1 = 3 /\ 5 - 1 = 4 /\ 6 - 1 = 5
    OBVIOUS
  <2> QED
    BY <2>1, <2>2, <1>4, Zenon DEF Joins
<1>7. f[1] = Listed("manifest", m) /\ Rows(doc) = f[6]
  BY <1>3, <1>4, <1>5
<1>8. PICK f1, f2, f3, f4, f5, f6 :
         /\ f1 = f[1] /\ f2 = f[2] /\ f3 = f[3] /\ f4 = f[4] /\ f5 = f[5] /\ f6 = f[6]
  OBVIOUS
<1>9. /\ "manifest" \in Types /\ "event" \in Types /\ "artifact" \in Types /\ "projection" \in Types
      /\ "artifact_provenance" \in Types /\ "projection_provenance" \in Types
  BY DEF Types
<1>10. PICK n2, n3, n4, n5, n6 :
         /\ n2 = AfterEvents(doc) /\ n3 = AfterArtifacts(doc) /\ n4 = AfterProjections(doc)
         /\ n5 = AfterArtifactSources(doc) /\ n6 = AfterAll(doc)
  OBVIOUS
<1>11. /\ n2 = 1 + Len(e) /\ n3 = n2 + Len(a) /\ n4 = n3 + Len(p) /\ n5 = n4 + Len(b) /\ n6 = n5 + Len(q)
       /\ n2 \in Nat /\ n3 \in Nat /\ n4 \in Nat /\ n5 \in Nat /\ n6 \in Nat
       /\ 1 <= n2 /\ n2 <= n3 /\ n3 <= n4 /\ n4 <= n5 /\ n5 <= n6 /\ 0 \in Nat /\ 1 \in Nat /\ 0 + Len(m) <= 1
  <2>1. n2 = 1 + Len(e) /\ n3 = n2 + Len(a) /\ n4 = n3 + Len(p) /\ n5 = n4 + Len(b) /\ n6 = n5 + Len(q)
    BY <1>1, <1>10, Zenon DEF AfterEvents, AfterArtifacts, AfterProjections, AfterArtifactSources, AfterAll
  <2>2. /\ n2 \in Nat /\ n3 \in Nat /\ n4 \in Nat /\ n5 \in Nat /\ n6 \in Nat
        /\ 1 <= n2 /\ n2 <= n3 /\ n3 <= n4 /\ n4 <= n5 /\ n5 <= n6
    BY <1>10, Places
  <2> QED
    BY <2>1, <2>2, <1>2
<1>12. f1 \in Seq(RowType) /\ Len(f1) = 1 /\ Block(f1, 0, "manifest", m)
  <2>1. /\ Listed("manifest", m) \in Seq(RowType) /\ Len(Listed("manifest", m)) = Len(m)
        /\ \A i \in 1 .. Len(m) : Listed("manifest", m)[i] = [type |-> "manifest", n |-> m[i]]
    BY <1>2, <1>9, ListedFacts, Zenon
  <2>2. \A i \in 1 .. Len(m) : 0 + i = i
    BY <1>2
  <2>3. f1 = Listed("manifest", m)
    BY <1>7, <1>8
  <2> QED
    BY <2>1, <2>2, <2>3, <1>2, Zenon DEF Block
<1>13. /\ f2 \in Seq(RowType) /\ Len(f2) = n2
       /\ Block(f2, 0, "manifest", m)
       /\ Block(f2, 1, "event", e)
  <2>1. Adds(f2, f1, 1, "event", e)
    <3>1. f1 \in Seq(RowType) /\ "event" \in Types /\ e \in Seq(Nat)
      BY <1>2, <1>9, <1>12
    <3>2. Joins(f2, f1, Listed("event", e)) /\ Len(f1) = 1
      BY <1>6, <1>8, <1>12
    <3> QED
      BY <3>1, <3>2, BlockAdded, Zenon
  <2>2. /\ f2 \in Seq(RowType) /\ Len(f2) = 1 + Len(e) /\ Block(f2, 1, "event", e)
        /\ \A i \in 1 .. 1 : f2[i] = f1[i]
    BY <2>1, Zenon DEF Adds
  <2>3. Block(f2, 0, "manifest", m)
    <3>1. 0 + Len(m) <= 1
      BY <1>11, <1>2
    <3> QED
      BY <3>1, <2>2, <1>2, <1>11, <1>12, BlockKept, Zenon
  <2> QED
    BY <2>2, <2>3, <1>11
<1>14. /\ f3 \in Seq(RowType) /\ Len(f3) = n3
       /\ Block(f3, 0, "manifest", m)
       /\ Block(f3, 1, "event", e)
       /\ Block(f3, n2, "artifact", a)
  <2>1. Adds(f3, f2, n2, "artifact", a)
    <3>1. f2 \in Seq(RowType) /\ "artifact" \in Types /\ a \in Seq(Nat)
      BY <1>2, <1>9, <1>13
    <3>2. Joins(f3, f2, Listed("artifact", a)) /\ Len(f2) = n2
      BY <1>6, <1>8, <1>13
    <3> QED
      BY <3>1, <3>2, BlockAdded, Zenon
  <2>2. /\ f3 \in Seq(RowType) /\ Len(f3) = n2 + Len(a) /\ Block(f3, n2, "artifact", a)
        /\ \A i \in 1 .. n2 : f3[i] = f2[i]
    BY <2>1, Zenon DEF Adds
  <2>3. Block(f3, 0, "manifest", m)
    <3>1. 0 + Len(m) <= n2
      BY <1>11, <1>2
    <3> QED
      BY <3>1, <2>2, <1>2, <1>11, <1>13, BlockKept, Zenon
  <2>4. Block(f3, 1, "event", e)
    <3>1. 1 + Len(e) <= n2
      BY <1>11, <1>2
    <3> QED
      BY <3>1, <2>2, <1>2, <1>11, <1>13, BlockKept, Zenon
  <2> QED
    BY <2>2, <2>3, <2>4, <1>11
<1>15. /\ f4 \in Seq(RowType) /\ Len(f4) = n4
       /\ Block(f4, 0, "manifest", m)
       /\ Block(f4, 1, "event", e)
       /\ Block(f4, n2, "artifact", a)
       /\ Block(f4, n3, "projection", p)
  <2>1. Adds(f4, f3, n3, "projection", p)
    <3>1. f3 \in Seq(RowType) /\ "projection" \in Types /\ p \in Seq(Nat)
      BY <1>2, <1>9, <1>14
    <3>2. Joins(f4, f3, Listed("projection", p)) /\ Len(f3) = n3
      BY <1>6, <1>8, <1>14
    <3> QED
      BY <3>1, <3>2, BlockAdded, Zenon
  <2>2. /\ f4 \in Seq(RowType) /\ Len(f4) = n3 + Len(p) /\ Block(f4, n3, "projection", p)
        /\ \A i \in 1 .. n3 : f4[i] = f3[i]
    BY <2>1, Zenon DEF Adds
  <2>3. Block(f4, 0, "manifest", m)
    <3>1. 0 + Len(m) <= n3
      BY <1>11, <1>2
    <3> QED
      BY <3>1, <2>2, <1>2, <1>11, <1>14, BlockKept, Zenon
  <2>4. Block(f4, 1, "event", e)
    <3>1. 1 + Len(e) <= n3
      BY <1>11, <1>2
    <3> QED
      BY <3>1, <2>2, <1>2, <1>11, <1>14, BlockKept, Zenon
  <2>5. Block(f4, n2, "artifact", a)
    <3>1. n2 + Len(a) <= n3
      BY <1>11, <1>2
    <3> QED
      BY <3>1, <2>2, <1>2, <1>11, <1>14, BlockKept, Zenon
  <2> QED
    BY <2>2, <2>3, <2>4, <2>5, <1>11
<1>16. /\ f5 \in Seq(RowType) /\ Len(f5) = n5
       /\ Block(f5, 0, "manifest", m)
       /\ Block(f5, 1, "event", e)
       /\ Block(f5, n2, "artifact", a)
       /\ Block(f5, n3, "projection", p)
       /\ Block(f5, n4, "artifact_provenance", b)
  <2>1. Adds(f5, f4, n4, "artifact_provenance", b)
    <3>1. f4 \in Seq(RowType) /\ "artifact_provenance" \in Types /\ b \in Seq(Nat)
      BY <1>2, <1>9, <1>15
    <3>2. Joins(f5, f4, Listed("artifact_provenance", b)) /\ Len(f4) = n4
      BY <1>6, <1>8, <1>15
    <3> QED
      BY <3>1, <3>2, BlockAdded, Zenon
  <2>2. /\ f5 \in Seq(RowType) /\ Len(f5) = n4 + Len(b) /\ Block(f5, n4, "artifact_provenance", b)
        /\ \A i \in 1 .. n4 : f5[i] = f4[i]
    BY <2>1, Zenon DEF Adds
  <2>3. Block(f5, 0, "manifest", m)
    <3>1. 0 + Len(m) <= n4
      BY <1>11, <1>2
    <3> QED
      BY <3>1, <2>2, <1>2, <1>11, <1>15, BlockKept, Zenon
  <2>4. Block(f5, 1, "event", e)
    <3>1. 1 + Len(e) <= n4
      BY <1>11, <1>2
    <3> QED
      BY <3>1, <2>2, <1>2, <1>11, <1>15, BlockKept, Zenon
  <2>5. Block(f5, n2, "artifact", a)
    <3>1. n2 + Len(a) <= n4
      BY <1>11, <1>2
    <3> QED
      BY <3>1, <2>2, <1>2, <1>11, <1>15, BlockKept, Zenon
  <2>6. Block(f5, n3, "projection", p)
    <3>1. n3 + Len(p) <= n4
      BY <1>11, <1>2
    <3> QED
      BY <3>1, <2>2, <1>2, <1>11, <1>15, BlockKept, Zenon
  <2> QED
    BY <2>2, <2>3, <2>4, <2>5, <2>6, <1>11
<1>17. /\ f6 \in Seq(RowType) /\ Len(f6) = n6
       /\ Block(f6, 0, "manifest", m)
       /\ Block(f6, 1, "event", e)
       /\ Block(f6, n2, "artifact", a)
       /\ Block(f6, n3, "projection", p)
       /\ Block(f6, n4, "artifact_provenance", b)
       /\ Block(f6, n5, "projection_provenance", q)
  <2>1. Adds(f6, f5, n5, "projection_provenance", q)
    <3>1. f5 \in Seq(RowType) /\ "projection_provenance" \in Types /\ q \in Seq(Nat)
      BY <1>2, <1>9, <1>16
    <3>2. Joins(f6, f5, Listed("projection_provenance", q)) /\ Len(f5) = n5
      BY <1>6, <1>8, <1>16
    <3> QED
      BY <3>1, <3>2, BlockAdded, Zenon
  <2>2. /\ f6 \in Seq(RowType) /\ Len(f6) = n5 + Len(q) /\ Block(f6, n5, "projection_provenance", q)
        /\ \A i \in 1 .. n5 : f6[i] = f5[i]
    BY <2>1, Zenon DEF Adds
  <2>3. Block(f6, 0, "manifest", m)
    <3>1. 0 + Len(m) <= n5
      BY <1>11, <1>2
    <3> QED
      BY <3>1, <2>2, <1>2, <1>11, <1>16, BlockKept, Zenon
  <2>4. Block(f6, 1, "event", e)
    <3>1. 1 + Len(e) <= n5
      BY <1>11, <1>2
    <3> QED
      BY <3>1, <2>2, <1>2, <1>11, <1>16, BlockKept, Zenon
  <2>5. Block(f6, n2, "artifact", a)
    <3>1. n2 + Len(a) <= n5
      BY <1>11, <1>2
    <3> QED
      BY <3>1, <2>2, <1>2, <1>11, <1>16, BlockKept, Zenon
  <2>6. Block(f6, n3, "projection", p)
    <3>1. n3 + Len(p) <= n5
      BY <1>11, <1>2
    <3> QED
      BY <3>1, <2>2, <1>2, <1>11, <1>16, BlockKept, Zenon
  <2>7. Block(f6, n4, "artifact_provenance", b)
    <3>1. n4 + Len(b) <= n5
      BY <1>11, <1>2
    <3> QED
      BY <3>1, <2>2, <1>2, <1>11, <1>16, BlockKept, Zenon
  <2> QED
    BY <2>2, <2>3, <2>4, <2>5, <2>6, <2>7, <1>11
<1> QED
  BY <1>1, <1>7, <1>8, <1>10, <1>17, Zenon DEF Layout

\* What is written as JSON is read as JSON.
LEMMA JsonBack ==
    ASSUME NEW n \in Nat
    PROVE  JsonValue(Json(n)) = n /\ IsJson(Json(n))
<1>1. PICK j : j = Json(n)
  OBVIOUS
<1>2. Len(j) = 8 /\ j[3] = Identity(n) /\ Len(Json(0)) = 8
  BY <1>1, JsonFacts
<1>3. j[3] >= 11 /\ JsonValue(j) = n
  BY <1>2 DEF JsonValue, Identity
<1>4. j = Json(JsonValue(j))
  BY <1>1, <1>3
<1> QED
  BY <1>1, <1>2, <1>3, <1>4, Zenon DEF IsJson

\* The rows of a type are those of one block.
Only(rows, a, type, ns) ==
    /\ Block(rows, a, type, ns)
    /\ \A i \in 1 .. Len(rows) : rows[i].type = type <=> a < i /\ i <= a + Len(ns)

\* A list of which the first k rows hold the beginning.
Clipped(l, ns, a, k) ==
    /\ l \in Seq(Nat)
    /\ Len(l) = IF k <= a THEN 0 ELSE IF k <= a + Len(ns) THEN k - a ELSE Len(ns)
    /\ \A j \in 1 .. Len(l) : l[j] = ns[j]

\* One row more, of this type or of another.
LEMMA ClippedMore ==
    ASSUME NEW rows \in Seq(RowType), NEW type \in Types, NEW ns \in Seq(Nat), NEW a \in Nat,
           Only(rows, a, type, ns), NEW k \in Nat, k + 1 <= Len(rows), NEW l, Clipped(l, ns, a, k),
           NEW v, v = IF rows[k + 1].type = type THEN Append(l, rows[k + 1].n) ELSE l
    PROVE  Clipped(v, ns, a, k + 1)
<1>1. /\ l \in Seq(Nat) /\ Len(ns) \in Nat /\ Len(l) \in Nat
      /\ Len(l) = IF k <= a THEN 0 ELSE IF k <= a + Len(ns) THEN k - a ELSE Len(ns)
  BY LenProperties DEF Clipped
<1>2. k + 1 \in 1 .. Len(rows) /\ rows[k + 1] \in RowType /\ rows[k + 1].n \in Nat
  <2>1. Len(rows) \in Nat
    BY LenProperties
  <2>2. k + 1 \in 1 .. Len(rows)
    BY <2>1
  <2>3. rows[k + 1] \in RowType
    BY <2>2, ElementOfSeq
  <2> QED
    BY <2>2, <2>3 DEF RowType
<1>3. rows[k + 1].type = type <=> a < k + 1 /\ k + 1 <= a + Len(ns)
  BY <1>2, Zenon DEF Only
<1>4. CASE rows[k + 1].type # type
  <2>1. v = l
    BY <1>4
  <2>2. Len(l) = IF k + 1 <= a THEN 0 ELSE IF k + 1 <= a + Len(ns) THEN (k + 1) - a ELSE Len(ns)
    <3>1. PICK m, p : m = Len(ns) /\ p = Len(l)
      OBVIOUS
    <3>2. m \in Nat /\ p \in Nat /\ p = IF k <= a THEN 0 ELSE IF k <= a + m THEN k - a ELSE m
      BY <3>1, <1>1
    <3>3. ~(a < k + 1 /\ k + 1 <= a + m)
      BY <3>1, <1>3, <1>4
    <3>4. p = IF k + 1 <= a THEN 0 ELSE IF k + 1 <= a + m THEN (k + 1) - a ELSE m
      BY <3>2, <3>3
    <3> QED
      BY <3>1, <3>4
  <2> QED
    BY <2>1, <2>2, Zenon DEF Clipped
<1>5. CASE rows[k + 1].type = type
  <2>1. PICK c : c = rows[k + 1].n
    OBVIOUS
  <2>2. Len(l) = k - a /\ Len(l) + 1 = (k + 1) - a /\ Len(l) + 1 \in 1 .. Len(ns) /\ a + (Len(l) + 1) = k + 1
    <3>1. PICK m, p : m = Len(ns) /\ p = Len(l)
      OBVIOUS
    <3>2. m \in Nat /\ p \in Nat /\ p = IF k <= a THEN 0 ELSE IF k <= a + m THEN k - a ELSE m
      BY <3>1, <1>1
    <3>3. a < k + 1 /\ k + 1 <= a + m
      BY <3>1, <1>3, <1>5
    <3>4. p = k - a /\ p + 1 = (k + 1) - a /\ p + 1 \in 1 .. m /\ a + (p + 1) = k + 1
      BY <3>2, <3>3
    <3> QED
      BY <3>1, <3>4
  <2>3. c = ns[Len(l) + 1]
    <3>1. rows[a + (Len(l) + 1)] = [type |-> type, n |-> ns[Len(l) + 1]]
      BY <2>2, Zenon DEF Only, Block
    <3>2. rows[k + 1].n = ns[Len(l) + 1]
      BY <3>1, <2>2
    <3> QED
      BY <3>2, <2>1
  <2>4. v = Append(l, c) /\ c \in Nat
    BY <1>2, <1>5, <2>1
  <2>5. /\ v \in Seq(Nat) /\ Len(v) = Len(l) + 1 /\ (\A j \in 1 .. Len(l) : v[j] = l[j])
        /\ v[Len(l) + 1] = c
    <3>1. /\ Append(l, c) \in Seq(Nat) /\ Len(Append(l, c)) = Len(l) + 1
          /\ \A j \in 1 .. Len(l) : Append(l, c)[j] = l[j]
          /\ Append(l, c)[Len(l) + 1] = c
      <4>1. l \in Seq(Nat) /\ c \in Nat
        BY <1>1, <2>4
      <4> QED
        BY <4>1, AppendProperties
    <3> QED
      BY <2>4, <3>1, Zenon
  <2>6. ASSUME NEW j \in 1 .. Len(v)
        PROVE  v[j] = ns[j]
    <3>1. CASE j = Len(l) + 1
      BY <3>1, <2>3, <2>5
    <3>2. CASE j # Len(l) + 1
      <4>1. j \in 1 .. Len(l)
        BY <3>2, <2>5, <1>1, SMTT(30)
      <4>2. v[j] = l[j] /\ l[j] = ns[j]
        BY <4>1, <2>5, Zenon DEF Clipped
      <4> QED
        BY <4>2
    <3> QED
      BY <3>1, <3>2
  <2>7. Len(v) = IF k + 1 <= a THEN 0 ELSE IF k + 1 <= a + Len(ns) THEN (k + 1) - a ELSE Len(ns)
    BY <1>1, <1>3, <1>5, <2>2, <2>5
  <2> QED
    BY <2>5, <2>6, <2>7, Zenon DEF Clipped
<1> QED
  BY <1>4, <1>5

\* What the validation files under a type, of the first r rows.
LEMMA FiledClipped ==
    ASSUME NEW rows \in Seq(RowType), NEW r \in 0 .. Len(rows), NEW recs, RecordsOf(recs, rows, r),
           NEW type \in Types, NEW ns \in Seq(Nat), NEW a \in Nat, Only(rows, a, type, ns)
    PROVE  Clipped(FiledRecords(recs)[type], ns, a, r)
<1>1. Len(recs) = r /\ r \in Nat /\ Len(rows) \in Nat /\ r <= Len(rows)
  <2>1. Len(rows) \in Nat
    BY LenProperties
  <2> QED
    BY <2>1 DEF RecordsOf
<1> DEFINE base == [t \in DOMAIN RecordTypes |-> << >>]
<1>2. PICK f : Turns(f, "file", base, recs, Len(recs)) /\ FiledRecords(recs) = f[Len(recs)]
  BY <1>1, FileTurns
<1>3. base[type] = << >>
  BY TypeFacts
<1> HIDE DEF base
<1>4. f[0] = base /\ \A i \in 1 .. r : f[i] = Turn("file", f[i - 1], i, recs)
  BY <1>1, <1>2, TurnsFacts
<1>5. ASSUME NEW k \in Nat, k + 1 <= r
      PROVE  f[k + 1][type] = IF rows[k + 1].type = type THEN Append(f[k][type], rows[k + 1].n)
                              ELSE f[k][type]
  <2>1. k + 1 \in 1 .. r /\ (k + 1) - 1 = k /\ k + 1 \in 1 .. Len(rows)
    BY <1>1, <1>5
  <2>2. f[k + 1] = Turn("file", f[k], k + 1, recs)
    BY <2>1, <1>4, Zenon
  <2>3. Turn("file", f[k], k + 1, recs) = Filed(f[k], recs[k + 1])
    BY DEF Turn
  <2>4. PICK c, g, entry : c = recs[k + 1] /\ g = f[k] /\ entry = rows[k + 1]
    OBVIOUS
  <2>5. entry \in RowType /\ entry.type \in Types /\ entry.n \in Nat
    <3>1. entry \in RowType
      BY <2>1, <2>4, ElementOfSeq
    <3> QED
      BY <3>1 DEF RowType
  <2>6. c[1] = <<RecordTypes[entry.type]>> /\ c[2] = Json(entry.n)
    <3>1. c = Rec(RecordTypes[entry.type], entry.n)
      BY <2>1, <2>4, Zenon DEF RecordsOf
    <3>2. RecordTypes[entry.type] \in Nat
      BY <2>5, TypeFacts
    <3> QED
      BY <3>1, <3>2, <2>5, RecFacts, Zenon
  <2>7. c[1] = <<RecordTypes[type]>> <=> entry.type = type
    <3>1. \A y, z : <<y>> = <<z>> <=> y = z
      OBVIOUS
    <3>2. RecordTypes[entry.type] = RecordTypes[type] <=> entry.type = type
      BY <2>5, TypeFacts
    <3> QED
      BY <3>1, <3>2, <2>6, Zenon
  <2>8. JsonValue(c[2]) = entry.n
    BY <2>5, <2>6, JsonBack
  <2>9. Filed(g, c)[type] = IF c[1] = <<RecordTypes[type]>> THEN Append(g[type], JsonValue(c[2]))
                            ELSE g[type]
    <3>1. type \in DOMAIN RecordTypes
      BY TypeFacts
    <3> QED
      BY <3>1, Zenon DEF Filed
  <2> QED
    BY <2>2, <2>3, <2>4, <2>7, <2>8, <2>9, Zenon
<1> DEFINE T == {k \in Nat : k <= r /\ ~Clipped(f[k][type], ns, a, k)}
<1>6. Clipped(f[0][type], ns, a, 0)
  <2>1. f[0][type] = << >>
    BY <1>3, <1>4
  <2>2. << >> \in Seq(Nat) /\ Len(<< >>) = 0 /\ 0 <= a
    OBVIOUS
  <2>3. PICK e : e = f[0][type] /\ e \in Seq(Nat) /\ Len(e) = 0
    BY <2>1, <2>2
  <2>4. \A j \in 1 .. Len(e) : e[j] = ns[j]
    BY <2>3
  <2> QED
    BY <2>2, <2>3, <2>4, Zenon DEF Clipped
<1>7. T = {}
  <2> SUFFICES ASSUME T # {} PROVE FALSE
    OBVIOUS
  <2>1. PICK k \in T : \A y \in T : k <= y
    BY SmallestNumber
  <2>2. k # 0 /\ k \in Nat /\ k <= r /\ ~Clipped(f[k][type], ns, a, k)
    BY <2>1, <1>6
  <2>3. k - 1 \in Nat /\ (k - 1) + 1 = k /\ k - 1 <= r /\ ~(k <= k - 1) /\ (k - 1) + 1 <= Len(rows)
    BY <2>2, <1>1
  <2>4. Clipped(f[k - 1][type], ns, a, k - 1)
    BY <2>1, <2>3
  <2>5. f[k][type] = IF rows[(k - 1) + 1].type = type
                     THEN Append(f[k - 1][type], rows[(k - 1) + 1].n) ELSE f[k - 1][type]
    BY <2>2, <2>3, <1>5
  <2>6. Clipped(f[k][type], ns, a, (k - 1) + 1)
    BY <2>3, <2>4, <2>5, ClippedMore, Zenon
  <2> QED
    BY <2>2, <2>3, <2>6
<1> QED
  BY <1>1, <1>2, <1>7

LEMMA InBlock ==
    ASSUME NEW rows, NEW a \in Nat, NEW type, NEW ns \in Seq(Nat), Block(rows, a, type, ns),
           NEW i \in Nat, a < i, i <= a + Len(ns)
    PROVE  rows[i].type = type
<1>1. Len(ns) \in Nat
  BY LenProperties
<1>2. i - a \in 1 .. Len(ns) /\ a + (i - a) = i
  BY <1>1
<1>3. rows[a + (i - a)] = [type |-> type, n |-> ns[i - a]]
  BY <1>2, Zenon DEF Block
<1> QED
  BY <1>2, <1>3

\* Each list of the document is the only block of its type.
LEMMA LayoutOnly ==
    ASSUME NEW doc \in DocType, NEW rows, Layout(rows, doc)
    PROVE  /\ Only(rows, 0, "manifest", <<doc.throughRoomSeq>>)
           /\ Only(rows, 1, "event", doc.events)
           /\ Only(rows, AfterEvents(doc), "artifact", doc.artifacts)
           /\ Only(rows, AfterArtifacts(doc), "projection", doc.projections)
           /\ Only(rows, AfterProjections(doc), "artifact_provenance", doc.artifactSources)
           /\ Only(rows, AfterArtifactSources(doc), "projection_provenance", doc.projectionSources)
<1>1. PICK m, e, a, p, b, q : /\ m = <<doc.throughRoomSeq>> /\ e = doc.events /\ a = doc.artifacts
                              /\ p = doc.projections /\ b = doc.artifactSources
                              /\ q = doc.projectionSources
  OBVIOUS
<1>2. /\ m \in Seq(Nat) /\ e \in Seq(Nat) /\ a \in Seq(Nat) /\ p \in Seq(Nat) /\ b \in Seq(Nat)
      /\ q \in Seq(Nat) /\ Len(m) = 1
  BY <1>1 DEF DocType
<1>3. PICK n2, n3, n4, n5, n6 :
         /\ n2 = AfterEvents(doc) /\ n3 = AfterArtifacts(doc) /\ n4 = AfterProjections(doc)
         /\ n5 = AfterArtifactSources(doc) /\ n6 = AfterAll(doc)
  OBVIOUS
<1>4. /\ n2 = 1 + Len(e) /\ n3 = n2 + Len(a) /\ n4 = n3 + Len(p) /\ n5 = n4 + Len(b) /\ n6 = n5 + Len(q)
      /\ n2 \in Nat /\ n3 \in Nat /\ n4 \in Nat /\ n5 \in Nat /\ n6 \in Nat
      /\ 1 <= n2 /\ n2 <= n3 /\ n3 <= n4 /\ n4 <= n5 /\ n5 <= n6
  <2>1. n2 = 1 + Len(e) /\ n3 = n2 + Len(a) /\ n4 = n3 + Len(p) /\ n5 = n4 + Len(b) /\ n6 = n5 + Len(q)
    BY <1>1, <1>3, Zenon DEF AfterEvents, AfterArtifacts, AfterProjections, AfterArtifactSources, AfterAll
  <2>2. /\ n2 \in Nat /\ n3 \in Nat /\ n4 \in Nat /\ n5 \in Nat /\ n6 \in Nat
        /\ 1 <= n2 /\ n2 <= n3 /\ n3 <= n4 /\ n4 <= n5 /\ n5 <= n6
    BY <1>3, Places
  <2> QED
    BY <2>1, <2>2
<1>5. /\ Block(rows, 0, "manifest", m) /\ Block(rows, 1, "event", e) /\ Block(rows, n2, "artifact", a)
      /\ Block(rows, n3, "projection", p) /\ Block(rows, n4, "artifact_provenance", b)
      /\ Block(rows, n5, "projection_provenance", q) /\ Len(rows) = n6
  BY <1>1, <1>3, Zenon DEF Layout
<1>6. ASSUME NEW i \in 1 .. Len(rows)
      PROVE  /\ rows[i].type = "manifest" <=> 0 < i /\ i <= 0 + Len(m)
             /\ rows[i].type = "event" <=> 1 < i /\ i <= 1 + Len(e)
             /\ rows[i].type = "artifact" <=> n2 < i /\ i <= n2 + Len(a)
             /\ rows[i].type = "projection" <=> n3 < i /\ i <= n3 + Len(p)
             /\ rows[i].type = "artifact_provenance" <=> n4 < i /\ i <= n4 + Len(b)
             /\ rows[i].type = "projection_provenance" <=> n5 < i /\ i <= n5 + Len(q)
  <2>1. i \in Nat /\ 1 <= i /\ i <= n6
    BY <1>4, <1>5
  <2>2. PICK t : t = rows[i].type
    OBVIOUS
  <2>3. /\ 0 < i /\ i <= 0 + Len(m) => t = "manifest"
        /\ 1 < i /\ i <= 1 + Len(e) => t = "event"
        /\ n2 < i /\ i <= n2 + Len(a) => t = "artifact"
        /\ n3 < i /\ i <= n3 + Len(p) => t = "projection"
        /\ n4 < i /\ i <= n4 + Len(b) => t = "artifact_provenance"
        /\ n5 < i /\ i <= n5 + Len(q) => t = "projection_provenance"
    <3>1. 0 \in Nat /\ 1 \in Nat
      OBVIOUS
    <3>2. ASSUME 0 < i, i <= 0 + Len(m) PROVE t = "manifest"
      <4>1. 0 \in Nat /\ m \in Seq(Nat) /\ Block(rows, 0, "manifest", m) /\ i \in Nat
        BY <3>1, <2>1, <1>2, <1>4, <1>5
      <4> QED
        BY <4>1, <3>2, <2>2, InBlock
    <3>3. ASSUME 1 < i, i <= 1 + Len(e) PROVE t = "event"
      <4>1. 1 \in Nat /\ e \in Seq(Nat) /\ Block(rows, 1, "event", e) /\ i \in Nat
        BY <3>1, <2>1, <1>2, <1>4, <1>5
      <4> QED
        BY <4>1, <3>3, <2>2, InBlock
    <3>4. ASSUME n2 < i, i <= n2 + Len(a) PROVE t = "artifact"
      <4>1. n2 \in Nat /\ a \in Seq(Nat) /\ Block(rows, n2, "artifact", a) /\ i \in Nat
        BY <3>1, <2>1, <1>2, <1>4, <1>5
      <4> QED
        BY <4>1, <3>4, <2>2, InBlock
    <3>5. ASSUME n3 < i, i <= n3 + Len(p) PROVE t = "projection"
      <4>1. n3 \in Nat /\ p \in Seq(Nat) /\ Block(rows, n3, "projection", p) /\ i \in Nat
        BY <3>1, <2>1, <1>2, <1>4, <1>5
      <4> QED
        BY <4>1, <3>5, <2>2, InBlock
    <3>6. ASSUME n4 < i, i <= n4 + Len(b) PROVE t = "artifact_provenance"
      <4>1. n4 \in Nat /\ b \in Seq(Nat) /\ Block(rows, n4, "artifact_provenance", b) /\ i \in Nat
        BY <3>1, <2>1, <1>2, <1>4, <1>5
      <4> QED
        BY <4>1, <3>6, <2>2, InBlock
    <3>7. ASSUME n5 < i, i <= n5 + Len(q) PROVE t = "projection_provenance"
      <4>1. n5 \in Nat /\ q \in Seq(Nat) /\ Block(rows, n5, "projection_provenance", q) /\ i \in Nat
        BY <3>1, <2>1, <1>2, <1>4, <1>5
      <4> QED
        BY <4>1, <3>7, <2>2, InBlock
    <3> QED
      BY <3>2, <3>3, <3>4, <3>5, <3>6, <3>7
  <2>4. \/ 0 < i /\ i <= 0 + Len(m)
        \/ 1 < i /\ i <= 1 + Len(e)
        \/ n2 < i /\ i <= n2 + Len(a)
        \/ n3 < i /\ i <= n3 + Len(p)
        \/ n4 < i /\ i <= n4 + Len(b)
        \/ n5 < i /\ i <= n5 + Len(q)
    <3>1. PICK le, la, lp, lb, lq : /\ le = Len(e) /\ la = Len(a) /\ lp = Len(p) /\ lb = Len(b) /\ lq = Len(q)
                                    /\ le \in Nat /\ la \in Nat /\ lp \in Nat /\ lb \in Nat /\ lq \in Nat
      BY <1>2, LenProperties
    <3>2. \/ 0 < i /\ i <= 0 + 1
          \/ 1 < i /\ i <= 1 + le
          \/ n2 < i /\ i <= n2 + la
          \/ n3 < i /\ i <= n3 + lp
          \/ n4 < i /\ i <= n4 + lb
          \/ n5 < i /\ i <= n5 + lq
      <4>1. n2 = 1 + le /\ n3 = n2 + la /\ n4 = n3 + lp /\ n5 = n4 + lb /\ n6 = n5 + lq
        BY <3>1, <1>4
      <4> QED
        BY <4>1, <3>1, <2>1, SMTT(30)
    <3> QED
      BY <3>1, <3>2, <1>2
  <2>5. /\ "manifest" # "event" /\ "manifest" # "artifact" /\ "manifest" # "projection"
        /\ "manifest" # "artifact_provenance" /\ "manifest" # "projection_provenance"
        /\ "event" # "artifact" /\ "event" # "projection" /\ "event" # "artifact_provenance"
        /\ "event" # "projection_provenance" /\ "artifact" # "projection"
        /\ "artifact" # "artifact_provenance" /\ "artifact" # "projection_provenance"
        /\ "projection" # "artifact_provenance" /\ "projection" # "projection_provenance"
        /\ "artifact_provenance" # "projection_provenance"
    OBVIOUS
  <2> QED
    BY <2>2, <2>3, <2>4, <2>5, Zenon
<1>7. /\ Only(rows, 0, "manifest", m) /\ Only(rows, 1, "event", e) /\ Only(rows, n2, "artifact", a)
      /\ Only(rows, n3, "projection", p) /\ Only(rows, n4, "artifact_provenance", b)
      /\ Only(rows, n5, "projection_provenance", q)
  BY <1>5, <1>6, Zenon DEF Only
<1> QED
  BY <1>1, <1>3, <1>7, Zenon

\* The validation of the first r rows: the lists it compares.
LEMMA ReadLists ==
    ASSUME NEW doc \in DocType, NEW r \in 1 .. AfterAll(doc), NEW recs, RecordsOf(recs, Rows(doc), r)
    PROVE  /\ Clipped(FiledRecords(recs)["manifest"], <<doc.throughRoomSeq>>, 0, r)
           /\ Clipped(FiledRecords(recs)["event"], doc.events, 1, r)
           /\ Clipped(FiledRecords(recs)["artifact"], doc.artifacts, AfterEvents(doc), r)
           /\ Clipped(FiledRecords(recs)["projection"], doc.projections, AfterArtifacts(doc), r)
           /\ Clipped(FiledRecords(recs)["artifact_provenance"], doc.artifactSources,
                      AfterProjections(doc), r)
           /\ Clipped(FiledRecords(recs)["projection_provenance"], doc.projectionSources,
                      AfterArtifactSources(doc), r)
<1>1. PICK rows : rows = Rows(doc)
  OBVIOUS
<1>2. Layout(rows, doc) /\ RecordsOf(recs, rows, r)
  BY <1>1, RowsLayout
<1>3. rows \in Seq(RowType) /\ r \in 0 .. Len(rows)
  <2>1. rows \in Seq(RowType) /\ Len(rows) = AfterAll(doc)
    BY <1>2, Zenon DEF Layout
  <2>2. AfterAll(doc) \in Nat
    BY Places
  <2> QED
    BY <2>1, <2>2
<1>4. /\ <<doc.throughRoomSeq>> \in Seq(Nat) /\ doc.events \in Seq(Nat) /\ doc.artifacts \in Seq(Nat)
      /\ doc.projections \in Seq(Nat) /\ doc.artifactSources \in Seq(Nat)
      /\ doc.projectionSources \in Seq(Nat)
  BY DEF DocType
<1>5. /\ AfterEvents(doc) \in Nat /\ AfterArtifacts(doc) \in Nat /\ AfterProjections(doc) \in Nat
      /\ AfterArtifactSources(doc) \in Nat /\ 0 \in Nat /\ 1 \in Nat
  BY Places
<1>6. /\ Only(rows, 0, "manifest", <<doc.throughRoomSeq>>)
      /\ Only(rows, 1, "event", doc.events)
      /\ Only(rows, AfterEvents(doc), "artifact", doc.artifacts)
      /\ Only(rows, AfterArtifacts(doc), "projection", doc.projections)
      /\ Only(rows, AfterProjections(doc), "artifact_provenance", doc.artifactSources)
      /\ Only(rows, AfterArtifactSources(doc), "projection_provenance", doc.projectionSources)
  BY <1>2, LayoutOnly, Zenon
<1>7. /\ "manifest" \in Types /\ "event" \in Types /\ "artifact" \in Types /\ "projection" \in Types
      /\ "artifact_provenance" \in Types /\ "projection_provenance" \in Types
  BY DEF Types
<1>8. ASSUME NEW type \in Types, NEW ns \in Seq(Nat), NEW a \in Nat, Only(rows, a, type, ns)
      PROVE  Clipped(FiledRecords(recs)[type], ns, a, r)
  BY <1>2, <1>3, <1>8, FiledClipped, Zenon
<1>9. Clipped(FiledRecords(recs)["manifest"], <<doc.throughRoomSeq>>, 0, r)
  BY <1>4, <1>5, <1>6, <1>7, <1>8, Zenon
<1>10. Clipped(FiledRecords(recs)["event"], doc.events, 1, r)
  BY <1>4, <1>5, <1>6, <1>7, <1>8, Zenon
<1>11. Clipped(FiledRecords(recs)["artifact"], doc.artifacts, AfterEvents(doc), r)
  BY <1>4, <1>5, <1>6, <1>7, <1>8, Zenon
<1>12. Clipped(FiledRecords(recs)["projection"], doc.projections, AfterArtifacts(doc), r)
  BY <1>4, <1>5, <1>6, <1>7, <1>8, Zenon
<1>13. Clipped(FiledRecords(recs)["artifact_provenance"], doc.artifactSources, AfterProjections(doc), r)
  BY <1>4, <1>5, <1>6, <1>7, <1>8, Zenon
<1>14. Clipped(FiledRecords(recs)["projection_provenance"], doc.projectionSources,
               AfterArtifactSources(doc), r)
  BY <1>4, <1>5, <1>6, <1>7, <1>8, Zenon
<1> QED
  BY <1>9, <1>10, <1>11, <1>12, <1>13, <1>14, Zenon

\* The document the validation puts together.
Assembled(lists) ==
    [throughRoomSeq |-> lists["manifest"][1],
     events |-> lists["event"], artifacts |-> lists["artifact"], projections |-> lists["projection"],
     artifactSources |-> lists["artifact_provenance"],
     projectionSources |-> lists["projection_provenance"]]

\* A clipped list that is not shorter is the list.
LEMMA NotClipped ==
    ASSUME NEW ns \in Seq(Nat), NEW a \in Nat, NEW k \in Nat, NEW l, Clipped(l, ns, a, k), a + Len(ns) <= k
    PROVE  l = ns
<1>1. Len(ns) \in Nat /\ l \in Seq(Nat)
  BY LenProperties DEF Clipped
<1>2. Len(l) = Len(ns)
  <2>1. PICK m : m = Len(ns)
    OBVIOUS
  <2>2. Len(l) = IF k <= a THEN 0 ELSE IF k <= a + m THEN k - a ELSE m
    BY <2>1, Zenon DEF Clipped
  <2>3. m \in Nat /\ a + m <= k
    BY <2>1, <1>1
  <2> QED
    BY <2>1, <2>2, <2>3
<1>3. \A j \in 1 .. Len(l) : l[j] = ns[j]
  BY Zenon DEF Clipped
<1> QED
  BY <1>1, <1>2, <1>3, SeqEqual

\* The counts of a clipped document agree only at its end or after its events.
LEMMA CutPlaces ==
    ASSUME NEW e \in Nat, NEW a \in Nat, NEW p \in Nat, NEW r \in Nat, 1 <= r,
           NEW n2, n2 = 1 + e, NEW n3, n3 = n2 + a, NEW n4, n4 = n3 + p, NEW n5, n5 = n4 + a,
           NEW n6, n6 = n5 + p, r <= n6,
           NEW le, le = IF r <= 1 THEN 0 ELSE IF r <= 1 + e THEN r - 1 ELSE e,
           NEW la, la = IF r <= n2 THEN 0 ELSE IF r <= n2 + a THEN r - n2 ELSE a,
           NEW lp, lp = IF r <= n3 THEN 0 ELSE IF r <= n3 + p THEN r - n3 ELSE p,
           NEW lb, lb = IF r <= n4 THEN 0 ELSE IF r <= n4 + a THEN r - n4 ELSE a,
           NEW lq, lq = IF r <= n5 THEN 0 ELSE IF r <= n5 + p THEN r - n5 ELSE p,
           le = e, lb = la, lq = lp
    PROVE  r = n6 \/ r = n2
  OBVIOUS

\* What the validation accepts of r whole rows, and that it accepts them all.
LEMMA ValidRows ==
    ASSUME NEW doc \in DocType, Semantics(doc), NEW r \in 1 .. AfterAll(doc),
           NEW x, Prints(x, Rows(doc), r), NEW text, Tail(text) = x,
           Len(text) > 0, text[1] = Header, Last(text) = Newline
    PROVE  /\ ValidateCsvExport(text) => r = AfterAll(doc) \/ r = AfterEvents(doc)
           /\ r = AfterAll(doc) => ValidateCsvExport(text)
<1>1. PICK rows : rows = Rows(doc)
  OBVIOUS
<1>2. rows \in Seq(RowType) /\ Len(rows) = AfterAll(doc) /\ Len(rows) \in Nat /\ r \in 0 .. Len(rows)
  <2>1. rows \in Seq(RowType) /\ Len(rows) = AfterAll(doc)
    BY <1>1, RowsLayout, Zenon DEF Layout
  <2>2. AfterAll(doc) \in Nat
    BY Places
  <2> QED
    BY <2>1, <2>2
<1>3. PICK recs : recs = ParseCsvRecords(text).records
  OBVIOUS
<1>4. ParseCsvRecords(text).ok /\ RecordsOf(recs, rows, r)
  BY <1>1, <1>2, <1>3, ReadBack, Zenon
<1>5. PICK lists : lists = FiledRecords(recs)
  OBVIOUS
<1>6. ASSUME NEW i \in 1 .. Len(recs)
      PROVE  /\ \E type \in DOMAIN RecordTypes : recs[i][1] = <<RecordTypes[type]>>
             /\ IsJson(recs[i][2])
  <2>1. Len(recs) = r /\ i \in 1 .. r /\ i \in 1 .. Len(rows)
    <3>1. Len(recs) = r
      BY <1>4, Zenon DEF RecordsOf
    <3> QED
      BY <3>1, <1>2
  <2>2. rows[i] \in RowType
    BY <2>1, <1>2, ElementOfSeq
  <2>3. rows[i].type \in Types /\ rows[i].n \in Nat
    BY <2>2 DEF RowType
  <2>4. rows[i].type \in DOMAIN RecordTypes /\ RecordTypes[rows[i].type] \in Nat
    BY <2>3, TypeFacts
  <2>5. recs[i] = Rec(RecordTypes[rows[i].type], rows[i].n)
    BY <2>1, <1>4, Zenon DEF RecordsOf
  <2>6. recs[i][1] = <<RecordTypes[rows[i].type]>> /\ recs[i][2] = Json(rows[i].n)
    <3>1. PICK y, n : y = RecordTypes[rows[i].type] /\ n = rows[i].n
      OBVIOUS
    <3>2. y \in Nat /\ n \in Nat
      BY <3>1, <2>3, <2>4
    <3>3. Rec(y, n)[1] = <<y>> /\ Rec(y, n)[2] = Json(n)
      BY <3>2, RecFacts
    <3> QED
      BY <3>1, <3>3, <2>5, Zenon
  <2>7. IsJson(Json(rows[i].n))
    BY <2>3, JsonBack
  <2> QED
    BY <2>4, <2>6, <2>7, Zenon
<1>7. ValidateCsvExport(text) <=> Len(lists["manifest"]) = 1 /\ Semantics(Assembled(lists))
  BY <1>3, <1>4, <1>5, <1>6, Zenon DEF ValidateCsvExport, Assembled
<1>8. PICK m, e, a, p, b, q : /\ m = lists["manifest"] /\ e = lists["event"] /\ a = lists["artifact"]
                              /\ p = lists["projection"] /\ b = lists["artifact_provenance"]
                              /\ q = lists["projection_provenance"]
  OBVIOUS
<1>9. /\ Clipped(m, <<doc.throughRoomSeq>>, 0, r) /\ Clipped(e, doc.events, 1, r)
      /\ Clipped(a, doc.artifacts, AfterEvents(doc), r)
      /\ Clipped(p, doc.projections, AfterArtifacts(doc), r)
      /\ Clipped(b, doc.artifactSources, AfterProjections(doc), r)
      /\ Clipped(q, doc.projectionSources, AfterArtifactSources(doc), r)
  BY <1>1, <1>4, <1>5, <1>8, ReadLists, Zenon
<1>10. PICK D : D = Assembled(lists)
  OBVIOUS
<1>11. D = [throughRoomSeq |-> m[1], events |-> e, artifacts |-> a, projections |-> p,
            artifactSources |-> b, projectionSources |-> q]
  BY <1>8, <1>10, Zenon DEF Assembled
<1>12. /\ D.throughRoomSeq = m[1] /\ D.events = e /\ D.artifacts = a /\ D.projections = p
       /\ D.artifactSources = b /\ D.projectionSources = q
  BY <1>11
<1>13. /\ doc.throughRoomSeq \in Nat /\ doc.events \in Seq(Nat) /\ doc.artifacts \in Seq(Nat)
       /\ doc.projections \in Seq(Nat) /\ doc.artifactSources \in Seq(Nat)
       /\ doc.projectionSources \in Seq(Nat)
       /\ doc = [throughRoomSeq |-> doc.throughRoomSeq, events |-> doc.events,
                 artifacts |-> doc.artifacts, projections |-> doc.projections,
                 artifactSources |-> doc.artifactSources,
                 projectionSources |-> doc.projectionSources]
  BY DEF DocType
<1>14. m = <<doc.throughRoomSeq>>
  <2>1. PICK c : c = <<doc.throughRoomSeq>> /\ c \in Seq(Nat) /\ Len(c) = 1
    <3>1. doc.throughRoomSeq \in Nat
      BY <1>13
    <3>2. <<doc.throughRoomSeq>> \in Seq(Nat) /\ Len(<<doc.throughRoomSeq>>) = 1
      BY <3>1
    <3> QED
      BY <3>2
  <2>2. Clipped(m, c, 0, r)
    BY <1>9, <2>1, Zenon
  <2>3. 0 + Len(c) <= r /\ 0 \in Nat /\ r \in Nat
    <3>1. r \in Nat /\ 1 <= r
      BY <1>2
    <3> QED
      BY <3>1, <2>1
  <2>4. m = c
    BY <2>1, <2>2, <2>3, NotClipped, Zenon
  <2> QED
    BY <2>1, <2>4, Zenon
<1>15. m[1] = doc.throughRoomSeq /\ Len(m) = 1
  BY <1>14
<1>16. ASSUME ValidateCsvExport(text)
       PROVE  r = AfterAll(doc) \/ r = AfterEvents(doc)
  <2>1. Len(e) = doc.throughRoomSeq /\ Len(b) = Len(a) /\ Len(q) = Len(p)
    <3>1. Semantics(D)
      BY <1>7, <1>10, <1>16
    <3>2. /\ Len(D.events) = D.throughRoomSeq /\ Len(D.artifactSources) = Len(D.artifacts)
          /\ Len(D.projectionSources) = Len(D.projections)
      BY <3>1, Zenon DEF Semantics
    <3> QED
      BY <3>2, <1>12, <1>15
  <2>2. /\ Len(doc.events) = doc.throughRoomSeq /\ Len(doc.artifactSources) = Len(doc.artifacts)
        /\ Len(doc.projectionSources) = Len(doc.projections)
    BY Zenon DEF Semantics
  <2>3. PICK ne, na, np, n2, n3, n4, n5, n6 :
           /\ ne = Len(doc.events) /\ na = Len(doc.artifacts) /\ np = Len(doc.projections)
           /\ n2 = AfterEvents(doc) /\ n3 = AfterArtifacts(doc) /\ n4 = AfterProjections(doc)
           /\ n5 = AfterArtifactSources(doc) /\ n6 = AfterAll(doc)
    OBVIOUS
  <2>4. n2 = 1 + ne /\ n3 = n2 + na /\ n4 = n3 + np /\ n5 = n4 + na /\ n6 = n5 + np
    BY <2>2, <2>3, Zenon DEF AfterEvents, AfterArtifacts, AfterProjections, AfterArtifactSources, AfterAll
  <2>5. /\ Len(e) = IF r <= 1 THEN 0 ELSE IF r <= 1 + ne THEN r - 1 ELSE ne
        /\ Len(a) = IF r <= n2 THEN 0 ELSE IF r <= n2 + na THEN r - n2 ELSE na
        /\ Len(p) = IF r <= n3 THEN 0 ELSE IF r <= n3 + np THEN r - n3 ELSE np
        /\ Len(b) = IF r <= n4 THEN 0 ELSE IF r <= n4 + na THEN r - n4 ELSE na
        /\ Len(q) = IF r <= n5 THEN 0 ELSE IF r <= n5 + np THEN r - n5 ELSE np
    BY <1>9, <2>2, <2>3, Zenon DEF Clipped
  <2>6. ne \in Nat /\ na \in Nat /\ np \in Nat /\ r \in Nat /\ 1 <= r /\ r <= n6
    <3>1. ne \in Nat /\ na \in Nat /\ np \in Nat
      BY <2>3, <1>13, LenProperties
    <3> QED
      BY <3>1, <2>3, <1>2
  <2>7. PICK le, la, lp, lb, lq : le = Len(e) /\ la = Len(a) /\ lp = Len(p) /\ lb = Len(b) /\ lq = Len(q)
    OBVIOUS
  <2>8. /\ le = IF r <= 1 THEN 0 ELSE IF r <= 1 + ne THEN r - 1 ELSE ne
        /\ la = IF r <= n2 THEN 0 ELSE IF r <= n2 + na THEN r - n2 ELSE na
        /\ lp = IF r <= n3 THEN 0 ELSE IF r <= n3 + np THEN r - n3 ELSE np
        /\ lb = IF r <= n4 THEN 0 ELSE IF r <= n4 + na THEN r - n4 ELSE na
        /\ lq = IF r <= n5 THEN 0 ELSE IF r <= n5 + np THEN r - n5 ELSE np
        /\ le = ne /\ lb = la /\ lq = lp
    BY <2>1, <2>2, <2>3, <2>5, <2>7, Zenon
  <2>9. r = n6 \/ r = n2
    BY <2>4, <2>6, <2>8, CutPlaces
  <2> QED
    BY <2>3, <2>9
<1>17. ASSUME r = AfterAll(doc)
       PROVE  ValidateCsvExport(text)
  <2>1. /\ 1 + Len(doc.events) <= r /\ AfterEvents(doc) + Len(doc.artifacts) <= r
        /\ AfterArtifacts(doc) + Len(doc.projections) <= r
        /\ AfterProjections(doc) + Len(doc.artifactSources) <= r
        /\ AfterArtifactSources(doc) + Len(doc.projectionSources) <= r
    <3>1. PICK n2, n3, n4, n5, n6 :
           /\ n2 = AfterEvents(doc) /\ n3 = AfterArtifacts(doc) /\ n4 = AfterProjections(doc)
           /\ n5 = AfterArtifactSources(doc) /\ n6 = AfterAll(doc)
      OBVIOUS
    <3>2. /\ n2 = 1 + Len(doc.events) /\ n3 = n2 + Len(doc.artifacts) /\ n4 = n3 + Len(doc.projections)
          /\ n5 = n4 + Len(doc.artifactSources) /\ n6 = n5 + Len(doc.projectionSources)
      BY <3>1, Zenon DEF AfterEvents, AfterArtifacts, AfterProjections, AfterArtifactSources, AfterAll
    <3>3. /\ n2 \in Nat /\ n3 \in Nat /\ n4 \in Nat /\ n5 \in Nat /\ n6 \in Nat
          /\ n2 <= n3 /\ n3 <= n4 /\ n4 <= n5 /\ n5 <= n6 /\ r = n6
      BY <3>1, <1>17, Places
    <3>4. n2 <= r /\ n3 <= r /\ n4 <= r /\ n5 <= r /\ n6 <= r
      BY <3>3
    <3> QED
      BY <3>1, <3>2, <3>4, Zenon
  <2>2. r \in Nat /\ 1 \in Nat /\ AfterEvents(doc) \in Nat /\ AfterArtifacts(doc) \in Nat
        /\ AfterProjections(doc) \in Nat /\ AfterArtifactSources(doc) \in Nat
    BY <1>2, Places
  <2>3. e = doc.events
    BY <2>1, <2>2, <1>9, <1>13, NotClipped, Zenon
  <2>4. a = doc.artifacts
    BY <2>1, <2>2, <1>9, <1>13, NotClipped, Zenon
  <2>5. p = doc.projections
    BY <2>1, <2>2, <1>9, <1>13, NotClipped, Zenon
  <2>6. b = doc.artifactSources
    BY <2>1, <2>2, <1>9, <1>13, NotClipped, Zenon
  <2>7. q = doc.projectionSources
    BY <2>1, <2>2, <1>9, <1>13, NotClipped, Zenon
  <2>8. D = doc
    BY <2>3, <2>4, <2>5, <2>6, <2>7, <1>11, <1>13, <1>15, Zenon
  <2> QED
    BY <2>8, <1>7, <1>8, <1>10, <1>15
<1> QED
  BY <1>16, <1>17

-----------------------------------------------------------------------------
(* Texts, whole and cut.                                                   *)

LEMMA SpellsSub ==
    ASSUME NEW t \in Seq(Nat), NEW k \in 0 .. Len(t)
    PROVE  Spells(SubSeq(t, 1, k), t, 0, k)
<1>1. Len(t) \in Nat /\ k \in Nat /\ k <= Len(t)
  <2>1. Len(t) \in Nat
    BY LenProperties
  <2> QED
    BY <2>1
<1>2. \A i \in 1 .. k : t[i] \in Nat
  <2>1. \A i \in 1 .. k : i \in 1 .. Len(t)
    BY <1>1
  <2> QED
    BY <2>1, ElementOfSeq
<1>3. PICK c : c = SubSeq(t, 1, k)
  OBVIOUS
<1>4. /\ c \in Seq(Nat) /\ Len(c) = IF 1 <= k THEN k - 1 + 1 ELSE 0
      /\ \A i \in 1 .. k - 1 + 1 : c[i] = t[1 + i - 1]
  <2>1. 1 \in Int /\ k \in Int
    BY <1>1
  <2>2. /\ SubSeq(t, 1, k) \in Seq(Nat) /\ Len(SubSeq(t, 1, k)) = IF 1 <= k THEN k - 1 + 1 ELSE 0
        /\ \A i \in 1 .. k - 1 + 1 : SubSeq(t, 1, k)[i] = t[1 + i - 1]
    BY <2>1, <1>2, SubSeqProperties
  <2> QED
    BY <2>2, <1>3, Zenon
<1>5. Len(c) = k
  BY <1>1, <1>4
<1>6. ASSUME NEW i \in 1 .. k
      PROVE  c[i] = t[0 + i]
  <2>1. i \in 1 .. k - 1 + 1 /\ 1 + i - 1 = 0 + i
    BY <1>1
  <2>2. c[i] = t[1 + i - 1]
    BY <2>1, <1>4, Zenon
  <2> QED
    BY <2>1, <2>2, Zenon
<1> QED
  BY <1>3, <1>4, <1>5, <1>6, Zenon DEF Spells

LEMMA SpellsTail ==
    ASSUME NEW c, NEW t, NEW a \in Nat, NEW k \in Nat, Spells(c, t, a, k), 1 <= k
    PROVE  Spells(Tail(c), t, a + 1, k - 1)
<1>1. c \in Seq(Nat) /\ Len(c) = k
  BY Zenon DEF Spells
<1>2. c # << >>
  BY <1>1
<1>3. PICK d : d = Tail(c)
  OBVIOUS
<1>4. d \in Seq(Nat) /\ Len(d) = Len(c) - 1 /\ \A i \in 1 .. Len(d) : d[i] = c[i + 1]
  BY <1>1, <1>2, <1>3, HeadTailProperties, Zenon
<1>5. Len(d) = k - 1
  BY <1>1, <1>4
<1>6. ASSUME NEW i \in 1 .. k - 1
      PROVE  d[i] = t[(a + 1) + i]
  <2>1. i + 1 \in 1 .. k /\ a + (i + 1) = (a + 1) + i
    OBVIOUS
  <2>2. d[i] = c[i + 1]
    BY <1>4, <1>5, Zenon
  <2>3. c[i + 1] = t[a + (i + 1)]
    BY <2>1, Zenon DEF Spells
  <2> QED
    BY <2>1, <2>2, <2>3, Zenon
<1> QED
  BY <1>3, <1>4, <1>5, <1>6, Zenon DEF Spells

LEMMA SpellsFront ==
    ASSUME NEW c, NEW t, NEW a \in Nat, NEW k \in Nat, Spells(c, t, a, k), 1 <= k
    PROVE  Spells(Front(c), t, a, k - 1)
<1>1. c \in Seq(Nat) /\ Len(c) = k
  BY Zenon DEF Spells
<1>2. k - 1 \in 0 .. Len(c)
  BY <1>1
<1>3. Spells(SubSeq(c, 1, k - 1), c, 0, k - 1)
  BY <1>1, <1>2, SpellsSub, Zenon
<1>4. Front(c) = SubSeq(c, 1, k - 1)
  BY <1>1, Zenon DEF Front
<1>5. PICK d : d = Front(c)
  OBVIOUS
<1>6. d \in Seq(Nat) /\ Len(d) = k - 1 /\ \A i \in 1 .. k - 1 : d[i] = c[0 + i]
  BY <1>3, <1>4, <1>5, Zenon DEF Spells
<1>7. ASSUME NEW i \in 1 .. k - 1
      PROVE  d[i] = t[a + i]
  <2>1. i \in 1 .. k /\ 0 + i = i
    OBVIOUS
  <2>2. c[i] = t[a + i]
    BY <2>1, Zenon DEF Spells
  <2> QED
    BY <2>1, <2>2, <1>6
<1> QED
  BY <1>5, <1>6, <1>7, Zenon DEF Spells

\* A symbol before a text.
LEMMA Headed ==
    ASSUME NEW c \in Nat, NEW y \in Seq(Nat), NEW z, Joins(z, <<c>>, y)
    PROVE  /\ z \in Seq(Nat) /\ Len(z) = 1 + Len(y) /\ z[1] = c /\ Tail(z) = y
           /\ \A i \in 1 .. Len(y) : z[1 + i] = y[i]
<1>1. PICK o : o = <<c>> /\ o \in Seq(Nat) /\ Len(o) = 1 /\ o[1] = c
  <2>1. <<c>> \in Seq(Nat) /\ Len(<<c>>) = 1 /\ <<c>>[1] = c
    OBVIOUS
  <2> QED
    BY <2>1
<1>2. Joined(z, o, y, Nat)
  BY <1>1, JoinsFacts, Zenon
<1>3. Len(y) \in Nat
  BY LenProperties
<1>4. /\ z \in Seq(Nat) /\ Len(z) = 1 + Len(y)
      /\ \A i \in 1 .. 1 + Len(y) : z[i] = IF i <= 1 THEN o[i] ELSE y[i - 1]
  BY <1>1, <1>2, Zenon DEF Joined
<1>5. z[1] = c
  <2>1. 1 \in 1 .. 1 + Len(y) /\ 1 <= 1
    BY <1>3
  <2> QED
    BY <2>1, <1>1, <1>4, Zenon
<1>6. ASSUME NEW i \in 1 .. Len(y)
      PROVE  z[1 + i] = y[i]
  <2>1. 1 + i \in 1 .. 1 + Len(y) /\ ~(1 + i <= 1) /\ (1 + i) - 1 = i
    BY <1>3
  <2> QED
    BY <2>1, <1>4, Zenon
<1>7. Tail(z) = y
  <2>1. z # << >>
    BY <1>3, <1>4
  <2>2. PICK d : d = Tail(z)
    OBVIOUS
  <2>3. d \in Seq(Nat) /\ Len(d) = Len(z) - 1 /\ \A i \in 1 .. Len(d) : d[i] = z[i + 1]
    BY <2>1, <2>2, <1>4, HeadTailProperties, Zenon
  <2>4. Len(d) = Len(y)
    BY <2>3, <1>3, <1>4
  <2>5. ASSUME NEW i \in 1 .. Len(d) PROVE d[i] = y[i]
    <3>1. i \in 1 .. Len(y) /\ i + 1 = 1 + i
      BY <2>4, <1>3
    <3> QED
      BY <3>1, <2>3, <1>6, Zenon
  <2> QED
    BY <2>2, <2>3, <2>4, <2>5, SeqEqual
<1> QED
  BY <1>4, <1>5, <1>6, <1>7

\* The rows, from the second symbol of a text on.
Holds(t, rows, k) == \A i \in 1 .. k, j \in 1 .. 17 : t[1 + (17 * (i - 1) + j)] = LineOf(rows[i])[j]

\* Every place in k rows is in one of them.
LEMMA Position ==
    ASSUME NEW k \in Nat, NEW p \in 1 .. 17 * k
    PROVE  \E i \in 1 .. k, j \in 1 .. 17 : p = 17 * (i - 1) + j
<1> DEFINE T == {q \in Nat : p <= 17 * q}
<1>1. k \in T
  OBVIOUS
<1>2. PICK i \in T : \A y \in T : i <= y
  BY <1>1, SmallestNumber
<1>3. i \in Nat /\ p <= 17 * i /\ i <= k /\ i # 0
  BY <1>1, <1>2
<1>4. ~(p <= 17 * (i - 1))
  <2>1. i - 1 \in Nat /\ ~(i <= i - 1)
    BY <1>3
  <2> QED
    BY <2>1, <1>2
<1>5. i \in 1 .. k /\ p - 17 * (i - 1) \in 1 .. 17 /\ p = 17 * (i - 1) + (p - 17 * (i - 1))
  BY <1>3, <1>4
<1> QED
  BY <1>5

\* A line break ends a row, and a row begins with no brace.
LEMMA LineBreaks ==
    ASSUME NEW entry \in RowType
    PROVE  /\ LineOf(entry)[17] = Newline /\ LineOf(entry)[1] # Brace
           /\ \A j \in 1 .. 17 : LineOf(entry)[j] = Newline => j = 17
<1>1. PICK t, n : t = RecordTypes[entry.type] /\ n = entry.n /\ t \in 5 .. 10 /\ n \in Nat
  BY TypeFacts DEF RowType
<1>2. PICK L : L = LineOf(entry) /\ L = Line(t, n)
  BY <1>1, Zenon DEF LineOf
<1>3. /\ L[1] = t /\ L[2] = Comma /\ L[3] = Quote /\ L[4] = Brace /\ L[5] = Quote /\ L[6] = Quote
      /\ L[7] = Identity(n) /\ L[8] = Quote /\ L[9] = Quote /\ L[10] = Comma /\ L[11] = Quote
      /\ L[12] = Quote /\ L[13] = Quote /\ L[14] = Quote /\ L[15] = Brace /\ L[16] = Quote
      /\ L[17] = Newline
  BY <1>2, LineFacts
<1>4. /\ t # Newline /\ t # Brace /\ Comma # Newline /\ Quote # Newline /\ Brace # Newline
      /\ Identity(n) # Newline
  BY <1>1 DEF Comma, Quote, Brace, Newline, Identity
<1>5. ASSUME NEW j \in 1 .. 17, L[j] = Newline
      PROVE  j = 17
  <2>1. \/ j = 1 \/ j = 2 \/ j = 3 \/ j = 4 \/ j = 5 \/ j = 6 \/ j = 7 \/ j = 8 \/ j = 9 \/ j = 10
        \/ j = 11 \/ j = 12 \/ j = 13 \/ j = 14 \/ j = 15 \/ j = 16 \/ j = 17
    OBVIOUS
  <2> QED
    BY <2>1, <1>3, <1>4, <1>5
<1> QED
  BY <1>2, <1>3, <1>4, <1>5, Zenon

\* A line break is found only at the end of a row.
LEMMA BreakPlace ==
    ASSUME NEW rows \in Seq(RowType), NEW k \in 0 .. Len(rows), NEW t, Holds(t, rows, k),
           NEW p \in 1 .. 17 * k, t[1 + p] = Newline
    PROVE  \E r \in 1 .. k : p = 17 * r
<1>1. Len(rows) \in Nat
  BY LenProperties
<1>2. k \in Nat
  BY <1>1
<1>3. PICK i \in 1 .. k, j \in 1 .. 17 : p = 17 * (i - 1) + j
  BY <1>2, Position
<1>4. rows[i] \in RowType
  <2>1. i \in 1 .. Len(rows)
    BY <1>1, <1>2
  <2> QED
    BY <2>1, ElementOfSeq
<1>5. LineOf(rows[i])[j] = Newline
  BY <1>3, Zenon DEF Holds
<1>6. j = 17
  BY <1>4, <1>5, LineBreaks, Zenon
<1>7. p = 17 * i
  BY <1>3, <1>6
<1> QED
  BY <1>7

\* The text between, when it ends with a row.
LEMMA CutPrints ==
    ASSUME NEW rows \in Seq(RowType), NEW k \in 0 .. Len(rows), NEW t, Holds(t, rows, k),
           NEW r \in 0 .. k, NEW x, Spells(x, t, 1, 17 * r)
    PROVE  Prints(x, rows, r)
<1>1. Len(rows) \in Nat
  BY LenProperties
<1>2. k \in Nat /\ r \in Nat /\ r <= k
  BY <1>1
<1>3. x \in Seq(Nat) /\ Len(x) = 17 * r
  BY Zenon DEF Spells
<1>4. ASSUME NEW i \in 1 .. r, NEW j \in 1 .. 17
      PROVE  x[17 * (i - 1) + j] = LineOf(rows[i])[j]
  <2>1. i \in 1 .. k /\ 17 * (i - 1) + j \in 1 .. 17 * r
    BY <1>2
  <2>2. x[17 * (i - 1) + j] = t[1 + (17 * (i - 1) + j)]
    BY <2>1, Zenon DEF Spells
  <2>3. t[1 + (17 * (i - 1) + j)] = LineOf(rows[i])[j]
    BY <2>1, Zenon DEF Holds
  <2> QED
    BY <2>2, <2>3
<1> QED
  BY <1>3, <1>4, Zenon DEF Prints

\* The CSV text, and the JSON text.
LEMMA CsvText ==
    ASSUME NEW doc \in DocType
    PROVE  /\ ExportCsv(doc) \in Seq(Nat) /\ Len(ExportCsv(doc)) = 1 + 17 * AfterAll(doc)
           /\ ExportCsv(doc)[1] = Header /\ Holds(ExportCsv(doc), Rows(doc), AfterAll(doc))
<1>1. PICK rows, n : rows = Rows(doc) /\ n = AfterAll(doc)
  OBVIOUS
<1>2. rows \in Seq(RowType) /\ Len(rows) = n
  BY <1>1, RowsLayout, Zenon DEF Layout
<1>3. n \in Nat /\ 1 <= n
  <2>1. PICK a, b, c, d : /\ a = AfterEvents(doc) /\ b = AfterArtifacts(doc) /\ c = AfterProjections(doc)
                          /\ d = AfterArtifactSources(doc)
    OBVIOUS
  <2>2. /\ a \in Nat /\ b \in Nat /\ c \in Nat /\ d \in Nat /\ n \in Nat
        /\ 1 <= a /\ a <= b /\ b <= c /\ c <= d /\ d <= n
    BY <2>1, <1>1, Places
  <2> QED
    BY <2>2
<1>4. PICK body : body = FlattenSeq([i \in 1 .. Len(rows) |-> Row(rows[i])])
  OBVIOUS
<1>5. Prints(body, rows, n)
  BY <1>2, <1>3, <1>4, BodyPrints
<1>6. body \in Seq(Nat) /\ Len(body) = 17 * n
  BY <1>5, Zenon DEF Prints
<1>7. PICK t : t = ExportCsv(doc)
  OBVIOUS
<1>8. Joins(t, <<Header>>, body)
  BY <1>1, <1>4, <1>7, Zenon DEF ExportCsv, Joins
<1>9. /\ t \in Seq(Nat) /\ Len(t) = 1 + Len(body) /\ t[1] = Header
      /\ \A i \in 1 .. Len(body) : t[1 + i] = body[i]
  <2>1. Header \in Nat
    BY DEF Header
  <2>2. body \in Seq(Nat)
    BY <1>6
  <2> QED
    BY <2>1, <2>2, <1>8, Headed
<1>10. ASSUME NEW i \in 1 .. n, NEW j \in 1 .. 17
       PROVE  t[1 + (17 * (i - 1) + j)] = LineOf(rows[i])[j]
  <2>1. 17 * (i - 1) + j \in 1 .. Len(body)
    BY <1>3, <1>6
  <2>2. t[1 + (17 * (i - 1) + j)] = body[17 * (i - 1) + j]
    BY <2>1, <1>9, Zenon
  <2>3. body[17 * (i - 1) + j] = LineOf(rows[i])[j]
    BY <1>5, Zenon DEF Prints
  <2> QED
    BY <2>2, <2>3
<1>11. Holds(t, rows, n)
  BY <1>10, Zenon DEF Holds
<1> QED
  BY <1>1, <1>6, <1>7, <1>9, <1>11

LEMMA JsonText ==
    ASSUME NEW doc \in DocType
    PROVE  /\ ExportJson(doc) \in Seq(Nat) /\ Len(ExportJson(doc)) = 2 + 17 * AfterAll(doc)
           /\ ExportJson(doc)[1] = Brace /\ ExportJson(doc)[2 + 17 * AfterAll(doc)] = Brace
           /\ Holds(ExportJson(doc), Rows(doc), AfterAll(doc))
<1>1. PICK rows, n, c : rows = Rows(doc) /\ n = AfterAll(doc) /\ c = ExportCsv(doc)
  OBVIOUS
<1>2. n \in Nat
  BY <1>1, Places
<1>3. c \in Seq(Nat) /\ Len(c) = 1 + 17 * n /\ Holds(c, rows, n)
  BY <1>1, CsvText, Zenon
<1>4. PICK body : body = Tail(c)
  OBVIOUS
<1>5. /\ body \in Seq(Nat) /\ Len(body) = 17 * n /\ \A i \in 1 .. 17 * n : body[i] = c[1 + i]
  <2>1. 1 + 17 * n \in 0 .. Len(c) /\ 1 + 17 * n \in Nat /\ 1 <= 1 + 17 * n /\ (1 + 17 * n) - 1 = 17 * n
        /\ 0 + 1 = 1 /\ 0 \in Nat
    BY <1>2, <1>3
  <2>2. Spells(c, c, 0, 1 + 17 * n)
    <3>1. \A i \in 1 .. 1 + 17 * n : 0 + i = i
      OBVIOUS
    <3> QED
      BY <3>1, <1>3 DEF Spells
  <2>3. Spells(body, c, 1, 17 * n)
    <3>1. Spells(Tail(c), c, 0 + 1, (1 + 17 * n) - 1)
      BY <2>1, <2>2, SpellsTail, Zenon
    <3> QED
      BY <3>1, <2>1, <1>4, Zenon
  <2> QED
    BY <2>3, Zenon DEF Spells
<1>6. PICK y, t : Joins(y, <<Brace>>, body) /\ Joins(t, y, <<Brace>>)
  BY Zenon DEF Joins
<1>7. t = ExportJson(doc)
  BY <1>1, <1>4, <1>6, Zenon DEF ExportJson, Joins
<1>8. Brace \in Nat
  BY DEF Brace
<1>9. /\ y \in Seq(Nat) /\ Len(y) = 1 + Len(body) /\ y[1] = Brace
      /\ \A i \in 1 .. Len(body) : y[1 + i] = body[i]
  <2>1. body \in Seq(Nat) /\ Joins(y, <<Brace>>, body)
    BY <1>5, <1>6
  <2> QED
    BY <2>1, <1>8, Headed
<1>10. Len(y) = 1 + 17 * n
  BY <1>5, <1>9
<1>11. PICK o : o = <<Brace>> /\ o \in Seq(Nat) /\ Len(o) = 1 /\ o[1] = Brace
  <2>1. <<Brace>> \in Seq(Nat) /\ Len(<<Brace>>) = 1 /\ <<Brace>>[1] = Brace
    BY <1>8
  <2> QED
    BY <2>1
<1>12. Joined(t, y, o, Nat)
  BY <1>6, <1>9, <1>11, JoinsFacts, Zenon
<1>13. /\ t \in Seq(Nat) /\ Len(t) = (1 + 17 * n) + 1
       /\ \A i \in 1 .. (1 + 17 * n) + 1 : t[i] = IF i <= 1 + 17 * n THEN y[i] ELSE o[i - (1 + 17 * n)]
  BY <1>10, <1>11, <1>12, Zenon DEF Joined
<1>14. Len(t) = 2 + 17 * n /\ t[1] = Brace /\ t[2 + 17 * n] = Brace
  <2>1. /\ 1 \in 1 .. (1 + 17 * n) + 1 /\ 1 <= 1 + 17 * n /\ 2 + 17 * n \in 1 .. (1 + 17 * n) + 1
        /\ ~(2 + 17 * n <= 1 + 17 * n) /\ (2 + 17 * n) - (1 + 17 * n) = 1
        /\ (1 + 17 * n) + 1 = 2 + 17 * n
    BY <1>2
  <2>2. t[1] = y[1]
    BY <2>1, <1>13, Zenon
  <2>3. t[2 + 17 * n] = o[(2 + 17 * n) - (1 + 17 * n)]
    BY <2>1, <1>13, Zenon
  <2> QED
    BY <2>1, <2>2, <2>3, <1>9, <1>11, <1>13, Zenon
<1>15. ASSUME NEW i \in 1 .. n, NEW j \in 1 .. 17
       PROVE  t[1 + (17 * (i - 1) + j)] = LineOf(rows[i])[j]
  <2>1. PICK p : p = 17 * (i - 1) + j
    OBVIOUS
  <2>2. p \in 1 .. 17 * n /\ p \in 1 .. Len(body) /\ 1 + p \in 1 .. (1 + 17 * n) + 1 /\ 1 + p <= 1 + 17 * n
    <3>1. PICK h, e : h = 17 * (i - 1) /\ e = 17 * n
      OBVIOUS
    <3>2. h \in Nat /\ e \in Nat /\ h + 17 <= e /\ p = h + j
      BY <3>1, <2>1, <1>2
    <3>3. p \in 1 .. e /\ 1 + p \in 1 .. (1 + e) + 1 /\ 1 + p <= 1 + e
      BY <3>2
    <3>4. Len(body) = e
      BY <3>1, <1>5, Zenon
    <3> QED
      BY <3>1, <3>3, <3>4, Zenon
  <2>3. t[1 + p] = y[1 + p]
    BY <2>2, <1>13, Zenon
  <2>4. y[1 + p] = body[p] /\ body[p] = c[1 + p]
    BY <2>2, <1>5, <1>9, Zenon
  <2>5. c[1 + p] = LineOf(rows[i])[j]
    BY <2>1, <1>3, Zenon DEF Holds
  <2> QED
    BY <2>1, <2>3, <2>4, <2>5, Zenon
<1>16. Holds(t, rows, n)
  BY <1>15, Zenon DEF Holds
<1> QED
  BY <1>1, <1>7, <1>13, <1>14, <1>16, Zenon

\* The rows of a document: at least the manifest.
LEMMA RowsOf ==
    ASSUME NEW doc \in DocType
    PROVE  /\ Rows(doc) \in Seq(RowType) /\ Len(Rows(doc)) = AfterAll(doc)
           /\ AfterAll(doc) \in Nat /\ 1 <= AfterAll(doc) /\ AfterAll(doc) \in 0 .. Len(Rows(doc))
<1>1. Rows(doc) \in Seq(RowType) /\ Len(Rows(doc)) = AfterAll(doc)
  BY RowsLayout, Zenon DEF Layout
<1>2. AfterAll(doc) \in Nat /\ 1 <= AfterAll(doc)
  <2>1. PICK a, b, c, d, n : /\ a = AfterEvents(doc) /\ b = AfterArtifacts(doc) /\ c = AfterProjections(doc)
                             /\ d = AfterArtifactSources(doc) /\ n = AfterAll(doc)
    OBVIOUS
  <2>2. /\ a \in Nat /\ b \in Nat /\ c \in Nat /\ d \in Nat /\ n \in Nat
        /\ 1 <= a /\ a <= b /\ b <= c /\ c <= d /\ d <= n
    BY <2>1, Places
  <2>3. 1 <= n
    BY <2>2
  <2> QED
    BY <2>1, <2>2, <2>3
<1> QED
  BY <1>1, <1>2

\* The part of a document up to its last event.
LEMMA LedgerPartLength ==
    ASSUME NEW doc \in DocType
    PROVE  LedgerPart(doc) = 1 + 17 * AfterEvents(doc)
<1>1. PICK d, o : /\ o = << >> /\ d = [doc EXCEPT !.artifacts = o, !.projections = o,
                                             !.artifactSources = o, !.projectionSources = o]
  OBVIOUS
<1>2. /\ d \in DocType /\ d.events = doc.events /\ d.artifacts = << >> /\ d.projections = << >>
      /\ d.artifactSources = << >> /\ d.projectionSources = << >>
  <2>1. o \in Seq(Nat)
    BY <1>1
  <2>2. d = [doc EXCEPT !.artifacts = o, !.projections = o, !.artifactSources = o, !.projectionSources = o]
    BY <1>1
  <2>3. /\ d \in DocType /\ d.events = doc.events /\ d.artifacts = o /\ d.projections = o
        /\ d.artifactSources = o /\ d.projectionSources = o
    BY <2>1, <2>2 DEF DocType
  <2> QED
    BY <2>3, <1>1, Zenon
<1>3. LedgerPart(doc) = 1 + 17 * AfterAll(d)
  <2>1. LedgerPart(doc) = Len(ExportCsv(d))
    BY <1>1, Zenon DEF LedgerPart
  <2> QED
    BY <2>1, <1>2, CsvText, Zenon
<1>4. Len(<< >>) = 0 /\ Len(doc.events) \in Nat
  BY LenProperties DEF DocType
<1>5. AfterAll(d) = AfterEvents(doc)
  <2>1. PICK e : e = Len(doc.events)
    OBVIOUS
  <2>2. AfterEvents(doc) = 1 + e
    BY <2>1, Zenon DEF AfterEvents
  <2>3. AfterAll(d) = ((((1 + e) + 0) + 0) + 0) + 0
    BY <2>1, <1>2, <1>4, Zenon
       DEF AfterEvents, AfterArtifacts, AfterProjections, AfterArtifactSources, AfterAll
  <2>4. e \in Nat
    BY <2>1, <1>4
  <2> QED
    BY <2>2, <2>3, <2>4
<1> QED
  BY <1>3, <1>5, Zenon

\* The CSV text, cut after k symbols: the validation takes it whole, or ending with the
\* last event.
LEMMA CsvCut ==
    ASSUME NEW doc \in DocType, Semantics(doc), NEW t, t = ExportCsv(doc), NEW k \in 0 .. Len(t)
    PROVE  /\ ValidateCsvExport(SubSeq(t, 1, k)) => k = Len(t) \/ k = LedgerPart(doc)
           /\ k = Len(t) => ValidateCsvExport(SubSeq(t, 1, k))
<1>1. PICK rows, n, c : rows = Rows(doc) /\ n = AfterAll(doc) /\ c = SubSeq(t, 1, k)
  OBVIOUS
<1>2. rows \in Seq(RowType) /\ Len(rows) = n /\ n \in Nat /\ 1 <= n /\ n \in 0 .. Len(rows)
  BY <1>1, RowsOf, Zenon
<1>3. t \in Seq(Nat) /\ Len(t) = 1 + 17 * n /\ t[1] = Header /\ Holds(t, rows, n)
  BY <1>1, CsvText, Zenon
<1>4. k \in Nat /\ k <= 1 + 17 * n
  BY <1>2, <1>3
<1>5. Spells(c, t, 0, k)
  BY <1>1, <1>3, SpellsSub, Zenon
<1>6. c \in Seq(Nat) /\ Len(c) = k /\ \A i \in 1 .. k : c[i] = t[0 + i]
  BY <1>5, Zenon DEF Spells
<1>7. \A i \in 1 .. k : c[i] = t[i]
  <2>1. \A i \in 1 .. k : 0 + i = i
    BY <1>4
  <2> QED
    BY <2>1, <1>6
<1>8. ASSUME NEW r \in 1 .. n, k = 1 + 17 * r
      PROVE  /\ ValidateCsvExport(c) => r = n \/ r = AfterEvents(doc)
             /\ r = n => ValidateCsvExport(c)
  <2>1. r \in Nat /\ 1 <= k /\ 1 \in 1 .. k /\ k - 1 = 17 * r /\ r \in 0 .. n /\ k > 0
    BY <1>2, <1>8
  <2>2. c[1] = Header /\ Len(c) > 0
    BY <2>1, <1>3, <1>6, <1>7
  <2>3. Last(c) = Newline
    <3>1. k \in 1 .. k /\ k = 1 + (17 * (r - 1) + 17) /\ 17 \in 1 .. 17
      BY <2>1, <1>8
    <3>2. c[k] = t[k]
      BY <3>1, <1>7, Zenon
    <3>3. t[1 + (17 * (r - 1) + 17)] = LineOf(rows[r])[17]
      BY <3>1, <1>3, Zenon DEF Holds
    <3>4. rows[r] \in RowType
      BY <1>2, ElementOfSeq
    <3>5. LineOf(rows[r])[17] = Newline
      BY <3>4, LineBreaks, Zenon
    <3>6. c[k] = Newline
      BY <3>1, <3>2, <3>3, <3>5, Zenon
    <3> QED
      BY <3>6, <1>6, Zenon DEF Last
  <2>4. Spells(Tail(c), t, 1, 17 * r)
    <3>1. 0 \in Nat /\ 0 + 1 = 1
      OBVIOUS
    <3>2. Spells(Tail(c), t, 0 + 1, k - 1)
      BY <3>1, <2>1, <1>4, <1>5, SpellsTail, Zenon
    <3> QED
      BY <3>1, <3>2, <2>1, Zenon
  <2>5. Prints(Tail(c), rows, r)
    BY <2>1, <2>4, <1>2, <1>3, CutPrints, Zenon
  <2>6. r \in 1 .. AfterAll(doc) /\ Prints(Tail(c), Rows(doc), r)
    BY <2>5, <1>1
  <2> QED
    BY <2>2, <2>3, <2>6, <1>1, ValidRows, Zenon
<1>9. ASSUME ValidateCsvExport(c)
      PROVE  k = Len(t) \/ k = LedgerPart(doc)
  <2>1. Len(c) > 0 /\ Last(c) = Newline
    BY <1>9, Zenon DEF ValidateCsvExport
  <2>2. 1 <= k /\ k \in 1 .. k
    BY <2>1, <1>4, <1>6
  <2>3. t[k] = Newline
    <3>1. c[k] = Newline
      BY <2>1, <1>6, Zenon DEF Last
    <3> QED
      BY <3>1, <2>2, <1>7
  <2>4. k # 1
    BY <2>3, <1>3 DEF Header, Newline
  <2>5. k - 1 \in 1 .. 17 * n /\ 1 + (k - 1) = k
    BY <2>2, <2>4, <1>4, <1>2
  <2>6. PICK r \in 1 .. n : k - 1 = 17 * r
    BY <2>3, <2>5, <1>2, <1>3, BreakPlace
  <2>7. k = 1 + 17 * r
    BY <2>6, <1>4
  <2>8. r = n \/ r = AfterEvents(doc)
    BY <2>7, <1>8, <1>9, Zenon
  <2>9. LedgerPart(doc) = 1 + 17 * AfterEvents(doc)
    BY LedgerPartLength
  <2> QED
    BY <2>7, <2>8, <2>9, <1>3, Zenon
<1>10. ASSUME k = Len(t)
       PROVE  ValidateCsvExport(c)
  <2>1. n \in 1 .. n /\ k = 1 + 17 * n
    BY <1>2, <1>3, <1>10
  <2> QED
    BY <2>1, <1>8, Zenon
<1> QED
  BY <1>1, <1>9, <1>10, Zenon

\* The JSON text, cut after k symbols: the validation takes it whole, and only so.
LEMMA JsonCut ==
    ASSUME NEW doc \in DocType, Semantics(doc), NEW t, t = ExportJson(doc), NEW k \in 0 .. Len(t)
    PROVE  ValidateJsonExport(SubSeq(t, 1, k)) <=> k = Len(t)
<1>1. PICK rows, n, c : rows = Rows(doc) /\ n = AfterAll(doc) /\ c = SubSeq(t, 1, k)
  OBVIOUS
<1>2. rows \in Seq(RowType) /\ Len(rows) = n /\ n \in Nat /\ 1 <= n /\ n \in 0 .. Len(rows)
  BY <1>1, RowsOf, Zenon
<1>3. /\ t \in Seq(Nat) /\ Len(t) = 2 + 17 * n /\ t[1] = Brace /\ t[2 + 17 * n] = Brace
      /\ Holds(t, rows, n)
  BY <1>1, JsonText, Zenon
<1>4. k \in Nat /\ k <= 2 + 17 * n
  BY <1>2, <1>3
<1>5. Spells(c, t, 0, k)
  BY <1>1, <1>3, SpellsSub, Zenon
<1>6. c \in Seq(Nat) /\ Len(c) = k /\ \A i \in 1 .. k : c[i] = t[0 + i]
  BY <1>5, Zenon DEF Spells
<1>7. \A i \in 1 .. k : c[i] = t[i]
  <2>1. \A i \in 1 .. k : 0 + i = i
    BY <1>4
  <2> QED
    BY <2>1, <1>6
<1>8. CASE k < 2
  <2>1. ~(Len(c) > 1) /\ k # Len(t)
    BY <1>2, <1>3, <1>4, <1>6, <1>8
  <2> QED
    BY <2>1, <1>1, Zenon DEF ValidateJsonExport
<1>9. CASE ~(k < 2)
  <2>1. k - 2 \in Nat /\ k > 1 /\ 1 <= k /\ 1 <= k - 1 /\ k - 1 \in Nat /\ (k - 1) - 1 = k - 2
        /\ k - 2 <= 17 * n
    BY <1>2, <1>4, <1>9
  <2>2. PICK y, z : y = Front(Tail(c)) /\ z = <<Header>> \o y
    BY Zenon
  <2>3. Spells(y, t, 1, k - 2)
    <3>1. 0 \in Nat /\ 0 + 1 = 1 /\ 1 \in Nat
      OBVIOUS
    <3>2. Spells(Tail(c), t, 0 + 1, k - 1)
      BY <3>1, <2>1, <1>4, <1>5, SpellsTail, Zenon
    <3>3. Spells(Tail(c), t, 1, k - 1)
      BY <3>1, <3>2, Zenon
    <3>4. Spells(Front(Tail(c)), t, 1, (k - 1) - 1)
      BY <3>1, <3>3, <2>1, SpellsFront, Zenon
    <3> QED
      BY <3>4, <2>1, <2>2, Zenon
  <2>4. y \in Seq(Nat) /\ Len(y) = k - 2 /\ \A i \in 1 .. k - 2 : y[i] = t[1 + i]
    BY <2>3, Zenon DEF Spells
  <2>5. /\ z \in Seq(Nat) /\ Len(z) = 1 + Len(y) /\ z[1] = Header /\ Tail(z) = y
        /\ \A i \in 1 .. Len(y) : z[1 + i] = y[i]
    <3>1. Header \in Nat
      BY DEF Header
    <3>2. Joins(z, <<Header>>, y) /\ y \in Seq(Nat)
      BY <2>2, <2>4, Zenon DEF Joins
    <3> QED
      BY <3>1, <3>2, Headed
  <2>6. c[1] = Brace /\ Last(c) = t[k] /\ Len(c) > 1
    <3>1. 1 \in 1 .. k /\ k \in 1 .. k
      BY <2>1
    <3> QED
      BY <3>1, <2>1, <1>3, <1>6, <1>7, Zenon DEF Last
  <2>7. ValidateJsonExport(c) <=> t[k] = Brace /\ ValidateCsvExport(z)
    BY <2>2, <2>6, Zenon DEF ValidateJsonExport
  <2>8. ASSUME k - 2 # 0
        PROVE  Last(z) = t[1 + (k - 2)]
    <3>1. k - 2 \in 1 .. k - 2 /\ k - 2 \in 1 .. Len(y) /\ Len(z) = 1 + (k - 2)
      BY <2>1, <2>4, <2>5, <2>8
    <3>2. z[1 + (k - 2)] = y[k - 2] /\ y[k - 2] = t[1 + (k - 2)]
      BY <3>1, <2>4, <2>5, Zenon
    <3> QED
      BY <3>1, <3>2, Zenon DEF Last
  <2>9. ASSUME ValidateJsonExport(c)
        PROVE  k = Len(t)
    <3>1. Last(z) = Newline /\ t[k] = Brace
      BY <2>7, <2>9, Zenon DEF ValidateCsvExport
    <3>2. k - 2 # 0
      <4> SUFFICES ASSUME k - 2 = 0 PROVE FALSE
        OBVIOUS
      <4>1. Len(z) = 1
        BY <2>4, <2>5
      <4>2. Last(z) = Header
        BY <4>1, <2>5, Zenon DEF Last
      <4> QED
        BY <4>2, <3>1 DEF Header, Newline
    <3>3. t[1 + (k - 2)] = Newline /\ k - 2 \in 1 .. 17 * n
      BY <3>1, <3>2, <2>1, <2>8
    <3>4. PICK r \in 1 .. n : k - 2 = 17 * r
      BY <3>3, <1>2, <1>3, BreakPlace
    <3>5. r = n
      <4> SUFFICES ASSUME r # n PROVE FALSE
        OBVIOUS
      <4>1. /\ r + 1 \in 1 .. n /\ k = 1 + (17 * ((r + 1) - 1) + 1) /\ 1 \in 1 .. 17
            /\ r + 1 \in 1 .. Len(rows)
        BY <3>4, <1>2, <1>4
      <4>2. t[1 + (17 * ((r + 1) - 1) + 1)] = LineOf(rows[r + 1])[1]
        BY <4>1, <1>3, Zenon DEF Holds
      <4>3. rows[r + 1] \in RowType
        BY <4>1, <1>2, ElementOfSeq
      <4>4. LineOf(rows[r + 1])[1] # Brace
        BY <4>3, LineBreaks, Zenon
      <4> QED
        BY <4>1, <4>2, <4>4, <3>1, Zenon
    <3> QED
      BY <3>4, <3>5, <1>3, <1>4
  <2>10. ASSUME k = Len(t)
         PROVE  ValidateJsonExport(c)
    <3>1. k = 2 + 17 * n /\ k - 2 = 17 * n /\ k - 2 # 0 /\ n \in 0 .. n /\ n \in 1 .. n
      BY <2>10, <1>2, <1>3
    <3>2. Prints(y, rows, n)
      BY <3>1, <2>3, <1>2, <1>3, CutPrints
    <3>3. Last(z) = Newline
      <4>1. 1 + (k - 2) = 1 + (17 * (n - 1) + 17) /\ 17 \in 1 .. 17 /\ n \in 1 .. Len(rows)
        BY <3>1, <1>2
      <4>2. t[1 + (17 * (n - 1) + 17)] = LineOf(rows[n])[17]
        BY <3>1, <4>1, <1>3, Zenon DEF Holds
      <4>3. rows[n] \in RowType
        BY <4>1, <1>2, ElementOfSeq
      <4>4. LineOf(rows[n])[17] = Newline
        BY <4>3, LineBreaks, Zenon
      <4> QED
        BY <4>1, <4>2, <4>4, <3>1, <2>8, Zenon
    <3>4. Len(z) > 0
      BY <2>1, <2>4, <2>5
    <3>5. n \in 1 .. AfterAll(doc) /\ Prints(y, Rows(doc), n) /\ n = AfterAll(doc)
      BY <3>1, <3>2, <1>1
    <3>6. ValidateCsvExport(z)
      BY <3>3, <3>4, <3>5, <2>5, ValidRows, Zenon
    <3>7. t[k] = Brace
      BY <3>1, <1>3
    <3> QED
      BY <3>6, <3>7, <2>7, Zenon
  <2> QED
    BY <2>9, <2>10, <1>1, Zenon
<1> QED
  BY <1>8, <1>9

-----------------------------------------------------------------------------
(* The download.                                                           *)

RoomType == [events : Nat, texts : SUBSET Nat, maps : SUBSET Projections]

LEMMA AscendingSeq ==
    ASSUME NEW S, NEW n \in Nat
    PROVE  Ascending(S, n) \in Seq(Nat)
<1>1. PICK f : Turns(f, "order", << >>, S, n) /\ Ascending(S, n) = f[n]
  BY OrderTurns
<1>2. f[0] = << >> /\ \A i \in 1 .. n : f[i] = Turn("order", f[i - 1], i, S)
  BY <1>1, TurnsFacts
<1> DEFINE T == {k \in Nat : k <= n /\ ~(f[k] \in Seq(Nat))}
<1>3. T = {}
  <2> SUFFICES ASSUME T # {} PROVE FALSE
    OBVIOUS
  <2>1. PICK k \in T : \A y \in T : k <= y
    BY SmallestNumber
  <2>2. k # 0 /\ k \in Nat /\ k <= n /\ ~(f[k] \in Seq(Nat))
    <3>1. f[0] = << >> /\ << >> \in Seq(Nat)
      BY <1>2
    <3> QED
      BY <2>1, <3>1
  <2>3. k - 1 \in Nat /\ k - 1 <= n /\ ~(k <= k - 1) /\ k \in 1 .. n
    BY <2>2
  <2>4. f[k - 1] \in Seq(Nat)
    BY <2>1, <2>3
  <2>5. f[k] = IF k \in S THEN Append(f[k - 1], k) ELSE f[k - 1]
    <3>1. f[k] = Turn("order", f[k - 1], k, S)
      BY <2>3, <1>2, Zenon
    <3>2. \A s, i : Turn("order", s, i, S) = IF i \in S THEN Append(s, i) ELSE s
      BY DEF Turn
    <3> QED
      BY <3>1, <3>2, Zenon
  <2>6. PICK g : g = f[k - 1]
    OBVIOUS
  <2>7. Append(g, k) \in Seq(Nat)
    <3>1. g \in Seq(Nat) /\ k \in Nat
      BY <2>2, <2>4, <2>6
    <3> QED
      BY <3>1, AppendProperties
  <2> QED
    BY <2>2, <2>4, <2>5, <2>6, <2>7, Zenon
<1> QED
  BY <1>1, <1>3

LEMMA DocumentType ==
    ASSUME NEW room \in RoomType
    PROVE  Document(room) \in DocType
<1>1. PICK n, s, m : n = room.events /\ s = Ascending(room.texts, room.events)
                     /\ m = Ascending({ProjectionNumber(p) : p \in room.maps}, 2)
  OBVIOUS
<1>2. n \in Nat
  BY <1>1 DEF RoomType
<1>3. s \in Seq(Nat) /\ m \in Seq(Nat)
  BY <1>1, <1>2, AscendingSeq
<1>4. PICK e : e = [i \in 1 .. n |-> i]
  OBVIOUS
<1>5. e \in Seq(Nat)
  BY <1>2, <1>4
<1>6. Document(room) = [throughRoomSeq |-> n, events |-> e, artifacts |-> s, projections |-> m,
                        artifactSources |-> s, projectionSources |-> m]
  BY <1>1, <1>4, Zenon DEF Document
<1> QED
  BY <1>2, <1>3, <1>5, <1>6 DEF DocType

\* The encoder and the validation, in either format.
LEMMA EncodedCut ==
    ASSUME NEW f \in {"json", "csv"}, NEW doc \in DocType, Semantics(doc),
           NEW t, t = Encoded(f, doc), NEW k \in 0 .. Len(t)
    PROVE  /\ Valid(f, SubSeq(t, 1, k)) => k = Len(t) \/ (f = "csv" /\ k = LedgerPart(doc))
           /\ k = Len(t) => Valid(f, SubSeq(t, 1, k))
<1>1. CASE f = "json"
  <2>1. t = ExportJson(doc)
    BY <1>1, Zenon DEF Encoded
  <2>2. Valid(f, SubSeq(t, 1, k)) <=> ValidateJsonExport(SubSeq(t, 1, k))
    BY <1>1, Zenon DEF Valid
  <2>3. ValidateJsonExport(SubSeq(t, 1, k)) <=> k = Len(t)
    BY <2>1, JsonCut, Zenon
  <2> QED
    BY <2>2, <2>3, Zenon
<1>2. CASE f = "csv"
  <2>1. f # "json"
    BY <1>2
  <2>2. t = ExportCsv(doc)
    BY <2>1, Zenon DEF Encoded
  <2>3. Valid(f, SubSeq(t, 1, k)) <=> ValidateCsvExport(SubSeq(t, 1, k))
    BY <2>1, Zenon DEF Valid
  <2>4. /\ ValidateCsvExport(SubSeq(t, 1, k)) => k = Len(t) \/ k = LedgerPart(doc)
        /\ k = Len(t) => ValidateCsvExport(SubSeq(t, 1, k))
    BY <2>2, CsvCut, Zenon
  <2> QED
    BY <2>3, <2>4, <1>2, Zenon
<1> QED
  BY <1>1, <1>2

\* The values of the variables.
ExportKnown ==
    /\ ledger \in RoomType /\ sent \in RoomType /\ format \in {"json", "csv"}
    /\ download \in {"idle", "asked", "streaming", "ended", "broken", "saved", "refused"}

\* What is on its way was checked by the server, and fits.
WrittenChecked ==
    download \in {"streaming", "ended", "broken"} =>
      Semantics(Document(sent)) /\ Len(Text) <= MaxSize

\* What has arrived is a beginning of it.
ArrivedPrefix == download \in {"ended", "broken"} => got \in 0 .. Len(Text)

ExportInv == ExportKnown /\ WrittenChecked /\ ArrivedPrefix /\ SavedHoldsLedger

LEMMA ExportFirst == ExportInit => ExportInv
<1> SUFFICES ASSUME ExportInit PROVE ExportInv
  OBVIOUS
<1>1. ledger \in RoomType /\ sent = ledger /\ format = "json" /\ download = "idle"
  BY DEF ExportInit, RoomType
<1>2. ExportKnown
  BY <1>1 DEF ExportKnown
<1> QED
  BY <1>1, <1>2 DEF ExportInv, WrittenChecked, ArrivedPrefix, SavedHoldsLedger

\* Steps that leave the download alone.
LEMMA DownloadAlone ==
    ASSUME ExportInv, ledger' \in RoomType, UNCHANGED <<download, format, sent, declared, got>>
    PROVE  ExportInv'
<1>1. /\ download' = download /\ format' = format /\ sent' = sent /\ declared' = declared /\ got' = got
  OBVIOUS
<1>2. Text' = Text
  BY <1>1, Zenon DEF Text
<1>3. ExportKnown'
  BY <1>1 DEF ExportInv, ExportKnown
<1>4. WrittenChecked'
  BY <1>1, <1>2, Zenon DEF ExportInv, WrittenChecked
<1>5. ArrivedPrefix'
  BY <1>1, <1>2, Zenon DEF ExportInv, ArrivedPrefix
<1>6. SavedHoldsLedger'
  BY <1>1, <1>2 DEF ExportInv, SavedHoldsLedger
<1> QED
  BY <1>3, <1>4, <1>5, <1>6, Zenon DEF ExportInv

\* The verdict on what arrived.
LEMMA Verdict ==
    ASSUME ExportInv, download = "ended"
    PROVE  /\ Valid(format, SubSeq(Text, 1, got)) =>
                got = Len(Text) \/ (format = "csv" /\ got = LedgerPart(Document(sent)))
           /\ got = Len(Text) => Valid(format, SubSeq(Text, 1, got)) /\ got <= MaxSize
<1>1. /\ sent \in RoomType /\ format \in {"json", "csv"} /\ Semantics(Document(sent))
      /\ got \in 0 .. Len(Text) /\ Len(Text) <= MaxSize
  BY DEF ExportInv, ExportKnown, WrittenChecked, ArrivedPrefix
<1>2. Document(sent) \in DocType
  BY <1>1, DocumentType
<1>3. Text = Encoded(format, Document(sent))
  BY Zenon DEF Text
<1>4. PICK f, doc, t : f = format /\ doc = Document(sent) /\ t = Text
  OBVIOUS
<1>5. /\ f \in {"json", "csv"} /\ doc \in DocType /\ Semantics(doc) /\ t = Encoded(f, doc)
      /\ got \in 0 .. Len(t)
  BY <1>1, <1>2, <1>3, <1>4, Zenon
<1>6. /\ Valid(f, SubSeq(t, 1, got)) => got = Len(t) \/ (f = "csv" /\ got = LedgerPart(doc))
      /\ got = Len(t) => Valid(f, SubSeq(t, 1, got))
  BY <1>5, EncodedCut, Zenon
<1> QED
  BY <1>1, <1>4, <1>6, Zenon

LEMMA ExportStep == ExportInv /\ [ExportNext]_exportVars => ExportInv'
<1> SUFFICES ASSUME ExportInv, [ExportNext]_exportVars PROVE ExportInv'
  OBVIOUS
<1>0. ExportKnown /\ WrittenChecked /\ ArrivedPrefix /\ SavedHoldsLedger
  BY DEF ExportInv
<1>1. CASE Write
  <2>1. PICK text \in BOOLEAN :
           ledger' = [ledger EXCEPT !.events = @ + 1,
                        !.texts = IF text THEN @ \cup {ledger.events + 1} ELSE @]
    BY <1>1 DEF Write
  <2>2. ledger' \in RoomType
    <3>1. PICK n, s : /\ n = ledger.events + 1
                      /\ s = IF text THEN ledger.texts \cup {ledger.events + 1} ELSE ledger.texts
      OBVIOUS
    <3>2. n \in Nat /\ s \in SUBSET Nat
      BY <3>1, <1>0 DEF ExportKnown, RoomType
    <3>3. ledger' = [ledger EXCEPT !.events = n, !.texts = s]
      BY <2>1, <3>1
    <3> QED
      BY <3>2, <3>3, <1>0 DEF ExportKnown, RoomType
  <2> QED
    BY <1>1, <2>2, DownloadAlone DEF Write
<1>2. CASE Project
  <2>1. ledger' \in RoomType
    BY <1>0, <1>2 DEF Project, ExportKnown, RoomType
  <2> QED
    BY <1>2, <2>1, DownloadAlone DEF Project
<1>3. CASE Shut
  BY <1>0, <1>3, DownloadAlone DEF Shut, ExportKnown
<1>4. CASE Ask
  <2>1. ExportKnown' /\ download' = "asked"
    BY <1>0, <1>4 DEF Ask, ExportKnown
  <2> QED
    BY <2>1 DEF ExportInv, WrittenChecked, ArrivedPrefix, SavedHoldsLedger
<1>5. CASE ServeExport
  <2>1. format' = format /\ ledger' = ledger
    BY <1>5 DEF ServeExport
  <2>2. CASE Exportable(ledger, format)
    <3>1. download' = "streaming" /\ sent' = ledger
      BY <1>5, <2>2, Zenon DEF ServeExport
    <3>2. Semantics(Document(ledger)) /\ Len(Encoded(format, Document(ledger))) <= MaxSize
      BY <2>2, Zenon DEF Exportable
    <3>3. Text' = Encoded(format', Document(sent'))
      BY Zenon DEF Text
    <3>4. WrittenChecked'
      BY <3>1, <3>2, <3>3, <2>1, Zenon DEF WrittenChecked
    <3>5. ExportKnown'
      BY <1>0, <2>1, <3>1 DEF ExportKnown
    <3> QED
      BY <3>1, <3>4, <3>5 DEF ExportInv, ArrivedPrefix, SavedHoldsLedger
  <2>3. CASE ~Exportable(ledger, format)
    <3>1. download' = "refused" /\ sent' = sent
      BY <1>5, <2>3, Zenon DEF ServeExport
    <3>2. ExportKnown'
      BY <1>0, <2>1, <3>1 DEF ExportKnown
    <3> QED
      BY <3>1, <3>2 DEF ExportInv, WrittenChecked, ArrivedPrefix, SavedHoldsLedger
  <2> QED
    BY <2>2, <2>3
<1>6. CASE EndOfBody
  <2>1. /\ download = "streaming" /\ got' \in 0 .. Len(Text) /\ download' \in {"ended", "broken"}
        /\ ledger' = ledger /\ format' = format /\ sent' = sent
    BY <1>6 DEF EndOfBody
  <2>2. Text' = Text
    BY <2>1, Zenon DEF Text
  <2>3. ExportKnown'
    BY <1>0, <2>1 DEF ExportKnown
  <2>4. Semantics(Document(sent)) /\ Len(Text) <= MaxSize
    BY <1>0, <2>1 DEF WrittenChecked
  <2>5. WrittenChecked' /\ ArrivedPrefix'
    BY <2>1, <2>2, <2>4, Zenon DEF WrittenChecked, ArrivedPrefix
  <2>6. SavedHoldsLedger'
    BY <2>1 DEF SavedHoldsLedger
  <2> QED
    BY <2>3, <2>5, <2>6 DEF ExportInv
<1>7. CASE Finish
  <2>1. /\ download' \in {"saved", "refused"} /\ ledger' = ledger /\ format' = format /\ sent' = sent
        /\ declared' = declared /\ got' = got
    BY <1>7 DEF Finish
  <2>2. ExportKnown'
    BY <1>0, <2>1 DEF ExportKnown
  <2>3. WrittenChecked' /\ ArrivedPrefix'
    BY <2>1 DEF WrittenChecked, ArrivedPrefix
  <2>4. Text' = Text
    BY <2>1, Zenon DEF Text
  <2>5. ASSUME download' = "saved"
        PROVE  got = Len(Text) \/ (format = "csv" /\ ~declared /\ got = LedgerPart(Document(sent)))
    <3>1. /\ download = "ended" /\ (declared => got = Len(Text))
          /\ Valid(format, SubSeq(Text, 1, got))
      <4>1. "saved" # "refused"
        OBVIOUS
      <4> QED
        BY <1>7, <2>5, <4>1, Zenon DEF Finish
    <3> QED
      BY <3>1, Verdict, Zenon
  <2>6. SavedHoldsLedger'
    BY <2>1, <2>4, <2>5, Zenon DEF SavedHoldsLedger
  <2> QED
    BY <2>2, <2>3, <2>6 DEF ExportInv
<1>8. CASE UNCHANGED exportVars
  BY <1>0, <1>8, DownloadAlone DEF exportVars, ExportKnown
<1> QED
  BY <1>1, <1>2, <1>3, <1>4, <1>5, <1>6, <1>7, <1>8 DEF ExportNext

\* A saved file is the document the server wrote, whole or, for a CSV body of undeclared
\* length, up to its last event (SavedHoldsLedger): whatever the room held, whatever the
\* limits and wherever the body was cut, the validation of session-gateway.ts accepts no
\* other beginning of it.
THEOREM SavedIsLedger == ExportSpec => []SavedHoldsLedger
<1>1. ExportInv => SavedHoldsLedger
  BY DEF ExportInv
<1> QED
  BY <1>1, ExportFirst, ExportStep, PTL DEF ExportSpec

\* A document that arrived whole is saved (WholeIsSaved): the parser and the validation of
\* session-gateway.ts read back everything the encoders of governance-service.ts write.
THEOREM WholeIsAccepted == ExportSpec => WholeIsSaved
<1>1. ExportInv /\ [ExportNext]_exportVars =>
        [download = "ended" /\ got = Len(Text) /\ download' # download => download' = "saved"]_exportVars
  <2> SUFFICES ASSUME ExportInv, ExportNext, download = "ended", got = Len(Text), download' # download
               PROVE  download' = "saved"
    OBVIOUS
  <2>1. Finish
    BY DEF ExportNext, Write, Project, Shut, Ask, ServeExport, EndOfBody
  <2>2. Valid(format, SubSeq(Text, 1, got)) /\ got <= MaxSize
    BY Verdict
  <2> QED
    BY <2>1, <2>2, Zenon DEF Finish
<1> QED
  BY <1>1, ExportFirst, ExportStep, PTL DEF ExportSpec, WholeIsSaved
===============================================================================

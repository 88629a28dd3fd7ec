------------------------------- MODULE Presence -------------------------------
(***************************************************************************)
(* Who is here.  The pages of one seat announce themselves, their           *)
(* connections on the server filter, keep and sweep the signals, and        *)
(* another page draws the seat (RoomSocket, RealtimeConnection,             *)
(* EphemeralSignals, RoomHub, HydratedSessionState).                        *)
(*                                                                         *)
(* One tick is six seconds: what is sent is handled and delivered within    *)
(* the tick, in any order the server's waits allow, and timers fire in the  *)
(* tick they are due.  Times are the ticks left, so time has no bound.      *)
(* Typing frames take the same way; here they only use up the counter they  *)
(* share with presence.                                                     *)
(***************************************************************************)
EXTENDS Naturals, Sequences, FiniteSets, SequencesExt

CONSTANTS
    Pages,          \* the pages of the seat, in several tabs
    Connections,    \* bound: connections the server holds at a time
    KeepAlive,      \* PRESENCE_KEEPALIVE_MS, in ticks
    ExpiresAfter,   \* the 30 s of acceptPresence, in ticks
    MaxFrames       \* bound: frames in flight, and signals

ASSUME PresenceAssumption ==
    /\ KeepAlive \in Nat \ {0} /\ ExpiresAfter \in Nat /\ KeepAlive < ExpiresAfter
    /\ MaxFrames \in Nat \ {0}
    /\ IsFiniteSet(Pages) /\ IsFiniteSet(Connections)

VARIABLES
    tab,        \* page -> its socket ({} or {connection}), hidden, its two timers
    link,       \* connection -> live, accepted a signal in this tick, holds one
    frames,     \* client frames, in the order sent: each waits for reauthorize
    signals,    \* broadcasts on their way to the page that watches
    watching,   \* that page is connected
    sees,       \* its presence map, for the seat: {} or a signal
    drawn,      \* history: it drew the seat as reported in this tick
    dark,       \* history: ticks in a row it did not, with a page of the seat open
    overtaken,  \* history: a presence frame was dropped behind a later frame
    gone        \* history: ticks since the seat lost its last page

presenceVars == <<tab, link, frames, signals, watching, sees, drawn, dark, overtaken, gone>>

NoLink == [live |-> FALSE, recent |-> FALSE, held |-> {}]

PresenceInit ==
    /\ tab = [p \in Pages |-> [socket |-> {}, hidden |-> FALSE, due |-> 0, catchUp |-> {}]]
    /\ link = [c \in Connections |-> NoLink]
    /\ frames = <<>> /\ signals = {}
    /\ watching = TRUE /\ sees = {}
    /\ drawn = FALSE /\ dark = 0 /\ overtaken = FALSE /\ gone = 0

PageOpen(p) == tab[p].socket # {}
SeatOpen == \E p \in Pages : PageOpen(p)

-----------------------------------------------------------------------------
(* The page that watches *)

\* presenceStateOf: a signal counts until its deadline, on the reader's clock.
PresenceStateOf(seen) ==
    IF \E s \in seen : s.left > 0 THEN (CHOOSE s \in seen : TRUE).value ELSE "unknown"

\* A signal replaces the one before it.
Deliver(s) ==
    /\ s \in signals
    /\ signals' = signals \ {s}
    /\ sees' = {s}
    /\ drawn' = (drawn \/ PresenceStateOf({s}) # "unknown")
    /\ UNCHANGED <<tab, link, frames, watching, dark, overtaken, gone>>

\* A page that is away gets no signals and keeps the one it has.
WatcherLeaves ==
    /\ watching
    /\ watching' = FALSE /\ signals' = {} /\ dark' = 0
    /\ UNCHANGED <<tab, link, frames, sees, drawn, overtaken, gone>>

WatcherReturns ==
    /\ ~watching
    /\ watching' = TRUE
    /\ UNCHANGED <<tab, link, frames, signals, sees, drawn, dark, overtaken, gone>>

-----------------------------------------------------------------------------
(* The pages of the seat *)

Frame(c, value) == [by |-> c, value |-> value, passed |-> FALSE]

\* #sendEphemeral: best effort, nothing while the socket is not ready.
SendEphemeral(p, value) ==
    /\ Len(frames) < MaxFrames
    /\ frames' = IF PageOpen(p) THEN Append(frames, Frame(CHOOSE c \in tab[p].socket : TRUE, value))
                 ELSE frames

Visible(hidden) == IF hidden THEN "away" ELSE "active"

\* The socket opens and resumes: resume_complete claims the seat as active.  The
\* keepalive runs since the page was mounted, so it comes at any time from now.
Connect(p) ==
    /\ ~PageOpen(p) /\ Len(frames) < MaxFrames
    /\ \E c \in Connections, d \in 1..KeepAlive :
          /\ ~link[c].live /\ \A i \in 1..Len(frames) : frames[i].by # c
          /\ tab' = [tab EXCEPT ![p].socket = {c}, ![p].due = d]
          /\ link' = [link EXCEPT ![c] = [NoLink EXCEPT !.live = TRUE]]
          /\ frames' = Append(frames, Frame(c, "active"))
    /\ UNCHANGED <<signals, watching, sees, drawn, dark, overtaken, gone>>

\* announceVisibility: said at once, and again when the rate limit has passed.
ChangeVisibility(p) ==
    /\ PageOpen(p)
    /\ tab' = [tab EXCEPT ![p].hidden = ~@, ![p].catchUp = {1}]
    /\ SendEphemeral(p, Visible(~tab[p].hidden))
    /\ UNCHANGED <<link, signals, watching, sees, drawn, dark, overtaken, gone>>

CatchUp(p) ==
    /\ 0 \in tab[p].catchUp
    /\ tab' = [tab EXCEPT ![p].catchUp = {}]
    /\ SendEphemeral(p, Visible(tab[p].hidden))
    /\ UNCHANGED <<link, signals, watching, sees, drawn, dark, overtaken, gone>>

KeepAliveDue(p) == PageOpen(p) /\ tab[p].due = 0

\* A faulty KeepSeat: a hidden page stays silent.
KeepSeatWhenVisible(p) ==
    /\ KeepAliveDue(p)
    /\ tab' = [tab EXCEPT ![p].due = KeepAlive]
    /\ IF tab[p].hidden THEN UNCHANGED frames ELSE SendEphemeral(p, "active")
    /\ UNCHANGED <<link, signals, watching, sees, drawn, dark, overtaken, gone>>

KeepSeat(p) ==
    /\ KeepAliveDue(p)
    /\ tab' = [tab EXCEPT ![p].due = KeepAlive]
    /\ SendEphemeral(p, Visible(tab[p].hidden))
    /\ UNCHANGED <<link, signals, watching, sees, drawn, dark, overtaken, gone>>

\* The composer reports every change of its text, and that it was left or sent.
Type(p) ==
    /\ PageOpen(p)
    /\ SendEphemeral(p, "typing")
    /\ UNCHANGED <<tab, link, signals, watching, sees, drawn, dark, overtaken, gone>>

Unseated(p) ==
    /\ tab' = [tab EXCEPT ![p].socket = {}, ![p].catchUp = {}, ![p].due = 0]
    /\ IF \E q \in Pages \ {p} : PageOpen(q) THEN UNCHANGED <<gone, dark>>
       ELSE gone' = 0 /\ dark' = 0

\* The page is left: one last frame, and the socket is closed.
LeavePage(p) ==
    /\ PageOpen(p)
    /\ Unseated(p)
    /\ SendEphemeral(p, "away")
    /\ UNCHANGED <<link, signals, watching, sees, drawn, overtaken>>

\* The network is lost; the server has not noticed.
LosePage(p) ==
    /\ PageOpen(p)
    /\ Unseated(p)
    /\ UNCHANGED <<link, frames, signals, watching, sees, drawn, overtaken>>

-----------------------------------------------------------------------------
(* The server *)

\* broadcastEphemeral, to the page that watches.
Broadcast(ss) ==
    /\ Cardinality(signals) < MaxFrames
    /\ signals' = IF watching THEN signals \cup ss ELSE signals

Signal(value) == [value |-> value, left |-> ExpiresAfter]
Tombstone == [value |-> "away", left |-> 0]

\* A signal was accepted less than five seconds ago, or nearly so.
TooSoon(f) == f.value # "typing" /\ link[f.by].recent

\* The frame is too soon, or its number is not above the last one accepted.
Drop(i) ==
    /\ frames[i].passed \/ TooSoon(frames[i])
    /\ frames' = RemoveAt(frames, i)
    /\ overtaken' = (overtaken \/ (frames[i].value # "typing" /\ frames[i].passed))
    /\ UNCHANGED <<tab, link, signals, watching, sees, drawn, dark, gone>>

\* The frames still waiting that were sent before this one are now behind it.
Taken(i) ==
    RemoveAt([j \in 1..Len(frames) |->
                 [frames[j] EXCEPT !.passed = @ \/ (j < i /\ frames[j].by = frames[i].by)]], i)

\* acceptPresence, acceptTyping.  The wait for reauthorize lies between the
\* check that the connection is open and this: it may have closed meanwhile.
Accept(i) ==
    /\ ~frames[i].passed
    /\ frames' = Taken(i)
    /\ IF frames[i].value = "typing" THEN UNCHANGED <<link, signals>>
       ELSE /\ link' = [link EXCEPT ![frames[i].by].recent = TRUE,
                                    ![frames[i].by].held = {ExpiresAfter}]
            /\ Broadcast({Signal(frames[i].value)})
    /\ UNCHANGED <<tab, watching, sees, drawn, dark, overtaken, gone>>

\* The heartbeat of a connection sweeps the signal it holds itself.
HeartbeatTick(c) ==
    /\ link[c].live /\ 0 \in link[c].held
    /\ link' = [link EXCEPT ![c].held = {}]
    /\ Broadcast({Tombstone})
    /\ UNCHANGED <<tab, frames, watching, sees, drawn, dark, overtaken, gone>>

StillPresent(c) == \E o \in Connections \ {c} : link[o].live

\* close and leave: a departure is announced when no socket of the seat is left.
LeaveHub(c) ==
    /\ link[c].live /\ \A p \in Pages : c \notin tab[p].socket
    /\ link' = [link EXCEPT ![c].live = FALSE, ![c].held = {}]
    /\ Broadcast(IF StillPresent(c) THEN {} ELSE {Tombstone})
    /\ UNCHANGED <<tab, frames, watching, sees, drawn, dark, overtaken, gone>>

-----------------------------------------------------------------------------

Sooner(n) == IF n = 0 THEN 0 ELSE n - 1
Later(n, bound) == IF n > bound THEN n ELSE n + 1

\* Everything sent has been handled and delivered, and no timer is due.
Tick ==
    /\ frames = <<>> /\ signals = {}
    /\ \A p \in Pages : 0 \notin tab[p].catchUp /\ ~KeepAliveDue(p)
    /\ tab' = [p \in Pages |-> [tab[p] EXCEPT !.due = Sooner(@), !.catchUp = {Sooner(n) : n \in @}]]
    /\ link' = [c \in Connections |->
                   [link[c] EXCEPT !.recent = FALSE, !.held = {Sooner(n) : n \in @}]]
    /\ sees' = {[s EXCEPT !.left = Sooner(@)] : s \in sees}
    /\ dark' = IF SeatOpen /\ watching /\ ~drawn THEN Later(dark, KeepAlive) ELSE 0
    /\ drawn' = (PresenceStateOf(sees') # "unknown")
    /\ overtaken' = (overtaken /\ ~drawn)
    /\ gone' = IF SeatOpen THEN 0 ELSE Later(gone, ExpiresAfter)
    /\ UNCHANGED <<frames, signals, watching>>

PresenceNext ==
    \/ \E s \in signals : Deliver(s)
    \/ WatcherLeaves \/ WatcherReturns
    \/ \E p \in Pages : \/ Connect(p) \/ ChangeVisibility(p) \/ CatchUp(p) \/ KeepSeat(p)
                        \/ Type(p) \/ LeavePage(p) \/ LosePage(p)
    \/ \E i \in 1..Len(frames) : Accept(i) \/ Drop(i)
    \/ \E c \in Connections : HeartbeatTick(c) \/ LeaveHub(c)
    \/ Tick

PresenceSpec == PresenceInit /\ [][PresenceNext]_presenceVars

-----------------------------------------------------------------------------
(* Properties *)

\* Whatever another tab, an old connection or the sweep of one announces, a
\* seat with an open page is drawn as reported again within one keepalive,
\* unless its presence frames were dropped behind later ones.
SeatReturns == dark <= KeepAlive \/ overtaken

\* A seat without a page is drawn as unreported once the lifetime of its last
\* signal has passed - also when a signal was still being handled as its
\* connection closed and was broadcast after the departure.
GoneFades == (~SeatOpen /\ gone >= ExpiresAfter) => PresenceStateOf(sees) = "unknown"

\* "two independent counters would let a typing frame silently swallow the next
\* presence frame": with one counter no presence frame is dropped behind another.
\* The code does not keep this: see the observations in README.md.
NeverSwallowed == ~overtaken

\* "Only announce a departure when no live socket for that actor remains."
\* The code does not keep this: see the observations in README.md.
DepartureIsReal ==
    [][(Tombstone \in signals' /\ Tombstone \notin signals)
          => Cardinality({c \in Connections : link[c].live}) <= 1]_presenceVars

\* What classmates draw of a seat follows its pages, both ways
\* (room-access-client.tsx, connection.ts, the sweep of expired signals).
PresenceHonest == SeatReturns /\ GoneFades
=============================================================================

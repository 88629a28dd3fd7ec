------------------------------- MODULE Realtime -------------------------------
(***************************************************************************)
(* How room events reach a browser: the outbox publisher, the hub and its   *)
(* connection (replay, then live delivery) on the server, RoomSocket and    *)
(* HydratedSessionState (cursor, gap recovery over HTTP, pending commands)  *)
(* in the browser.                                                         *)
(*                                                                         *)
(* One browser is modelled: the others touch it only by making the          *)
(* publication of a row fail after this one was served.  An event is its    *)
(* room_seq.  Ticks of the publisher may overlap (setInterval does not wait *)
(* for the previous tick) and each claims other rows, so every row is       *)
(* published at its own pace.  Between two awaits the code runs without     *)
(* interruption: that is one action.                                       *)
(***************************************************************************)
EXTENDS Naturals, Sequences, FiniteSets

CONSTANTS
    Commands,     \* command ids this browser may send
    ReplayLimit,  \* rows a resume may replay (500)
    MaxBuffer,    \* MAX_LIVE_BUFFER_EVENTS (512)
    PageLimit,    \* events of an HTTP page (500)
    MaxPending,   \* MAX_PENDING_COMMANDS (100)
    MaxEvents,    \* bound: events of the room
    MaxTries,     \* bound: publish_attempts of a row
    MaxDrops      \* bound: connections lost

ASSUME LimitsAssumption ==
    /\ ReplayLimit \in Nat /\ MaxBuffer \in Nat /\ PageLimit \in Nat \ {0}
    /\ MaxPending \in Nat
    /\ MaxEvents \in Nat /\ MaxTries \in Nat /\ MaxDrops \in Nat

VARIABLES
    last,     \* committed events: room_event and outbox_event hold 1 .. last
    row,      \* outbox_event: how far a row's publication is
    tries,    \* outbox_event.publish_attempts
    done,     \* done[c]: room_seq of the event caused by command c, or 0
    unused,   \* command ids not yet drawn
    drops,    \* connections lost so far
    conn,     \* the server's RealtimeConnection
    hello,    \* the browser's hello frame under way, or <<>>
    base,     \* #resumeFrom
    upto,     \* last row of the replay's SELECT
    at,       \* rows replayed so far
    buffer,   \* #liveBuffer
    down,     \* frames under way to the browser
    sent,     \* command frames under way to the server
    link,     \* the browser holds a socket
    ready,    \* #resumeReady
    cursor,   \* lastRoomSeq, of the socket and of the EventLedger
    applied,  \* events handed to the EventLedger (history)
    pending,  \* #pending
    gate,     \* #reconnectGate is set
    rec,      \* the page recovery: off, asking for a page, or its answer under way
    from,     \* #recoverLoop's cursor
    page,     \* last event of the page under way, and whether more follow
    need,     \* #requiredThroughSeq
    stop,     \* why the browser gave up, or "no"
    inOrder   \* the publisher's ticks never overlap and none of its publications
              \* fails: chosen at the start, a case of its own

outbox == <<last, row, tries, done>>
server == <<conn, hello, base, upto, at, buffer, down, sent>>
recovery == <<rec, from, page, need>>
client == <<link, ready, cursor, applied, pending, unused, gate>>
realVars == <<outbox, drops, server, client, recovery, stop>>

Seqs == 1 .. MaxEvents

\* The session or the room is over, or the page was left: clearState.
Cleared == {"ended", "disposed"}

Frames == ({"event", "resumed"} \X (0 .. MaxEvents))
            \cup ({"snapshot"} \X (0 .. MaxEvents) \X (0 .. MaxEvents))
            \cup ({"ack", "reject"} \X Commands)
            \cup ({"close"} \X {"snapshot", "invalid", "ended"})

RealtimeTypeOK ==
    /\ last \in 0 .. MaxEvents
    /\ row \in [Seqs -> {"absent", "waiting", "locked", "addressed", "sent", "delayed",
                       "published"}]
    /\ tries \in [Seqs -> 0 .. MaxTries]
    /\ done \in [Commands -> 0 .. MaxEvents]
    /\ drops \in 0 .. MaxDrops
    /\ conn \in {"none", "open", "greeted", "replaying", "live"}
    /\ hello \in Seq(0 .. MaxEvents) /\ Len(hello) <= 1
    /\ base \in 0 .. MaxEvents /\ upto \in 0 .. MaxEvents /\ at \in base .. upto
    /\ buffer \in Seq(Seqs) /\ Len(buffer) <= MaxBuffer
    /\ down \in Seq(Frames)
    /\ sent \subseteq pending /\ pending \subseteq Commands \ unused
    /\ unused \subseteq Commands
    /\ link \in BOOLEAN /\ ready \in BOOLEAN /\ gate \in BOOLEAN
    /\ cursor \in 0 .. last
    /\ applied \in Seq(Seqs)
    /\ rec \in {"off", "asked", "answered"}
    /\ from \in 0 .. MaxEvents
    /\ page \in (0 .. MaxEvents) \X BOOLEAN
    /\ need \in 0 .. MaxEvents
    /\ stop \in {"no", "invalid", "request", "gap", "range", "ungated"} \cup Cleared
    /\ inOrder \in BOOLEAN

\* The browser has hydrated an empty room (create awaits the first recovery) and
\* is about to connect.
RealtimeInit ==
    /\ last = 0
    /\ row = [s \in Seqs |-> "absent"]
    /\ tries = [s \in Seqs |-> 0]
    /\ done = [c \in Commands |-> 0]
    /\ drops = 0
    /\ conn = "none" /\ hello = <<>> /\ base = 0 /\ upto = 0 /\ at = 0
    /\ buffer = <<>> /\ down = <<>> /\ sent = {}
    /\ link = FALSE /\ ready = FALSE /\ cursor = 0 /\ applied = <<>>
    /\ pending = {} /\ unused = Commands /\ gate = FALSE
    /\ rec = "off" /\ from = 0 /\ page = <<0, FALSE>> /\ need = 0
    /\ stop = "no"
    /\ inOrder \in BOOLEAN

Larger(m, n) == IF m > n THEN m ELSE n

-----------------------------------------------------------------------------
(* The ledger and the outbox.                                              *)

\* transact inserts the event and its outbox row together.
AppendEvent ==
    /\ last < MaxEvents
    /\ last' = last + 1
    /\ row' = [row EXCEPT ![last + 1] = "waiting"]
    /\ UNCHANGED tries

\* Somebody else's event.
CommitEvent ==
    /\ AppendEvent
    /\ UNCHANGED <<done, drops, server, client, recovery, stop>>

SetRow(s, v) ==
    /\ row' = [row EXCEPT ![s] = v]
    /\ UNCHANGED <<last, done>>

UnderWay == {"locked", "addressed", "sent"}

\* tick locks the row; a lock older than two minutes is taken over, the frames
\* its tick has already sent notwithstanding.
ClaimRow(s) ==
    /\ \/ row[s] = "waiting"
       \/ row[s] \in UnderWay /\ ~inOrder
    /\ inOrder => \A r \in 1 .. s - 1 : row[r] = "published"
    /\ tries[s] < MaxTries
    /\ tries' = [tries EXCEPT ![s] = @ + 1]
    /\ SetRow(s, "locked")
    /\ UNCHANGED <<drops, server, client, recovery, stop>>

\* broadcastAuthorized lists the room's connections before its first await: one
\* that joins later is not served.
Broadcast(s) ==
    /\ row[s] = "locked"
    /\ SetRow(s, IF conn = "none" THEN "sent" ELSE "addressed")
    /\ UNCHANGED <<tries, drops, server, client, recovery, stop>>

\* The connection is gone: the frames still meant for it go nowhere.
Orphaned == [s \in Seqs |-> IF row[s] = "addressed" THEN "sent" ELSE row[s]]

\* RealtimeConnection.close: the frames sent before it still arrive.
Hangup ==
    /\ conn' = "none" /\ buffer' = <<>> /\ hello' = <<>> /\ sent' = {}
    /\ row' = Orphaned
    /\ UNCHANGED <<base, upto, at>>

\* sendDurable: live frames wait for the end of the replay, and too many of
\* them ask for a snapshot instead.
SendDurable(s) ==
    \/ /\ conn # "live"
       /\ Len(buffer) < MaxBuffer
       /\ buffer' = Append(buffer, s)
       /\ row' = [row EXCEPT ![s] = "sent"]
       /\ UNCHANGED <<conn, hello, base, upto, at, down, sent>>
    \/ /\ conn # "live"
       /\ Len(buffer) >= MaxBuffer
       /\ down' = down \o <<<<"snapshot", base, base>>, <<"close", "snapshot">>>>
       /\ Hangup
    \/ /\ conn = "live"
       /\ down' = Append(down, <<"event", s>>)
       /\ row' = [row EXCEPT ![s] = "sent"]
       /\ UNCHANGED <<conn, hello, base, upto, at, buffer, sent>>

Deliver(s) ==
    /\ row[s] = "addressed"
    /\ SendDurable(s)
    /\ UNCHANGED <<last, done, tries, drops, client, recovery, stop>>

MarkPublished(s) ==
    /\ row[s] = "sent"
    /\ SetRow(s, "published")
    /\ UNCHANGED <<tries, drops, server, client, recovery, stop>>

\* A connection's reauthorization throws: the row is tried again in 5 seconds.
PublishFails(s) ==
    /\ ~inOrder
    /\ row[s] \in UnderWay
    /\ tries[s] < MaxTries
    /\ SetRow(s, "delayed")
    /\ UNCHANGED <<tries, drops, server, client, recovery, stop>>

RowDue(s) ==
    /\ row[s] = "delayed"
    /\ SetRow(s, "waiting")
    /\ UNCHANGED <<tries, drops, server, client, recovery, stop>>

-----------------------------------------------------------------------------
(* The server's connection.                                                *)

\* The hello frame sets #resumeFrom; the authorization is awaited.
Hello ==
    /\ conn = "open"
    /\ conn' = "greeted"
    /\ hello' = <<>>
    /\ base' = hello[1] /\ upto' = hello[1] /\ at' = hello[1]
    /\ UNCHANGED <<outbox, drops, buffer, down, sent, client, recovery, stop>>

\* The SELECT of resume.
Resume ==
    /\ conn = "greeted"
    /\ IF last - base > ReplayLimit
         THEN /\ down' = down \o <<<<"snapshot", base, base + ReplayLimit + 1>>,
                                   <<"close", "snapshot">>>>
              /\ Hangup
         ELSE /\ conn' = "replaying"
              /\ upto' = last
              /\ UNCHANGED <<row, hello, base, at, buffer, down, sent>>
    /\ UNCHANGED <<last, tries, done, drops, client, recovery, stop>>

ReplayRow ==
    /\ conn = "replaying" /\ at < upto
    /\ at' = at + 1
    /\ down' = Append(down, <<"event", at + 1>>)
    /\ UNCHANGED <<outbox, drops, conn, hello, base, upto, buffer, sent, client, recovery,
                   stop>>

\* The elements of S as event frames, in ascending order.
Ascending(S) ==
    [i \in 1 .. Cardinality(S) |->
        <<"event", CHOOSE s \in S : Cardinality({r \in S : r < s}) = i - 1>>]

\* A faulty Flushed: the buffer is only emptied.
FlushedNothing == <<>>

\* finishReplay passes on, sorted and once, the buffered frames that the replay
\* did not cover.
Flushed == Ascending({s \in Seqs : s > upto /\ \E i \in 1 .. Len(buffer) : buffer[i] = s})

\* The end of resume: resume_complete, then the buffered frames.
FinishReplay ==
    /\ conn = "replaying" /\ at = upto
    /\ conn' = "live"
    /\ buffer' = <<>>
    /\ down' = down \o (<<<<"resumed", upto>>>> \o Flushed)
    /\ UNCHANGED <<outbox, drops, hello, base, upto, at, sent, client, recovery, stop>>

\* CommandService.dispatch: the ledger appends a command once, and a repeated
\* one finds its event.
Dispatch(c) ==
    /\ c \in sent /\ conn = "live"
    /\ sent' = sent \ {c}
    /\ IF done[c] = 0
         THEN AppendEvent /\ done' = [done EXCEPT ![c] = last + 1]
         ELSE UNCHANGED outbox
    /\ down' = Append(down, <<"ack", c>>)
    /\ UNCHANGED <<drops, conn, hello, base, upto, at, buffer, client, recovery, stop>>

Reject(c) ==
    /\ c \in sent /\ conn = "live"
    /\ sent' = sent \ {c}
    /\ down' = Append(down, <<"reject", c>>)
    /\ UNCHANGED <<outbox, drops, conn, hello, base, upto, at, buffer, client, recovery,
                   stop>>

\* The session or the room has ended (4401, 4403, 4410), or an error while a
\* frame is handled is reported as an invalid frame (4400).
ServerCloses(why) ==
    /\ conn # "none"
    /\ down' = Append(down, <<"close", why>>)
    /\ Hangup
    /\ UNCHANGED <<last, tries, done, drops, client, recovery, stop>>

-----------------------------------------------------------------------------
(* The browser.                                                            *)

\* The socket is gone, with everything under way on it.
Disconnect ==
    /\ Hangup
    /\ down' = <<>>
    /\ link' = FALSE /\ ready' = FALSE
    /\ UNCHANGED <<last, tries, done>>

\* failRecovery: the browser stops synchronising and keeps what it has.
GiveUp(why) ==
    /\ stop' = IF stop = "no" THEN why ELSE stop
    /\ Disconnect
    /\ UNCHANGED <<drops, pending, unused, gate>>

\* clearState: nothing of the room is kept.
Clear(why) ==
    /\ stop' = why
    /\ Disconnect
    /\ cursor' = 0 /\ applied' = <<>> /\ pending' = {} /\ gate' = FALSE /\ need' = 0
    /\ UNCHANGED <<drops, unused, from, page>>

\* connect, at once or after scheduleReconnect, which a recovery under way holds
\* back; the open socket says hello.
Connect ==
    /\ ~link /\ stop = "no"
    /\ gate => rec = "off"
    /\ link' = TRUE /\ gate' = FALSE
    /\ conn' = "open" /\ base' = 0 /\ upto' = 0 /\ at' = 0
    /\ hello' = <<cursor>>
    /\ UNCHANGED <<outbox, drops, buffer, down, sent, ready, cursor, applied, pending, unused,
                   recovery, stop>>

\* The network fails, the server restarts, or its send buffer is full (1013).
Drop ==
    /\ link
    /\ drops < MaxDrops
    /\ drops' = drops + 1
    /\ Disconnect
    /\ UNCHANGED <<cursor, applied, pending, unused, gate, recovery, stop>>

\* The page is left.
Dispose ==
    /\ stop = "no"
    /\ Clear("disposed")
    /\ UNCHANGED rec

\* recoverEvents: one loop at a time; the reconnect waits for it.
Recover(through) ==
    /\ gate' = TRUE
    /\ need' = Larger(need, through)
    /\ IF rec = "off"
         THEN rec' = "asked" /\ from' = cursor
         ELSE UNCHANGED <<rec, from>>
    /\ UNCHANGED page

Frame(kind) == link /\ down # <<>> /\ down[1][1] = kind

TakeFrame ==
    /\ down' = Tail(down)
    /\ UNCHANGED <<outbox, drops, conn, hello, base, upto, at, buffer>>

\* A faulty ReceiveEvent: the cursor jumps over a gap.
ReceiveEventJumping ==
    LET s == down[1][2] IN
    /\ Frame("event")
    /\ TakeFrame
    /\ \/ /\ s <= cursor
          /\ UNCHANGED <<client, recovery>>
       \/ /\ s > cursor
          /\ cursor' = s /\ applied' = Append(applied, s)
          /\ UNCHANGED <<link, ready, pending, unused, gate, recovery>>
    /\ UNCHANGED <<sent, stop>>

\* #acceptEvent: an old event is ignored, the next one applied, and a later one
\* is dropped and reported as a gap.
ReceiveEvent ==
    LET s == down[1][2] IN
    /\ Frame("event")
    /\ TakeFrame
    /\ \/ /\ s <= cursor
          /\ UNCHANGED <<client, recovery>>
       \/ /\ s = cursor + 1
          /\ cursor' = s /\ applied' = Append(applied, s)
          /\ UNCHANGED <<link, ready, pending, unused, gate, recovery>>
       \/ /\ s > cursor + 1
          /\ Recover(s - 1)
          /\ UNCHANGED <<link, ready, cursor, applied, pending, unused>>
    /\ UNCHANGED <<sent, stop>>

\* A faulty ReceiveResumed: the commands that were waiting are not sent.
ReceiveResumedForgetful ==
    LET t == down[1][2] IN
    /\ Frame("resumed")
    /\ TakeFrame
    /\ IF t = cursor
         THEN ready' = TRUE /\ UNCHANGED <<gate, recovery>>
         ELSE Recover(Larger(cursor, t)) /\ UNCHANGED ready
    /\ UNCHANGED <<sent, link, cursor, applied, pending, unused, stop>>

\* resume_complete opens the way for commands, or asks for the missing events.
ReceiveResumed ==
    LET t == down[1][2] IN
    /\ Frame("resumed")
    /\ TakeFrame
    /\ IF t = cursor
         THEN /\ ready' = TRUE
              /\ sent' = pending
              /\ UNCHANGED <<gate, recovery>>
         ELSE /\ Recover(Larger(cursor, t))
              /\ UNCHANGED <<ready, sent>>
    /\ UNCHANGED <<link, cursor, applied, pending, unused, stop>>

\* snapshot_required must name the browser's own cursor.
ReceiveSnapshot ==
    LET a == down[1][2]
        t == down[1][3]
    IN  /\ Frame("snapshot")
        /\ IF a = cursor /\ t >= a
             THEN /\ TakeFrame
                  /\ Recover(t)
                  /\ UNCHANGED <<link, ready, cursor, applied, pending, unused, sent, stop>>
             ELSE GiveUp("range") /\ UNCHANGED <<cursor, applied, recovery>>

\* ack and reject settle the command.
ReceiveAnswer ==
    /\ Frame("ack") \/ Frame("reject")
    /\ TakeFrame
    /\ pending' = pending \ {down[1][2]}
    /\ sent' = sent \ {down[1][2]}
    /\ UNCHANGED <<link, ready, cursor, applied, unused, gate, recovery, stop>>

\* onClose: the code decides whether the browser reconnects, stops or forgets.
ReceiveClose ==
    LET why == down[1][2] IN
    /\ Frame("close")
    /\ \/ /\ why = "snapshot" /\ gate
          /\ Disconnect
          /\ UNCHANGED <<drops, cursor, applied, pending, unused, gate, recovery, stop>>
       \/ /\ why = "invalid" \/ (why = "snapshot" /\ ~gate)
          /\ GiveUp(IF why = "snapshot" THEN "ungated" ELSE "invalid")
          /\ UNCHANGED <<cursor, applied, recovery>>
       \/ /\ why = "ended"
          /\ Clear("ended")
          /\ UNCHANGED rec

\* RoomSocket.send
SendCommand(c) ==
    /\ stop = "no"
    /\ c \in unused /\ Cardinality(pending) < MaxPending
    /\ unused' = unused \ {c}
    /\ pending' = pending \cup {c}
    /\ sent' = IF ready THEN sent \cup {c} ELSE sent
    /\ UNCHANGED <<outbox, drops, conn, hello, base, upto, at, buffer, down, link, ready,
                   cursor, applied, gate, recovery, stop>>

\* GET /v1/rooms/:roomId/events
ServePage ==
    /\ rec = "asked"
    /\ rec' = "answered"
    /\ page' = IF last - from >= PageLimit THEN <<from + PageLimit, TRUE>> ELSE <<last, FALSE>>
    /\ UNCHANGED <<outbox, drops, server, client, from, need, stop>>

\* #recoverLoop looks at #expired and #roomUnavailable after its await, and a
\* destroyed socket takes no event.
Discarded == stop \in Cleared

\* #recoverLoop hands the page's events, from + 1 to the last, to the socket, which
\* ignores those it has passed (from is never ahead of it); the first one that
\* leaves the ledger further on is taken for a rejected one.  A page that arrives
\* after clearState is discarded; one that arrives after failRecovery is not.
TakePage ==
    LET to == page[1]
        more == page[2]
        rejected == to > from /\ cursor > from + 1
        new == [i \in 1 .. to - cursor |-> cursor + i]
    IN  /\ rec = "answered"
        /\ \/ /\ Discarded
              /\ rec' = "off"
              /\ UNCHANGED <<outbox, drops, server, client, from, page, need, stop>>
           \/ /\ ~Discarded /\ rejected
              /\ GiveUp("gap")
              /\ rec' = "off"
              /\ UNCHANGED <<cursor, applied, from, page, need>>
           \/ /\ ~Discarded /\ ~rejected
              /\ cursor' = Larger(cursor, to) /\ applied' = applied \o new
              /\ from' = to
              /\ \/ /\ ~more /\ to < need
                    /\ GiveUp("gap")
                    /\ rec' = "off"
                    /\ UNCHANGED <<page, need>>
                 \/ /\ ~more /\ to >= need
                    /\ rec' = "off" /\ need' = Larger(cursor, to)
                    /\ UNCHANGED <<outbox, drops, server, link, ready, pending, unused, gate,
                                   page, stop>>
                 \/ /\ more
                    /\ rec' = "asked"
                    /\ UNCHANGED <<outbox, drops, server, link, ready, pending, unused, gate,
                                   page, need, stop>>

\* The request for a page fails, or is refused because the session or the room
\* is over.
PageFails ==
    /\ rec # "off"
    /\ rec' = "off"
    /\ \/ GiveUp("request") /\ UNCHANGED <<cursor, applied, from, page, need>>
       \/ stop \notin Cleared /\ Clear("ended")

-----------------------------------------------------------------------------

PublishStep(s) ==
    \/ ClaimRow(s) \/ Broadcast(s) \/ Deliver(s) \/ MarkPublished(s)
    \/ PublishFails(s) \/ RowDue(s)

ReceiveStep ==
    ReceiveEvent \/ ReceiveResumed \/ ReceiveSnapshot \/ ReceiveAnswer \/ ReceiveClose

RealtimeNext ==
    /\ UNCHANGED inOrder
    /\ \/ CommitEvent
       \/ \E s \in Seqs : PublishStep(s)
       \/ Hello \/ Resume \/ ReplayRow \/ FinishReplay
       \/ \E why \in {"invalid", "ended"} : ServerCloses(why)
       \/ \E c \in Commands : Dispatch(c) \/ Reject(c) \/ SendCommand(c)
       \/ Connect \/ Drop \/ Dispose \/ ReceiveStep
       \/ ServePage \/ TakePage \/ PageFails

RealtimeSpec == RealtimeInit /\ [][RealtimeNext]_<<realVars, inOrder>>

\* The publisher's timer keeps ticking, the server and the browser run their
\* handlers, and the browser reconnects.  Nobody is assumed to write.
RealtimeFairness ==
    /\ \A s \in Seqs : /\ WF_realVars(ClaimRow(s) /\ row[s] = "waiting")
                       /\ WF_realVars(Broadcast(s))
                       /\ WF_realVars(Deliver(s))
                       /\ WF_realVars(MarkPublished(s))
                       /\ WF_realVars(RowDue(s))
    /\ WF_realVars(Hello) /\ WF_realVars(Resume) /\ WF_realVars(ReplayRow)
    /\ WF_realVars(FinishReplay)
    /\ WF_realVars(Connect) /\ WF_realVars(ReceiveStep)
    /\ WF_realVars(ServePage) /\ WF_realVars(TakePage)
    /\ \A c \in Commands : WF_realVars(Dispatch(c) \/ Reject(c))

FairRealtimeSpec == RealtimeSpec /\ RealtimeFairness

-----------------------------------------------------------------------------
(* Properties.                                                             *)

\* The browser's ledger is a prefix of the room's: every event once, in order,
\* none skipped, whatever the socket, the replay and the page recovery deliver
\* (RoomSocket.#acceptEvent, EventLedger.append, #recoverLoop).
AppliedInOrder ==
    /\ applied = [i \in 1 .. cursor |-> i]
    /\ cursor <= last

\* A replay ends exactly where the browser is.  Were it not so, the socket would
\* stay open without ever being ready, and no command would leave the browser
\* (onFrame's resume_complete branch, deferReconnectUntil).
ResumeMatches == Frame("resumed") => down[1][2] = cursor

\* After clearState nothing of the room is left or comes back, although a page
\* request or frames were still under way (#recoverLoop's checks after its await).
ClearedStaysEmpty ==
    stop \in Cleared => /\ cursor = 0 /\ applied = <<>>
                        /\ pending = {} /\ sent = {} /\ ~link

\* The 4409 close always finds the recovery that its snapshot_required started
\* (sendDurable and resume send both; onClose takes the lack of it for a
\* protocol error).
SnapshotStartsRecovery == stop # "ungated"

\* While rows are published in order and once each, once a row is published a
\* live and quiet browser has its event or the event is on its way, and no gap
\* ends the synchronisation (sendDurable, finishReplay, resume).
NoSilentLoss ==
    inOrder =>
        /\ stop # "gap"
        /\ \A s \in Seqs :
              row[s] = "published" /\ conn = "live" /\ link /\ rec = "off" =>
                  s <= cursor \/ \E i \in 1 .. Len(down) : down[i] = <<"event", s>>

\* The browser stays in step with the room, whatever is lost, replayed, repeated
\* or cleared, and wherever the connection breaks.
RealtimeSafe ==
    /\ RealtimeTypeOK /\ AppliedInOrder /\ ResumeMatches
    /\ ClearedStaysEmpty /\ SnapshotStartsRecovery /\ NoSilentLoss

\* Every event of the room reaches the browser, unless it stops for a reason; a
\* gap is none, the page recovery and the next resume repair it (RoomSocket.#onFrame,
\* HydratedSessionState.recoverEvents).  The code does not keep this: the run
\* RealtimeGap refutes it.
EveryEventArrives ==
    \A s \in Seqs : last >= s ~> cursor >= s \/ stop \notin {"no", "gap"}

\* While rows are published in order and once each, a browser that is behind
\* catches up when nobody writes, unless it stops for a reason.
CatchesUp ==
    inOrder /\ cursor < last ~> cursor = last \/ stop # "no"

\* A command sent while offline, or whose answer was lost, is answered in the
\* end (RoomSocket.#flushPending).
CommandsResolve ==
    \A c \in Commands : c \in pending ~> c \notin pending \/ stop # "no"
===============================================================================

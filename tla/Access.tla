------------------------------- MODULE Access -------------------------------
(***************************************************************************)
(* Who may open a classroom: the auth_session rows, one room and its        *)
(* deletion on the server, and one browser whose tabs share a single        *)
(* session cookie.  A tab is on the login page (l.), the teacher's          *)
(* workspace (w.) or the room page (r., and the gates without a prefix).    *)
(*                                                                          *)
(* A request carries the cookie of the moment it is sent; the server works  *)
(* on it later, in one or two steps, and the answer, with the cookie it     *)
(* sets, arrives later still.  A request of a page that was left or of an   *)
(* action that was superseded is no longer `mine': its answer still sets    *)
(* cookies but changes no page.                                             *)
(***************************************************************************)
EXTENDS Naturals, Sequences, FiniteSets

CONSTANTS Seats,        \* the room's seats
          Tabs,         \* tabs of one browser
          Desk,         \* the tab where the teacher is signed in at first
          MaxMoves,     \* bound on what the user does
          MaxOutside,   \* bound on what other devices, the clock and the sweep do
          MaxLosses     \* bound on lost requests and dropped sockets

\* What a request is answered, other than who the cookie belongs to.
Words == {"none", "admitted", "seat", "welcome", "dismissal", "joined", "refused", "room",
          "deleting", "missing", "events", "history", "rooms", "created", "bye", "signed",
          "accepted", "conflict", "deletion", "completed", "lost"}

ASSUME AccessAssumption ==
  /\ Desk \in Tabs
  /\ Seats \cap (Words \cup {"teacher", "nobody"}) = {}
  /\ MaxMoves \in Nat /\ MaxOutside \in Nat /\ MaxLosses \in Nat

VARIABLES
  sessions,  \* auth_session, by token: whose it is and whether it is unrevoked and unexpired
  link,      \* the last magic_link row: sent, spent (consumed or expired)
  room,      \* classroom_room.status (scheduled counts as open)
  deletion,  \* the room's deletion_job: none, active, done (the room row is gone)
  jar,       \* the lo_session cookie of the browser, 0 when there is none
  tab,       \* what each tab shows
  sock,      \* each tab's room socket
  net,       \* requests under way
  moves, outside, losses

server == <<sessions, link, room, deletion>>
bounds == <<moves, outside, losses>>
accessVars == <<server, jar, tab, sock, net, bounds>>

\* Every move signs in at most once.
MaxSessions == MaxMoves + MaxOutside + 1
Tokens == 0..MaxSessions
People == Seats \cup {"teacher", "nobody"}
Ops == {"session", "join", "status", "room", "events", "rooms", "create", "logout",
        "consume", "delete", "poll"}
\* Requests that change the server or the cookie, or bring codes.
Changing == {"join", "create", "logout", "consume", "delete"}
Replies == People \cup Words
Request == [tab : Tabs, op : Ops, tok : Tokens, seat : Seats \cup {"nobody"}, reply : Replies,
            mine : BOOLEAN]

\* The page holds a hydrated room.
Hydrated == {"ready", "r.delete", "r.recover"}
\* The page waits for an answer.
Waiting == {"l.check", "l.join", "l.confirm", "l.enter", "w.link", "w.session", "w.rooms",
            "w.create", "w.refresh", "w.bye", "r.session", "r.status", "r.room", "r.events",
            "r.late", "r.gone", "r.bye", "r.delete", "r.recover", "unknown", "panel"}
Resting == {"l.anon", "l.down", "w.bad", "w.ready", "w.student", "w.down", "w.byefail",
            "ready", "lost", "forbidden", "down", "receipt"}

\* A page that waits has exactly one request under way, one that rests has none.
AccessTypeOK ==
  /\ sessions \in Seq([who : Seats \cup {"teacher"}, live : BOOLEAN])
  /\ Len(sessions) <= MaxSessions
  /\ link \in {"sent", "spent"}
  /\ room \in {"open", "paused", "closed"}
  /\ deletion \in {"none", "active", "done"}
  /\ jar \in 0..Len(sessions)
  /\ tab \in [Tabs -> [at : Waiting \cup Resting, mode : {"student", "teacher"},
                       who : People, codes : BOOLEAN]]
  /\ sock \in [Tabs -> [st : {"none", "opening", "admitted", "open", "4401", "4410"},
                        tok : Tokens]]
  /\ net \subseteq Request
  /\ \A t \in Tabs : Cardinality({r \in net : r.tab = t /\ r.mine})
                       = IF tab[t].at \in Waiting THEN 1 ELSE 0
  /\ moves \in 0..MaxMoves /\ outside \in 0..MaxOutside /\ losses \in 0..MaxLosses

\* The teacher's workspace is open in one tab, a link to sign in again has been
\* mailed, and the other tabs show the login form.
AccessInit ==
  /\ sessions = <<[who |-> "teacher", live |-> TRUE]>>
  /\ link = "sent" /\ room = "open" /\ deletion = "none"
  /\ jar = 1
  /\ tab = [t \in Tabs |-> [at |-> IF t = Desk THEN "w.ready" ELSE "l.anon",
                            mode |-> "student", who |-> "nobody", codes |-> FALSE]]
  /\ sock = [t \in Tabs |-> [st |-> "none", tok |-> 0]]
  /\ net = {}
  /\ moves = 0 /\ outside = 0 /\ losses = 0

-----------------------------------------------------------------------------
(* Sessions on the server.                                                  *)

Live(tok) == tok # 0 /\ sessions[tok].live

\* SessionService.get: the principal of a cookie.
Who(tok) == IF Live(tok) THEN sessions[tok].who ELSE "nobody"

Revoked(ss, whose) == [i \in DOMAIN ss |-> [ss[i] EXCEPT !.live = @ /\ ss[i].who \notin whose]]

\* joinRoom revokes the seat's session and inserts the next one.
Seated(ss, s) == Append(Revoked(ss, {s}), [who |-> s, live |-> TRUE])

\* reauthorize: "ok" or the close code (4403, for a room that is gone, is treated as 4410).
Reauthorized(tok) ==
  CASE ~Live(tok)        -> "4401"
    [] deletion # "none" -> "4410"
    [] OTHER             -> "ok"

\* authenticateWebSocketToken: a fresh Upgrade, which a closed room refuses.
UpgradeAuthorized(tok) ==
  CASE ~Live(tok) \/ deletion = "done"          -> "4401"
    [] deletion = "active" \/ room = "closed"   -> "4410"
    [] OTHER                                    -> "ok"

-----------------------------------------------------------------------------
(* The server works on a request.                                           *)

Fresh(r, op) == r.op = op /\ r.reply = "none"
Answer(r, reply) == net' = (net \ {r}) \cup {[r EXCEPT !.reply = reply]}
SignIn(r, reply) == net' = (net \ {r}) \cup
                           {[r EXCEPT !.reply = reply, !.tok = Len(sessions) + 1]}
ServerKept == UNCHANGED <<server, jar, tab, sock, bounds>>

ServeSession(r) == Fresh(r, "session") /\ Answer(r, Who(r.tok)) /\ ServerKept

\* joinRoom decides under the room lock.
JoinRoom(r) ==
  /\ Fresh(r, "join")
  /\ \/ /\ room = "open"
        /\ SignIn(r, "seat")
        /\ sessions' = Seated(sessions, r.seat)
     \/ /\ room # "open"
        /\ Answer(r, "refused")
        /\ UNCHANGED sessions
  /\ UNCHANGED <<link, room, deletion, jar, tab, sock, bounds>>

\* MagicLinkService.consume: one UPDATE spends the link, the session is inserted with it.
ConsumeLink(r) ==
  /\ Fresh(r, "consume")
  /\ \/ /\ link = "sent"
        /\ SignIn(r, "welcome")
        /\ link' = "spent"
        /\ sessions' = Append(sessions, [who |-> "teacher", live |-> TRUE])
     \/ /\ link # "sent"
        /\ Answer(r, "refused")
        /\ UNCHANGED <<link, sessions>>
  /\ UNCHANGED <<room, deletion, jar, tab, sock, bounds>>

\* DELETE /v1/auth/session.
ServeLogout(r) ==
  /\ Fresh(r, "logout")
  /\ sessions' = [i \in DOMAIN sessions |-> [sessions[i] EXCEPT !.live = @ /\ i # r.tok]]
  /\ Answer(r, "dismissal")
  /\ UNCHANGED <<link, room, deletion, jar, tab, sock, bounds>>

\* GET /v1/rooms/:roomId and its events check the session first ...
AdmitRead(r) ==
  /\ r.op \in {"room", "events"} /\ r.reply = "none"
  /\ Answer(r, IF Who(r.tok) = "nobody" THEN "nobody" ELSE "admitted")
  /\ ServerKept

\* ... getRoom then reads the room under its lock,
ReadRoom(r) ==
  /\ r.op = "room" /\ r.reply = "admitted"
  /\ Answer(r, CASE deletion = "none"   -> "room"
                 [] deletion = "active" -> "deleting"
                 [] deletion = "done"   -> "missing")
  /\ ServerKept

\* ... and the events are handed out only to a session that is authorised after the read.
Disclosable(tok) == Reauthorized(tok) = "ok"
ReadEvents(r) ==
  /\ r.op = "events" /\ r.reply = "admitted"
  /\ Answer(r, CASE ~Disclosable(r.tok)                    -> "missing"
                 [] Disclosable(r.tok) /\ room = "closed" -> "history"
                 [] OTHER                                  -> "events")
  /\ ServerKept

\* The teacher's room list and a new room with its codes.
ServeRooms(r) ==
  /\ Fresh(r, "rooms")
  /\ Answer(r, CASE Who(r.tok) = "teacher" -> "rooms"
                 [] Who(r.tok) = "nobody"  -> "nobody"
                 [] OTHER                  -> "missing")
  /\ ServerKept

CreateRoom(r) ==
  /\ Fresh(r, "create")
  /\ Answer(r, CASE Who(r.tok) = "teacher" -> "created"
                 [] Who(r.tok) = "nobody"  -> "nobody"
                 [] OTHER                  -> "refused")
  /\ ServerKept

\* deletionStatusForRoom, and deletionStatus of a job the page knows.
DeletionStatus(r) ==
  /\ r.op \in {"status", "poll"} /\ r.reply = "none"
  /\ Answer(r, CASE Who(r.tok) = "nobody"                              -> "nobody"
                 [] Who(r.tok) # "teacher" \/ deletion = "none"        -> "missing"
                 [] deletion = "done" /\ r.op = "poll"                 -> "completed"
                 [] OTHER                                              -> "deletion")
  /\ ServerKept

\* The deletion closes the room and signs the students out in one transaction.
Tombstone ==
  /\ deletion' = "active" /\ room' = "closed"
  /\ sessions' = Revoked(sessions, Seats)

\* requestDeletion commits; the sockets are evicted after that.
RequestDeletion(r) ==
  /\ Fresh(r, "delete")
  /\ \/ /\ Who(r.tok) = "teacher" /\ deletion = "none"
        /\ Tombstone
        /\ Answer(r, "admitted")
     \/ /\ ~(Who(r.tok) = "teacher" /\ deletion = "none")
        /\ Answer(r, CASE Who(r.tok) = "nobody"                             -> "nobody"
                       [] Who(r.tok) = "teacher" /\ deletion = "active"     -> "conflict"
                       [] OTHER                                             -> "missing")
        /\ UNCHANGED <<sessions, room, deletion>>
  /\ UNCHANGED <<link, jar, tab, sock, bounds>>

EvictRoom(r) ==
  /\ r.op = "delete" /\ r.reply = "admitted"
  /\ Answer(r, "accepted")
  /\ sock' = [t \in Tabs |-> IF sock[t].st = "open" THEN [sock[t] EXCEPT !.st = "4410"]
                             ELSE sock[t]]
  /\ UNCHANGED <<server, jar, tab, bounds>>

Serve(r) ==
  \/ ServeSession(r) \/ JoinRoom(r) \/ ConsumeLink(r) \/ ServeLogout(r)
  \/ AdmitRead(r) \/ ReadRoom(r) \/ ReadEvents(r) \/ ServeRooms(r) \/ CreateRoom(r)
  \/ DeletionStatus(r) \/ RequestDeletion(r) \/ EvictRoom(r)

\* The request or its answer is lost; the server may have worked on it.
Lose(r) ==
  /\ losses < MaxLosses
  /\ r.reply \notin {"admitted", "lost"}
  /\ losses' = losses + 1
  /\ Answer(r, "lost")
  /\ UNCHANGED <<server, jar, tab, sock, moves, outside>>

-----------------------------------------------------------------------------
(* What happens elsewhere: other devices, the worker and the clock.          *)

Elsewhere == /\ outside < MaxOutside /\ outside' = outside + 1
             /\ UNCHANGED <<link, jar, tab, sock, net, moves, losses>>

JoinElsewhere(s) ==
  /\ Elsewhere
  /\ room = "open"
  /\ sessions' = Seated(sessions, s)
  /\ UNCHANGED <<room, deletion>>

Expire(i) ==
  /\ Elsewhere
  /\ sessions[i].live
  /\ sessions' = [sessions EXCEPT ![i].live = FALSE]
  /\ UNCHANGED <<room, deletion>>

ChangeStatus(s) ==
  /\ Elsewhere
  /\ room # "closed" /\ room # s
  /\ room' = s
  /\ UNCHANGED <<sessions, deletion>>

\* The retention sweep deletes the room too, and evicts nobody.
SweepRetention ==
  /\ Elsewhere
  /\ deletion = "none"
  /\ Tombstone

FinishDeletion ==
  /\ deletion = "active"
  /\ deletion' = "done"
  /\ UNCHANGED <<sessions, link, room, jar, tab, sock, net, bounds>>

-----------------------------------------------------------------------------
(* The browser.                                                             *)

Closed == [st |-> "none", tok |-> 0]

\* Answers that set the cookie, and what the page reads of them afterwards.
SetsCookie == [seat |-> "joined", welcome |-> "signed", dismissal |-> "bye"]

\* The browser stores the cookie when the headers arrive, before the page reads the body.
StoreCookie(r) ==
  /\ r.reply \in DOMAIN SetsCookie
  /\ jar' = IF r.reply = "dismissal" THEN 0 ELSE r.tok
  /\ Answer(r, SetsCookie[r.reply])
  /\ UNCHANGED <<server, tab, sock, bounds>>

Readable(r) == r.reply \notin {"none", "admitted"} \cup DOMAIN SetsCookie

Send(t, op, seat) == [tab |-> t, op |-> op, tok |-> jar', seat |-> seat, reply |-> "none",
                      mine |-> TRUE]
\* What the tab asked for before is superseded: a read is aborted or its answer
\* dropped, a request that changes something goes on without its page.
Superseded(t) ==
  {r \in net : r.tab # t} \cup
  {[r EXCEPT !.mine = FALSE] : r \in {q \in net : q.tab = t /\ q.op \in Changing}}

\* The request that asks for what each waiting page waits for.
Asks == [at \in Waiting |->
  CASE at \in {"l.check", "l.confirm", "w.session", "r.session"}    -> "session"
    [] at = "l.join"                                                -> "join"
    [] at \in {"l.enter", "r.room"}                                 -> "room"
    [] at = "w.link"                                                -> "consume"
    [] at \in {"w.rooms", "w.refresh"}                              -> "rooms"
    [] at = "w.create"                                              -> "create"
    [] at \in {"w.bye", "r.bye"}                                    -> "logout"
    [] at \in {"r.status", "r.late", "r.gone", "r.recover", "unknown"} -> "status"
    [] at = "r.events"                                              -> "events"
    [] at = "r.delete"                                              -> "delete"
    [] at = "panel"                                                 -> "poll"]

\* Tab t turns to page p while the requests of rest stay under way.
Show(t, p, rest) ==
  /\ tab' = [tab EXCEPT ![t] = p]
  /\ net' = IF p.at \in Waiting
              THEN rest \cup {Send(t, Asks[p.at], IF p.at = "l.join" THEN p.who ELSE "nobody")}
              ELSE rest

Login(p) == [p EXCEPT !.at = "l.check", !.who = "nobody", !.codes = FALSE]
Moved(p, at) == [p EXCEPT !.at = at]

\* The session check of the login page sends everybody to their own page.
Checked(p, reply) ==
  CASE reply = "teacher" -> Moved(p, "w.session")
    [] reply \in Seats   -> [p EXCEPT !.at = "r.session", !.mode = "student"]
    [] reply = "nobody"  -> Moved(p, "l.anon")
    [] OTHER             -> Moved(p, "l.down")

\* A faulty variant: whoever the cookie belongs to goes on.
JoiningUnchecked(p, reply) ==
  CASE p.at = "l.join" /\ reply = "joined"       -> Moved(p, "l.confirm")
    [] p.at = "l.confirm" /\ reply \in Seats \cup {"teacher"} -> Moved(p, "l.enter")
    [] p.at = "l.enter" /\ reply = "room"        -> [p EXCEPT !.at = "r.session", !.mode = "student"]
    [] OTHER                                     -> [p EXCEPT !.at = "l.anon", !.who = "nobody"]

\* submitStudent: join, then the session must be the seat that was joined, then the room.
Joining(p, reply) ==
  CASE p.at = "l.join" /\ reply = "joined"       -> Moved(p, "l.confirm")
    [] p.at = "l.confirm" /\ reply = p.who       -> Moved(p, "l.enter")
    [] p.at = "l.enter" /\ reply = "room"        -> [p EXCEPT !.at = "r.session", !.mode = "student"]
    [] OTHER                                     -> [p EXCEPT !.at = "l.anon", !.who = "nobody"]

\* The teacher's workspace.
Workspace(p, reply) ==
  CASE reply = "nobody" /\ p.at # "w.bye"           -> Login(p)
    [] p.at = "w.link" /\ reply = "signed"          -> Moved(p, "w.session")
    [] p.at = "w.link" /\ reply # "signed"          -> Moved(p, "w.bad")
    [] p.at = "w.session" /\ reply = "teacher"      -> Moved(p, "w.rooms")
    [] p.at = "w.session" /\ reply \in Seats        -> Moved(p, "w.student")
    [] p.at = "w.rooms" /\ reply = "rooms"          -> Moved(p, "w.ready")
    [] p.at = "w.create" /\ reply = "created"       -> [p EXCEPT !.at = "w.refresh", !.codes = TRUE]
    [] p.at = "w.create" /\ reply # "created"       -> Moved(p, "w.ready")
    [] p.at = "w.refresh"                           -> Moved(p, "w.ready")
    [] p.at = "w.bye" /\ reply = "bye"              -> Login(p)
    [] p.at = "w.bye" /\ reply # "bye"              -> Moved(p, "w.byefail")
    [] OTHER                                        -> Moved(p, "w.down")

\* The access check of the room page.
Opening(p, reply) ==
  CASE reply = "nobody"                                                -> Login(p)
    [] p.at = "r.session" /\ reply = "teacher"                         -> [p EXCEPT !.at = "r.status", !.who = reply]
    [] p.at = "r.session" /\ reply \in Seats /\ p.mode = "teacher"     -> Moved(p, "forbidden")
    [] p.at = "r.session" /\ reply \in Seats /\ p.mode = "student"     -> [p EXCEPT !.at = "r.room", !.who = reply]
    [] p.at \in {"r.status", "r.late"} /\ reply = "deletion"
         /\ p.mode = "teacher"                                         -> Moved(p, "panel")
    [] p.at = "r.status" /\ reply = "deletion" /\ p.mode = "student"   -> [p EXCEPT !.at = "r.session", !.mode = "teacher"]
    [] p.at = "r.status" /\ reply = "missing"                          -> Moved(p, "r.room")
    [] p.at = "r.room" /\ reply = "room" /\ p.who = "teacher"
         /\ p.mode = "student"                                         -> [p EXCEPT !.at = "r.session", !.mode = "teacher"]
    [] p.at = "r.room" /\ reply = "room"                               -> Moved(p, "r.events")
    [] p.at = "r.room" /\ reply = "deleting" /\ p.who = "teacher"
         /\ p.mode = "teacher"                                         -> Moved(p, "r.late")
    [] p.at = "r.room" /\ reply = "deleting" /\ p.who = "teacher"
         /\ p.mode = "student"                                         -> [p EXCEPT !.at = "r.session", !.mode = "teacher"]
    [] p.at = "r.room" /\ reply = "missing"                            -> Moved(p, "lost")
    [] p.at = "r.events" /\ reply = "missing" /\ p.who = "teacher"     -> Moved(p, "r.gone")
    [] p.at = "r.events" /\ reply = "missing"                          -> Moved(p, "lost")
    [] p.at = "r.events" /\ reply \in {"events", "history"}            -> Moved(p, "ready")
    [] OTHER                                                           -> Moved(p, "down")

\* A deletion the teacher asked for here, or that the socket or the events told of.
Deleting(p, reply) ==
  CASE reply = "nobody"                                                -> Login(p)
    [] reply \in {"accepted", "deletion"}                              -> Moved(p, "panel")
    [] reply = "completed"                                             -> Moved(p, "receipt")
    [] p.at = "r.delete"                                               -> Moved(p, "r.recover")
    [] p.at \in {"r.recover", "unknown"}                               -> Moved(p, "unknown")
    [] p.at = "r.gone"                                                 -> Moved(p, "lost")
    [] p.at = "panel"                                                  -> p

LeavingRoom(p, reply) == IF reply = "bye" THEN Login(p) ELSE Moved(p, "lost")

Turned(p, reply) ==
  CASE p.at = "l.check"                                           -> Checked(p, reply)
    [] p.at \in {"l.join", "l.confirm", "l.enter"}                -> Joining(p, reply)
    [] p.at \in {"w.link", "w.session", "w.rooms", "w.create", "w.refresh", "w.bye"}
                                                                  -> Workspace(p, reply)
    [] p.at \in {"r.session", "r.status", "r.room", "r.events", "r.late"}
                                                                  -> Opening(p, reply)
    [] p.at = "r.bye"                                             -> LeavingRoom(p, reply)
    [] OTHER                                                      -> Deleting(p, reply)

\* An answer for the page that waits for it.  A page that becomes ready in a
\* room that is not closed connects its socket with the cookie of that moment;
\* one that stops being ready disposes of it.
Receive(r) ==
  LET p == Turned(tab[r.tab], r.reply) IN
  /\ Readable(r) /\ r.mine
  /\ jar' = jar
  /\ Show(r.tab, p, net \ {r})
  /\ sock' = [sock EXCEPT ![r.tab] =
       IF r.reply = "events" /\ p.at = "ready" THEN [st |-> "opening", tok |-> jar]
       ELSE IF p.at \in Hydrated THEN @ ELSE Closed]
  /\ UNCHANGED <<server, bounds>>

\* A late answer: its cookie was stored, nobody else looks at it.
ReceiveLate(r) ==
  /\ Readable(r) /\ ~r.mine
  /\ net' = net \ {r}
  /\ UNCHANGED <<server, jar, tab, sock, bounds>>

-----------------------------------------------------------------------------
(* The room socket.                                                         *)

SocketKept == UNCHANGED <<server, jar, tab, net, moves, outside>>

\* The Upgrade is authorised, and joined to the hub a moment later.
AdmitSocket(t) ==
  /\ sock[t].st = "opening"
  /\ LET verdict == UpgradeAuthorized(sock[t].tok)
     IN sock' = [sock EXCEPT ![t].st = IF verdict = "ok" THEN "admitted" ELSE verdict]
  /\ SocketKept /\ UNCHANGED losses

ConnectSocket(t) ==
  /\ sock[t].st = "admitted"
  /\ sock' = [sock EXCEPT ![t].st = "open"]
  /\ SocketKept /\ UNCHANGED losses

\* The hello and every heartbeat reauthorise the session of the Upgrade.
Heartbeat(t) ==
  /\ sock[t].st = "open" /\ Reauthorized(sock[t].tok) # "ok"
  /\ sock' = [sock EXCEPT ![t].st = Reauthorized(sock[t].tok)]
  /\ SocketKept /\ UNCHANGED losses

\* A dropped connection comes back with whatever cookie the browser now has.
Reconnect(t) ==
  /\ sock[t].st = "open" /\ losses < MaxLosses
  /\ losses' = losses + 1
  /\ sock' = [sock EXCEPT ![t] = [st |-> "opening", tok |-> jar]]
  /\ SocketKept

\* onClose: 4401 ends the session, 4410 the room.
OnClose(t) ==
  LET p == tab[t] IN
  /\ sock[t].st \in {"4401", "4410"}
  /\ sock' = [sock EXCEPT ![t] = Closed]
  /\ jar' = jar
  /\ Show(t, CASE sock[t].st = "4401"                      -> Login(p)
               [] sock[t].st = "4410" /\ p.who = "teacher" -> Moved(p, "r.gone")
               [] OTHER                                    -> Moved(p, "lost"),
          Superseded(t))
  /\ UNCHANGED <<server, bounds>>

-----------------------------------------------------------------------------
(* The user.                                                                *)

Act(t, p) ==
  /\ moves < MaxMoves /\ moves' = moves + 1
  /\ jar' = jar
  /\ Show(t, p, Superseded(t))
  /\ sock' = IF p.at \in Hydrated THEN sock ELSE [sock EXCEPT ![t] = Closed]
  /\ UNCHANGED <<server, outside, losses>>

SubmitStudent(t, s) == tab[t].at = "l.anon" /\ Act(t, [tab[t] EXCEPT !.at = "l.join", !.who = s])

\* submitTeacher: another mail is sent, the page stays.
SubmitTeacher(t) ==
  /\ tab[t].at = "l.anon" /\ link = "spent"
  /\ link' = "sent"
  /\ moves < MaxMoves /\ moves' = moves + 1
  /\ UNCHANGED <<sessions, room, deletion, jar, tab, sock, net, outside, losses>>

OpenLink(t) == Act(t, [Login(tab[t]) EXCEPT !.at = "w.link"])

Retry(t) ==
  \/ tab[t].at \in {"lost", "forbidden", "down"} /\ Act(t, Moved(tab[t], "r.session"))
  \/ tab[t].at = "l.down" /\ Act(t, Moved(tab[t], "l.check"))

\* Opening the room's address in either mode is a new document.
Visit(t, mode) == Act(t, [Login(tab[t]) EXCEPT !.at = "r.session", !.mode = mode])

CreateClassroom(t) ==
  /\ tab[t].at = "w.ready" /\ ~tab[t].codes
  /\ Act(t, Moved(tab[t], "w.create"))

\* The codes leave the page; a room list under way still arrives.
ConfirmSaved(t) ==
  /\ tab[t].codes
  /\ moves < MaxMoves /\ moves' = moves + 1
  /\ tab' = [tab EXCEPT ![t].codes = FALSE]
  /\ UNCHANGED <<server, jar, sock, net, outside, losses>>

\* Signing out hides everything before the server is asked.
Logout(t) ==
  \/ /\ tab[t].at \in {"w.ready", "w.create", "w.refresh", "w.down", "w.byefail"}
     /\ ~tab[t].codes
     /\ Act(t, Moved(tab[t], "w.bye"))
  \/ /\ tab[t].at \in Hydrated \cup {"lost", "down"}
     /\ Act(t, Moved(tab[t], "r.bye"))

DeleteRoom(t) ==
  /\ tab[t].at = "ready" /\ tab[t].who = "teacher"
  /\ Act(t, Moved(tab[t], "r.delete"))

UserActs(t) ==
  \/ \E s \in Seats : SubmitStudent(t, s)
  \/ SubmitTeacher(t) \/ OpenLink(t) \/ Retry(t)
  \/ \E mode \in {"student", "teacher"} : Visit(t, mode)
  \/ CreateClassroom(t) \/ ConfirmSaved(t) \/ Logout(t) \/ DeleteRoom(t)

SocketStep(t) == AdmitSocket(t) \/ ConnectSocket(t) \/ Heartbeat(t) \/ OnClose(t)

AccessNext ==
  \/ \E r \in net : Serve(r) \/ StoreCookie(r) \/ Receive(r) \/ ReceiveLate(r) \/ Lose(r)
  \/ \E t \in Tabs : SocketStep(t) \/ Reconnect(t) \/ UserActs(t)
  \/ \E s \in Seats : JoinElsewhere(s)
  \/ \E i \in DOMAIN sessions : Expire(i)
  \/ \E s \in {"open", "paused", "closed"} : ChangeStatus(s)
  \/ SweepRetention \/ FinishDeletion

AccessSpec == AccessInit /\ [][AccessNext]_accessVars

-----------------------------------------------------------------------------
(* Properties.                                                              *)

\* A seat never has two live sessions, whoever joins it from wherever, and the
\* deletion of a room leaves no student a live session, a join that was under
\* way when it began included (joinRoom revokes before it inserts, under the lock
\* requestDeletion closes the room under).
SeatsGuarded ==
  /\ \A i, j \in DOMAIN sessions :
       sessions[i].live /\ sessions[j].live /\ sessions[i].who = sessions[j].who
         => i = j \/ sessions[i].who = "teacher"
  /\ deletion # "none" => \A i \in DOMAIN sessions : sessions[i].live => sessions[i].who = "teacher"

\* Room data leaves the server only while nobody is deleting the room, and the
\* events only to a session that is still live, however long the request took.
NothingServedAfterDeletion ==
  [][\A r \in net' \ net : [r EXCEPT !.mine = TRUE] \notin net =>
       /\ r.reply \in {"room", "events", "history"} => deletion = "none"
       /\ r.reply \in {"events", "history"} => Live(r.tok)]_accessVars

\* A student who goes on to the room after typing a seat's code goes on as that
\* seat, even when another tab signed in meanwhile (joinStudent's identity check).
EntersAsSeat ==
  [][\A t \in Tabs : tab[t].at = "l.confirm" /\ tab'[t].at = "l.enter"
       => \E r \in net : r.tab = t /\ r.mine /\ r.reply = tab[t].who]_accessVars

\* The one-time codes are on the screen of a workspace whose teacher has not
\* signed out: a create that was under way when the teacher signed out never
\* brings them back (authorityGeneration).
CodesHidden == \A t \in Tabs : tab[t].codes => tab[t].at \in {"w.ready", "w.refresh"}

\* A page waits for something that is owed to it.  Only the recovery of a deletion
\* the server never heard of, and the panel of one that is not done, may go on asking.
PageWaits(t) ==
  /\ tab[t].at \in Waiting \ {"unknown"}
  /\ tab[t].at = "panel" => deletion = "done"

\* A page with a socket is still in a room that is being deleted.
PageLingers(t) == deletion # "none" /\ tab[t].at \in Hydrated /\ sock[t].st # "none"

\* Sessions, codes and room data stay with whom they belong to, late answers, other
\* tabs and a deletion under way included.
AccessGuarded ==
  /\ [](AccessTypeOK /\ SeatsGuarded /\ CodesHidden)
  /\ NothingServedAfterDeletion /\ EntersAsSeat
=============================================================================

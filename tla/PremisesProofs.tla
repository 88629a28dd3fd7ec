---------------------------- MODULE PremisesProofs ----------------------------
(***************************************************************************)
(* Proofs about who gets into a room, for any number of seats, tabs, moves  *)
(* and losses, and about the local pilot, for any number of tests, edits    *)
(* and crashes.                                                            *)
(***************************************************************************)
EXTENDS Access, Pilot, SequenceTheorems, FiniteSetTheorems, WellFoundedInduction, TLAPS

-----------------------------------------------------------------------------
(* Sign-in and access: the inductive invariant.                            *)

Session == [who : Seats \cup {"teacher"}, live : BOOLEAN]
Page == [at : Waiting \cup Resting, mode : {"student", "teacher"}, who : People, codes : BOOLEAN]
Socket == [st : {"none", "opening", "admitted", "open", "4401", "4410"}, tok : Tokens]

\* Requests that may still sign somebody in.
SignIns(requests) == {r \in requests : r.op \in {"join", "consume"} /\ r.reply = "none"}

\* Every session and every request that may become one was paid for by a move of
\* the user or of somebody elsewhere, but for the first.
SignInsCounted ==
  /\ IsFiniteSet(SignIns(net))
  /\ Len(sessions) + Cardinality(SignIns(net)) <= moves + outside + 1

\* A page that waits has one request of its own, any other has none.
Waits ==
  /\ \A t \in Tabs : tab[t].at \in Waiting => \E r \in net : r.tab = t /\ r.mine
  /\ \A r \in net : r.mine => tab[r.tab].at \in Waiting
  /\ \A r, q \in net : r.mine /\ q.mine /\ r.tab = q.tab => r = q

\* A request carries the token of a session that was there; a join names a seat.
RequestsKnown ==
  \A r \in net : r.tok <= Len(sessions) /\ (r.op = "join" => r.seat \in Seats)

\* The server's rows and the clocks have their types.
ServerTyped ==
  /\ sessions \in Seq(Session)
  /\ link \in {"sent", "spent"} /\ room \in {"open", "paused", "closed"}
  /\ deletion \in {"none", "active", "done"}
  /\ deletion # "none" => room = "closed"
  /\ moves \in 0..MaxMoves /\ outside \in 0..MaxOutside /\ losses \in 0..MaxLosses

\* The browser has its types; only a page that shows a room has a socket.
BrowserTyped ==
  /\ jar \in 0..Len(sessions)
  /\ tab \in [Tabs -> Page] /\ sock \in [Tabs -> Socket]
  /\ \A t \in Tabs : sock[t].st # "none" => tab[t].at \in Hydrated

NetKnown == net \subseteq Request /\ Waits /\ RequestsKnown /\ SignInsCounted

AInv == ServerTyped /\ SeatsGuarded /\ BrowserTyped /\ CodesHidden /\ NetKnown

-----------------------------------------------------------------------------
(* Facts about the parts.                                                  *)

\* Seats are not words of the protocol.
LEMMA SeatsAreNotWords ==
    ASSUME NEW s \in Seats PROVE s \notin Words /\ s # "teacher" /\ s # "nobody"
  BY AccessAssumption

\* The invariant gives the types and the number of sessions the model states.
LEMMA AccessTypes == AInv => AccessTypeOK
<1> SUFFICES ASSUME AInv PROVE AccessTypeOK
  OBVIOUS
<1>1. Len(sessions) <= MaxSessions
  <2>1. /\ Len(sessions) \in Nat /\ moves \in 0..MaxMoves /\ outside \in 0..MaxOutside
        /\ MaxMoves \in Nat /\ MaxOutside \in Nat
    BY AccessAssumption, LenProperties DEF AInv, ServerTyped
  <2>2. /\ Cardinality(SignIns(net)) \in Nat
        /\ Len(sessions) + Cardinality(SignIns(net)) <= moves + outside + 1
    BY FS_CardinalityType DEF AInv, NetKnown, SignInsCounted
  <2> QED
    BY <2>1, <2>2 DEF MaxSessions
<1>2. ASSUME NEW t \in Tabs
      PROVE  Cardinality({r \in net : r.tab = t /\ r.mine})
               = IF tab[t].at \in Waiting THEN 1 ELSE 0
  <2>1. CASE tab[t].at \in Waiting
    <3>1. PICK r \in net : r.tab = t /\ r.mine
      BY <2>1 DEF AInv, NetKnown, Waits
    <3>2. {q \in net : q.tab = t /\ q.mine} = {r}
      BY <3>1 DEF AInv, NetKnown, Waits
    <3> QED
      BY <2>1, <3>2, FS_Singleton
  <2>2. CASE tab[t].at \notin Waiting
    <3>1. {q \in net : q.tab = t /\ q.mine} = {}
      BY <2>2 DEF AInv, NetKnown, Waits
    <3> QED
      BY <2>2, <3>1, FS_EmptySet
  <2> QED
    BY <2>1, <2>2
<1> QED
  BY <1>1, <1>2 DEF AInv, ServerTyped, BrowserTyped, NetKnown, AccessTypeOK,
                          Session, Page, Socket

\* The pages that are made from a page p.
LEMMA PageMoved ==
    ASSUME NEW p \in Page, NEW at \in Waiting \cup Resting
    PROVE  /\ Moved(p, at) \in Page /\ Moved(p, at).at = at
           /\ Moved(p, at).who = p.who /\ Moved(p, at).codes = p.codes
  BY DEF Page, Moved

\* The page that shows the codes of a new room.
LEMMA PageCodes ==
    ASSUME NEW p \in Page, NEW q, q = [p EXCEPT !.at = "w.refresh", !.codes = TRUE]
    PROVE  q \in Page /\ q.at = "w.refresh"
<1> DEFINE z == [p EXCEPT !.at = "w.refresh"]
<1>1. z \in Page /\ z.at = "w.refresh"
  BY DEF Page, Waiting
<1>2. q = [z EXCEPT !.codes = TRUE]
  BY DEF Page
<1> HIDE DEF z
<1> QED
  BY <1>1, <1>2 DEF Page

\* The login page forgets the person and the codes.
LEMMA PageLogin ==
    ASSUME NEW p \in Page
    PROVE  /\ Login(p) \in Page /\ Login(p).at = "l.check" /\ Login(p).codes = FALSE
<1> DEFINE y == [p EXCEPT !.at = "l.check"]
           z == [y EXCEPT !.who = "nobody"]
           x == [z EXCEPT !.codes = FALSE]
<1>1. y \in Page /\ y.at = "l.check"
  BY DEF Page, Waiting
<1>2. Login(p) = x
  BY DEF Login, Page
<1> HIDE DEF y
<1>3. z \in Page /\ z.at = "l.check"
  BY <1>1 DEF Page, People
<1> HIDE DEF z
<1>4. x \in Page /\ x.at = "l.check" /\ x.codes = FALSE
  BY <1>3 DEF Page
<1> QED
  BY <1>2, <1>4

\* What a page may turn into: no answer sends a join or spends a link, the codes show in
\* the workspace only, and a student goes on as the seat that was typed in.
Becomes(p, q, reply) ==
  /\ q \in Page /\ q.at \notin {"l.join", "w.link"}
  /\ q.codes => q.at \in {"w.ready", "w.refresh"}
  /\ p.at = "l.confirm" /\ q.at = "l.enter" => reply = p.who

\* A page that is moved to another place.
LEMMA MovedBecomes ==
    ASSUME NEW p \in Page, NEW at \in Waiting \cup Resting, at \notin {"l.join", "w.link"}, NEW reply,
           p.codes => at \in {"w.ready", "w.refresh"},
           p.at = "l.confirm" /\ at = "l.enter" => reply = p.who
    PROVE  Becomes(p, Moved(p, at), reply)
  BY PageMoved DEF Becomes

\* A page that goes back to the login.
LEMMA LoginBecomes ==
    ASSUME NEW p \in Page, NEW reply PROVE Becomes(p, Login(p), reply)
<1>1. Login(p).at \notin {"l.join", "w.link"} /\ Login(p).at # "l.enter"
  BY PageLogin
<1> QED
  BY <1>1, PageLogin DEF Becomes

\* A room page that starts again in a mode.
LEMMA ModeBecomes ==
    ASSUME NEW p \in Page, ~p.codes, NEW mode \in {"student", "teacher"}, NEW reply,
           NEW q, q = [p EXCEPT !.at = "r.session", !.mode = mode]
    PROVE  Becomes(p, q, reply)
<1> DEFINE z == [p EXCEPT !.at = "r.session"]
<1>1. z \in Page /\ z.at = "r.session" /\ z.codes = p.codes /\ q = [z EXCEPT !.mode = mode]
  BY DEF Page, Waiting
<1> HIDE DEF z
<1>2. q \in Page /\ q.at = "r.session" /\ q.codes = p.codes
  BY <1>1 DEF Page
<1>3. ~q.codes
  BY <1>2
<1>4. q.at \notin {"l.join", "w.link"} /\ q.at # "l.enter"
  BY <1>2
<1> QED
  BY <1>2, <1>3, <1>4 DEF Becomes

\* A page that learns who it is for.
LEMMA WhoBecomes ==
    ASSUME NEW p \in Page, ~p.codes, NEW at \in {"l.anon", "r.status", "r.room"}, NEW who \in People,
           NEW reply, NEW q, q = [p EXCEPT !.at = at, !.who = who]
    PROVE  Becomes(p, q, reply)
<1> DEFINE z == [p EXCEPT !.at = at]
<1>1. z \in Page /\ z.at = at /\ z.codes = p.codes /\ q = [z EXCEPT !.who = who]
  BY DEF Page, Waiting, Resting
<1> HIDE DEF z
<1>2. q \in Page /\ q.at = at /\ q.codes = p.codes
  BY <1>1 DEF Page
<1>3. ~q.codes
  BY <1>2
<1>4. q.at \notin {"l.join", "w.link"} /\ q.at # "l.enter"
  BY <1>2
<1> QED
  BY <1>2, <1>3, <1>4 DEF Becomes

\* The session check of the login page.
LEMMA CheckedBecomes ==
    ASSUME NEW p \in Page, p.at = "l.check", ~p.codes, NEW reply
    PROVE  Becomes(p, Checked(p, reply), reply)
<1>1. {"w.session", "l.anon", "l.down"} \subseteq Waiting \cup Resting
  BY DEF Waiting, Resting
<1>2. \A at \in {"w.session", "l.anon", "l.down"} : Becomes(p, Moved(p, at), reply)
  BY <1>1, MovedBecomes
<1>3. Becomes(p, [p EXCEPT !.at = "r.session", !.mode = "student"], reply)
  BY ModeBecomes
<1> QED
  BY <1>2, <1>3 DEF Checked

\* Joining a seat.
LEMMA JoiningBecomes ==
    ASSUME NEW p \in Page, ~p.codes, NEW reply
    PROVE  Becomes(p, Joining(p, reply), reply)
<1>1. {"l.confirm", "l.enter"} \subseteq Waiting \cup Resting /\ "nobody" \in People
  BY DEF Waiting, People
<1>2. Becomes(p, Moved(p, "l.confirm"), reply)
  BY <1>1, MovedBecomes
<1>3. reply = p.who => Becomes(p, Moved(p, "l.enter"), reply)
  BY <1>1, MovedBecomes
<1>4. Becomes(p, [p EXCEPT !.at = "r.session", !.mode = "student"], reply)
  BY ModeBecomes
<1>5. Becomes(p, [p EXCEPT !.at = "l.anon", !.who = "nobody"], reply)
  BY <1>1, WhoBecomes
<1> QED
  BY <1>2, <1>3, <1>4, <1>5 DEF Joining

\* The teacher's workspace.
LEMMA WorkspaceBecomes ==
    ASSUME NEW p \in Page, p.codes => p.at = "w.refresh", p.at # "l.confirm", NEW reply
    PROVE  Becomes(p, Workspace(p, reply), reply)
<1> DEFINE places == {"w.bad", "w.session", "w.rooms", "w.student", "w.byefail", "w.down"}
<1>1. places \cup {"w.ready"} \subseteq Waiting \cup Resting
  BY DEF Waiting, Resting
<1>2. Becomes(p, Login(p), reply)
  BY LoginBecomes
<1>3. ~p.codes => \A at \in places : Becomes(p, Moved(p, at), reply)
  BY <1>1, MovedBecomes
<1>4. Becomes(p, Moved(p, "w.ready"), reply)
  BY <1>1, MovedBecomes
<1>5. Becomes(p, [p EXCEPT !.at = "w.refresh", !.codes = TRUE], reply)
  <2> DEFINE q == [p EXCEPT !.at = "w.refresh", !.codes = TRUE]
  <2>1. q \in Page /\ q.at = "w.refresh"
    BY PageCodes
  <2> HIDE DEF q
  <2>2. Becomes(p, q, reply)
    BY <2>1 DEF Becomes
  <2> QED
    BY <2>2 DEF q
<1>6. CASE p.at = "w.refresh"
  <2>1. Workspace(p, reply) \in {Login(p), Moved(p, "w.ready")}
    BY <1>6 DEF Workspace
  <2> QED
    BY <2>1, <1>2, <1>4
<1>7. CASE p.at # "w.refresh"
  <2>1. ~p.codes
    BY <1>7
  <2>2. /\ Becomes(p, Moved(p, "w.bad"), reply) /\ Becomes(p, Moved(p, "w.session"), reply)
        /\ Becomes(p, Moved(p, "w.rooms"), reply) /\ Becomes(p, Moved(p, "w.student"), reply)
        /\ Becomes(p, Moved(p, "w.byefail"), reply) /\ Becomes(p, Moved(p, "w.down"), reply)
    BY <2>1, <1>3
  <2> HIDE DEF places
  <2> QED
    BY <2>2, <1>2, <1>4, <1>5, <1>7 DEF Workspace
<1> QED
  BY <1>6, <1>7

\* The access check of the room page.
LEMMA OpeningBecomes ==
    ASSUME NEW p \in Page, ~p.codes, p.at # "l.confirm", NEW reply
    PROVE  Becomes(p, Opening(p, reply), reply)
<1> DEFINE places == {"forbidden", "panel", "r.room", "r.events", "r.late", "lost", "r.gone",
                      "ready", "down"}
<1>1. places \subseteq Waiting \cup Resting
  BY DEF Waiting, Resting
<1>2. \A at \in places : Becomes(p, Moved(p, at), reply)
  BY <1>1, MovedBecomes
<1>3. /\ Becomes(p, Moved(p, "forbidden"), reply) /\ Becomes(p, Moved(p, "panel"), reply)
      /\ Becomes(p, Moved(p, "r.room"), reply) /\ Becomes(p, Moved(p, "r.events"), reply)
      /\ Becomes(p, Moved(p, "r.late"), reply) /\ Becomes(p, Moved(p, "lost"), reply)
      /\ Becomes(p, Moved(p, "r.gone"), reply) /\ Becomes(p, Moved(p, "ready"), reply)
      /\ Becomes(p, Moved(p, "down"), reply)
  BY <1>2
<1>4. Becomes(p, Login(p), reply)
  BY LoginBecomes
<1>5. Becomes(p, [p EXCEPT !.at = "r.session", !.mode = "teacher"], reply)
  BY ModeBecomes
<1>6. reply = "teacher" => Becomes(p, [p EXCEPT !.at = "r.status", !.who = reply], reply)
  BY WhoBecomes DEF People
<1>7. reply \in Seats => Becomes(p, [p EXCEPT !.at = "r.room", !.who = reply], reply)
  BY WhoBecomes DEF People
<1> HIDE DEF places
<1> QED
  BY <1>3, <1>4, <1>5, <1>6, <1>7 DEF Opening

\* A deletion under way.
LEMMA DeletingBecomes ==
    ASSUME NEW p \in Page, ~p.codes, NEW reply,
           p.at \in {"r.delete", "r.recover", "unknown", "r.gone", "panel"}
    PROVE  Becomes(p, Deleting(p, reply), reply)
<1> DEFINE places == {"panel", "receipt", "r.recover", "unknown", "lost"}
<1>1. places \subseteq Waiting \cup Resting
  BY DEF Waiting, Resting
<1>2. \A at \in places : Becomes(p, Moved(p, at), reply)
  BY <1>1, MovedBecomes
<1>3. /\ Becomes(p, Moved(p, "panel"), reply) /\ Becomes(p, Moved(p, "receipt"), reply)
      /\ Becomes(p, Moved(p, "r.recover"), reply) /\ Becomes(p, Moved(p, "unknown"), reply)
      /\ Becomes(p, Moved(p, "lost"), reply)
  BY <1>2
<1>4. Becomes(p, Login(p), reply)
  BY LoginBecomes
<1>5. p.at = "panel" => Becomes(p, p, reply)
  BY DEF Becomes
<1> HIDE DEF places
<1> QED
  BY <1>3, <1>4, <1>5 DEF Deleting

\* Leaving the room.
LEMMA LeavingBecomes ==
    ASSUME NEW p \in Page, ~p.codes, p.at # "l.confirm", NEW reply
    PROVE  Becomes(p, LeavingRoom(p, reply), reply)
<1>1. "lost" \in Waiting \cup Resting
  BY DEF Resting
<1>2. Becomes(p, Moved(p, "lost"), reply)
  BY <1>1, MovedBecomes
<1> QED
  BY <1>2, LoginBecomes DEF LeavingRoom

\* Whatever the answer is, a page that waits for it turns into a page.
LEMMA TurnedBecomes ==
    ASSUME NEW p \in Page, p.at \in Waiting, p.codes => p.at \in {"w.ready", "w.refresh"}, NEW reply
    PROVE  Becomes(p, Turned(p, reply), reply)
<1>1. p.codes => p.at = "w.refresh"
  BY DEF Waiting
<1>2. CASE p.at = "l.check"
  BY <1>1, <1>2, CheckedBecomes DEF Turned
<1>3. CASE p.at \in {"l.join", "l.confirm", "l.enter"}
  BY <1>1, <1>3, JoiningBecomes DEF Turned
<1>4. CASE p.at \in {"w.link", "w.session", "w.rooms", "w.create", "w.refresh", "w.bye"}
  BY <1>1, <1>4, WorkspaceBecomes DEF Turned
<1>5. CASE p.at \in {"r.session", "r.status", "r.room", "r.events", "r.late"}
  BY <1>1, <1>5, OpeningBecomes DEF Turned
<1>6. CASE p.at = "r.bye"
  BY <1>1, <1>6, LeavingBecomes DEF Turned
<1>7. CASE p.at \in {"r.delete", "r.recover", "unknown", "r.gone", "panel"}
  BY <1>1, <1>7, DeletingBecomes DEF Turned
<1> QED
  BY <1>2, <1>3, <1>4, <1>5, <1>6, <1>7 DEF Waiting

-----------------------------------------------------------------------------
(* The requests under way.                                                 *)

\* One request z takes the place of r: it was worked on, answered or lost.  A session
\* more was paid for by the request that made it.
LEMMA NetAnswered ==
    ASSUME AInv, NEW r \in net, NEW z \in Request,
           z.tab = r.tab, z.op = r.op, z.seat = r.seat, z.mine = r.mine, z.reply # "none",
           net' = (net \ {r}) \cup {z}, tab' = tab, moves' = moves, outside' = outside,
           Len(sessions') \in Nat, z.tok <= Len(sessions'),
           \/ Len(sessions') = Len(sessions)
           \/ Len(sessions') = Len(sessions) + 1 /\ r \in SignIns(net)
    PROVE  NetKnown'
<1>1. /\ net \subseteq Request /\ Waits /\ RequestsKnown /\ SignInsCounted
      /\ Len(sessions) \in Nat /\ moves \in Nat /\ outside \in Nat
  BY LenProperties, AccessAssumption DEF AInv, NetKnown, ServerTyped
<1>2. net' \subseteq Request
  BY <1>1
<1>3. Waits'
  BY <1>1 DEF Waits
<1>4. RequestsKnown'
  <2>1. \A q \in net : q.tok \in Nat
    BY <1>1, AccessAssumption DEF Request, Tokens, MaxSessions
  <2>2. \A q \in net : q.tok <= Len(sessions')
    BY <1>1, <2>1 DEF RequestsKnown
  <2> QED
    BY <1>1, <2>2 DEF RequestsKnown
<1>5. SignInsCounted'
  <2>1. SignIns(net') = SignIns(net) \ {r}
    BY DEF SignIns
  <2>2. /\ IsFiniteSet(SignIns(net)) /\ Cardinality(SignIns(net)) \in Nat
        /\ Len(sessions) + Cardinality(SignIns(net)) <= moves + outside + 1
    BY <1>1, FS_CardinalityType DEF SignInsCounted
  <2>3. /\ IsFiniteSet(SignIns(net'))
        /\ Cardinality(SignIns(net')) =
             IF r \in SignIns(net) THEN Cardinality(SignIns(net)) - 1 ELSE Cardinality(SignIns(net))
    <3> DEFINE before == SignIns(net)
               after == SignIns(net')
    <3>1. IsFiniteSet(before) /\ after = before \ {r}
      BY <2>1, <2>2
    <3> HIDE DEF before, after
    <3>2. IsFiniteSet(after) /\ Cardinality(after) = IF r \in before THEN Cardinality(before) - 1
                                                    ELSE Cardinality(before)
      BY <3>1, FS_RemoveElement
    <3> QED
      BY <3>2 DEF before, after
  <2> DEFINE c == Cardinality(SignIns(net))
             d == Cardinality(SignIns(net'))
  <2>4. Len(sessions') + d <= moves + outside + 1
    <3>1. c \in Nat /\ Len(sessions) + c <= moves + outside + 1
      BY <2>2
    <3>2. (d = c \/ d = c - 1) /\ (r \in SignIns(net) => d = c - 1)
      BY <2>3
    <3> HIDE DEF c, d
    <3>3. CASE Len(sessions') = Len(sessions)
      BY <1>1, <3>1, <3>2, <3>3
    <3>4. CASE Len(sessions') = Len(sessions) + 1 /\ d = c - 1
      BY <1>1, <3>1, <3>4
    <3> QED
      BY <3>2, <3>3, <3>4
  <2> QED
    BY <2>3, <2>4 DEF SignInsCounted
<1> QED
  BY <1>2, <1>3, <1>4, <1>5 DEF NetKnown

\* What stays under way when tab t turns to another page: nothing that is its own, and
\* everything that is another tab's.
Left(t, rest) ==
  /\ rest \subseteq Request
  /\ \A r \in rest : /\ r.mine => r.tab # t /\ r \in net
                     /\ r.tok <= Len(sessions) /\ (r.op = "join" => r.seat \in Seats)
  /\ \A r \in net : r.mine /\ r.tab # t => r \in rest
  /\ IsFiniteSet(SignIns(rest)) /\ Cardinality(SignIns(rest)) <= Cardinality(SignIns(net))

\* A tab that turns to page p asks for what the page waits for.
LEMMA NetShown ==
    ASSUME AInv, NEW t \in Tabs, NEW p \in Page, NEW rest, Left(t, rest), Show(t, p, rest),
           jar' = jar, sessions' = sessions, outside' = outside, moves' \in {moves, moves + 1},
           p.at = "l.join" => p.who \in Seats,
           p.at \in {"l.join", "w.link"} => moves' = moves + 1
    PROVE  NetKnown'
<1> DEFINE new == Send(t, Asks[p.at], IF p.at = "l.join" THEN p.who ELSE "nobody")
<1>1. /\ Waits /\ RequestsKnown /\ SignInsCounted /\ tab \in [Tabs -> Page]
      /\ Len(sessions) \in Nat /\ moves \in Nat /\ outside \in Nat /\ jar \in 0..Len(sessions)
      /\ Len(sessions) <= MaxSessions /\ MaxSessions \in Nat
  <2>1. AccessTypeOK
    BY AccessTypes
  <2> QED
    BY <2>1, LenProperties, AccessAssumption
       DEF AInv, NetKnown, ServerTyped, BrowserTyped, AccessTypeOK, MaxSessions
<1>2. /\ tab' = [tab EXCEPT ![t] = p]
      /\ net' = IF p.at \in Waiting THEN rest \cup {new} ELSE rest
  BY DEF Show
<1>3. tab'[t] = p /\ \A u \in Tabs : u # t => tab'[u] = tab[u]
  BY <1>1, <1>2
<1>4. ASSUME p.at \in Waiting
      PROVE  /\ new \in Request /\ new.tab = t /\ new.mine = TRUE /\ new.tok = jar
             /\ new.reply = "none" /\ new.op = Asks[p.at]
             /\ new.op = "join" => new.seat \in Seats
             /\ new.op \in {"join", "consume"} => p.at \in {"l.join", "w.link"}
  <2>1. Asks[p.at] \in Ops
    BY <1>4 DEF Asks, Waiting, Ops
  <2>2. /\ Asks[p.at] = "join" => p.at = "l.join"
        /\ Asks[p.at] = "consume" => p.at = "w.link"
    BY <1>4 DEF Asks, Waiting
  <2> DEFINE seat == IF p.at = "l.join" THEN p.who ELSE "nobody"
             op == Asks[p.at]
  <2>3. seat \in Seats \cup {"nobody"} /\ (p.at = "l.join" => seat \in Seats)
    OBVIOUS
  <2>4. jar \in Tokens
    BY <1>1 DEF Tokens
  <2>5. new = [tab |-> t, op |-> op, tok |-> jar, seat |-> seat, reply |-> "none", mine |-> TRUE]
    BY DEF Send
  <2>6. op \in Ops /\ (op = "join" => p.at = "l.join") /\ (op = "consume" => p.at = "w.link")
    BY <2>1, <2>2
  <2> HIDE DEF new, seat, op
  <2>7. /\ new.tab = t /\ new.mine = TRUE /\ new.tok = jar /\ new.reply = "none"
        /\ new.op = op /\ new.seat = seat
    BY <2>5
  <2>8. new \in Request
    BY <2>3, <2>4, <2>5, <2>6 DEF Request, Replies, Words
  <2> QED
    BY <2>3, <2>6, <2>7, <2>8 DEF op
<1> HIDE DEF new
<1>5. net' \subseteq Request
  BY <1>2, <1>4 DEF Left
<1>6. Waits'
  <2>1. ASSUME NEW u \in Tabs, tab'[u].at \in Waiting
        PROVE  \E r \in net' : r.tab = u /\ r.mine
    <3>1. CASE u = t
      BY <3>1, <2>1, <1>2, <1>3, <1>4
    <3>2. CASE u # t
      <4>1. PICK r \in net : r.tab = u /\ r.mine
        BY <3>2, <2>1, <1>1, <1>3 DEF Waits
      <4>2. r \in rest
        BY <4>1, <3>2 DEF Left
      <4> QED
        BY <4>1, <4>2, <1>2
    <3> QED
      BY <3>1, <3>2
  <2>2. ASSUME NEW r \in net', r.mine PROVE tab'[r.tab].at \in Waiting
    <3>1. CASE r \in rest
      <4>1. r.tab # t /\ r \in net /\ r.tab \in Tabs
        BY <3>1, <2>2 DEF Left, Request
      <4> QED
        BY <4>1, <2>2, <1>1, <1>3 DEF Waits
    <3>2. CASE p.at \in Waiting /\ r = new
      BY <3>2, <1>3, <1>4
    <3> QED
      BY <3>1, <3>2, <1>2
  <2>3. ASSUME NEW r \in net', NEW q \in net', r.mine, q.mine, r.tab = q.tab PROVE r = q
    <3>1. \A x \in rest : x.mine => x.tab # t /\ x \in net
      BY DEF Left
    <3> QED
      BY <3>1, <2>3, <1>1, <1>2, <1>4, ZenonT(30) DEF Waits
  <2> QED
    BY <2>1, <2>2, <2>3 DEF Waits
<1>7. RequestsKnown'
  <2>1. \A r \in rest : r.tok <= Len(sessions) /\ (r.op = "join" => r.seat \in Seats)
    BY DEF Left
  <2>2. jar <= Len(sessions)
    BY <1>1
  <2> QED
    BY <2>1, <2>2, <1>2, <1>4 DEF RequestsKnown
<1>8. SignInsCounted'
  <2>1. /\ IsFiniteSet(SignIns(net)) /\ Cardinality(SignIns(net)) \in Nat
        /\ Len(sessions) + Cardinality(SignIns(net)) <= moves + outside + 1
    BY <1>1, FS_CardinalityType DEF SignInsCounted
  <2>2. /\ IsFiniteSet(SignIns(rest)) /\ Cardinality(SignIns(rest)) \in Nat
        /\ Cardinality(SignIns(rest)) <= Cardinality(SignIns(net))
    BY FS_CardinalityType DEF Left
  <2>3. CASE p.at \in {"l.join", "w.link"}
    <3>1. p.at \in Waiting
      BY <2>3 DEF Waiting
    <3>2. SignIns(net') \in SUBSET (SignIns(rest) \cup {new})
      BY <1>2 DEF SignIns
    <3>3. /\ IsFiniteSet(SignIns(rest) \cup {new})
          /\ Cardinality(SignIns(rest) \cup {new}) <= Cardinality(SignIns(rest)) + 1
          /\ Cardinality(SignIns(rest) \cup {new}) \in Nat
      <4>1. /\ IsFiniteSet(SignIns(rest) \cup {new})
            /\ \/ Cardinality(SignIns(rest) \cup {new}) = Cardinality(SignIns(rest))
               \/ Cardinality(SignIns(rest) \cup {new}) = Cardinality(SignIns(rest)) + 1
        BY <2>2, FS_AddElement
      <4> QED
        BY <2>2, <4>1
    <3>4. /\ IsFiniteSet(SignIns(net')) /\ Cardinality(SignIns(net')) \in Nat
          /\ Cardinality(SignIns(net')) <= Cardinality(SignIns(rest) \cup {new})
      BY <3>2, <3>3, FS_Subset, FS_CardinalityType
    <3>5. moves' = moves + 1
      BY <2>3
    <3>6. Len(sessions') + Cardinality(SignIns(net')) <= moves' + outside' + 1
      BY <1>1, <2>1, <2>2, <3>3, <3>4, <3>5
    <3> QED
      BY <3>4, <3>6 DEF SignInsCounted
  <2>4. CASE p.at \notin {"l.join", "w.link"}
    <3>1. SignIns(net') = SignIns(rest)
      BY <2>4, <1>2, <1>4 DEF SignIns
    <3>2. moves' \in Nat /\ moves <= moves'
      BY <1>1
    <3>3. Len(sessions') + Cardinality(SignIns(net')) <= moves' + outside' + 1
      BY <1>1, <2>1, <2>2, <3>1, <3>2
    <3> QED
      BY <2>2, <3>1, <3>3 DEF SignInsCounted
  <2> QED
    BY <2>3, <2>4
<1> QED
  BY <1>5, <1>6, <1>7, <1>8 DEF NetKnown

\* The request that is answered was the only one of its tab.
LEMMA LeftAnswered ==
    ASSUME AInv, NEW r \in net, r.mine
    PROVE  Left(r.tab, net \ {r})
<1>1. /\ net \subseteq Request /\ Waits /\ RequestsKnown /\ IsFiniteSet(SignIns(net))
  BY DEF AInv, NetKnown, SignInsCounted
<1>2. SignIns(net \ {r}) \in SUBSET SignIns(net)
  BY DEF SignIns
<1>3. /\ IsFiniteSet(SignIns(net \ {r}))
      /\ Cardinality(SignIns(net \ {r})) <= Cardinality(SignIns(net))
  BY <1>1, <1>2, FS_Subset
<1>4. \A q \in net \ {r} : q.mine => q.tab # r.tab
  BY <1>1 DEF Waits
<1> QED
  BY <1>1, <1>3, <1>4 DEF Left, RequestsKnown

\* A request that goes on without its page.
LEMMA Disowned ==
    ASSUME NEW r \in Request, NEW z, z = [r EXCEPT !.mine = FALSE]
    PROVE  /\ z \in Request /\ ~z.mine /\ z.tab = r.tab /\ z.op = r.op /\ z.tok = r.tok
           /\ z.seat = r.seat /\ z.reply = r.reply
  BY DEF Request

\* What the tab asked for before goes on without it or is dropped.
LEMMA LeftSuperseded ==
    ASSUME AInv, NEW t \in Tabs
    PROVE  Left(t, Superseded(t))
<1>1. /\ net \subseteq Request /\ RequestsKnown /\ IsFiniteSet(SignIns(net))
  BY DEF AInv, NetKnown, SignInsCounted
<1> DEFINE Dropped(r) == [r EXCEPT !.mine = FALSE]
           old == {q \in net : q.tab = t /\ q.op \in Changing}
           rest == {r \in net : r.tab # t} \cup {Dropped(r) : r \in old}
<1>2. Superseded(t) = rest
  BY DEF Superseded
<1>3. \A r \in net : /\ Dropped(r) \in Request /\ ~Dropped(r).mine /\ Dropped(r).tab = r.tab
                     /\ Dropped(r).op = r.op /\ Dropped(r).tok = r.tok
                     /\ Dropped(r).seat = r.seat /\ Dropped(r).reply = r.reply
  BY <1>1, Disowned
<1> HIDE DEF Dropped
<1>4. rest \subseteq Request
  BY <1>1, <1>3
<1>5. \A r \in rest : /\ r.mine => r.tab # t /\ r \in net
                      /\ r.tok <= Len(sessions) /\ (r.op = "join" => r.seat \in Seats)
  BY <1>1, <1>3 DEF RequestsKnown
<1>6. \A r \in net : r.mine /\ r.tab # t => r \in rest
  OBVIOUS
<1>7. /\ IsFiniteSet(SignIns(rest)) /\ Cardinality(SignIns(rest)) <= Cardinality(SignIns(net))
  <2> DEFINE f == [r \in SignIns(net) |-> IF r.tab = t THEN Dropped(r) ELSE r]
  <2>1. ASSUME NEW r \in SignIns(net) PROVE f[r] \in SignIns(rest)
    BY <1>3 DEF SignIns, Changing
  <2>2. ASSUME NEW z \in SignIns(rest) PROVE \E r \in SignIns(net) : f[r] = z
    <3>1. CASE z \in net /\ z.tab # t
      BY <3>1, <2>2 DEF SignIns
    <3>2. CASE z \in {Dropped(r) : r \in old}
      <4>1. PICK r \in old : z = Dropped(r)
        BY <3>2
      <4>2. r \in SignIns(net) /\ r.tab = t
        BY <4>1, <2>2, <1>3 DEF SignIns
      <4> QED
        BY <4>1, <4>2
    <3> QED
      BY <3>1, <3>2, <2>2 DEF SignIns
  <2>3. f \in [SignIns(net) -> SignIns(rest)]
    BY <2>1
  <2> HIDE DEF f, rest
  <2>4. f \in Surjection(SignIns(net), SignIns(rest))
    BY <2>2, <2>3 DEF Surjection
  <2> QED
    BY <2>4, <1>1, FS_Surjection
<1> HIDE DEF rest
<1> QED
  BY <1>2, <1>4, <1>5, <1>6, <1>7 DEF Left

-----------------------------------------------------------------------------
(* The sessions.                                                           *)

\* A row whose session may have ended.
LEMMA RowEnded ==
    ASSUME NEW row \in Session, NEW b \in BOOLEAN, NEW e, e = [row EXCEPT !.live = b]
    PROVE  e \in Session /\ e.who = row.who /\ e.live = b
  BY DEF Session

\* The rows tt are the rows ss, of which some have ended.
Thinned(tt, ss) ==
  /\ tt \in Seq(Session) /\ Len(tt) = Len(ss)
  /\ \A i \in DOMAIN ss : tt[i].who = ss[i].who /\ (tt[i].live => ss[i].live)

\* Revoking some people's sessions.
LEMMA RevokedThins ==
    ASSUME NEW ss \in Seq(Session), NEW whose
    PROVE  /\ Thinned(Revoked(ss, whose), ss)
           /\ \A i \in DOMAIN ss : Revoked(ss, whose)[i].live => ss[i].who \notin whose
<1> DEFINE tt == Revoked(ss, whose)
<1>1. DOMAIN ss = 1..Len(ss) /\ Len(ss) \in Nat
  BY LenProperties
<1>2. ASSUME NEW i \in DOMAIN ss
      PROVE  /\ tt[i] \in Session /\ tt[i].who = ss[i].who
             /\ (tt[i].live => ss[i].live /\ ss[i].who \notin whose)
  <2>1. ss[i] \in Session
    BY <1>2, <1>1, ElementOfSeq
  <2>2. PICK b \in BOOLEAN : b = (ss[i].live /\ ss[i].who \notin whose)
    OBVIOUS
  <2>3. tt[i] = [ss[i] EXCEPT !.live = b]
    BY <1>2, <2>2 DEF Revoked
  <2> HIDE DEF tt
  <2>4. tt[i] \in Session /\ tt[i].who = ss[i].who /\ tt[i].live = b
    BY <2>1, <2>3, RowEnded
  <2> QED
    BY <2>2, <2>4
<1>3. DOMAIN tt = DOMAIN ss /\ tt = [i \in 1..Len(ss) |-> tt[i]]
  BY <1>1 DEF Revoked
<1> HIDE DEF tt
<1>4. tt \in Seq(Session) /\ Len(tt) = Len(ss)
  <2>1. tt \in [1..Len(ss) -> Session]
    BY <1>1, <1>2, <1>3
  <2>2. tt \in Seq(Session)
    BY <2>1, <1>1, SeqDef
  <2> QED
    BY <2>1, <2>2, <1>1, LenProperties
<1> QED
  BY <1>2, <1>4 DEF Thinned, tt

\* The end of one session, whichever way.
LEMMA EndedThins ==
    ASSUME NEW ss \in Seq(Session), NEW tt, NEW f \in [DOMAIN ss -> BOOLEAN],
           tt = [i \in DOMAIN ss |-> [ss[i] EXCEPT !.live = f[i]]],
           \A i \in DOMAIN ss : f[i] => ss[i].live
    PROVE  Thinned(tt, ss)
<1>1. DOMAIN ss = 1..Len(ss) /\ Len(ss) \in Nat
  BY LenProperties
<1>2. ASSUME NEW i \in DOMAIN ss
      PROVE  /\ tt[i] \in Session /\ tt[i].who = ss[i].who /\ (tt[i].live => ss[i].live)
  <2>1. ss[i] \in Session
    BY <1>2, <1>1, ElementOfSeq
  <2>2. tt[i] = [ss[i] EXCEPT !.live = f[i]] /\ f[i] \in BOOLEAN /\ (f[i] => ss[i].live)
    BY <1>2
  <2>3. tt[i] \in Session /\ tt[i].who = ss[i].who /\ tt[i].live = f[i]
    BY <2>1, <2>2, RowEnded
  <2> QED
    BY <2>2, <2>3
<1>3. tt \in [1..Len(ss) -> Session]
  BY <1>1, <1>2
<1>4. tt \in Seq(Session)
  BY <1>3, <1>1, SeqDef
<1>5. Len(tt) = Len(ss)
  BY <1>3, <1>4, <1>1, LenProperties
<1> QED
  BY <1>2, <1>4, <1>5 DEF Thinned

\* A new row after rows of which some have ended.
LEMMA RowAdded ==
    ASSUME NEW ss \in Seq(Session), NEW tt, Thinned(tt, ss), NEW row \in Session,
           NEW new, new = Append(tt, row)
    PROVE  /\ new \in Seq(Session) /\ Len(new) = Len(ss) + 1 /\ DOMAIN new = 1..(Len(ss) + 1)
           /\ new[Len(ss) + 1] = row /\ \A i \in DOMAIN ss : new[i] = tt[i]
           /\ DOMAIN ss = 1..Len(ss) /\ Len(ss) \in Nat
<1>1. DOMAIN ss = 1..Len(ss) /\ Len(ss) \in Nat
  BY LenProperties
<1>2. tt \in Seq(Session) /\ Len(tt) = Len(ss)
  BY DEF Thinned
<1> QED
  BY <1>1, <1>2, AppendProperties, LenProperties

\* No seat gets a second live session when sessions end.
LEMMA ThinnedGuards ==
    ASSUME sessions \in Seq(Session), SeatsGuarded, Thinned(sessions', sessions),
           \/ deletion' = deletion
           \/ \A i \in DOMAIN sessions : sessions'[i].live => sessions[i].who \notin Seats
    PROVE  SeatsGuarded' /\ sessions' \in Seq(Session) /\ Len(sessions') = Len(sessions)
<1>1. /\ sessions' \in Seq(Session) /\ Len(sessions') = Len(sessions)
      /\ \A i \in DOMAIN sessions : /\ sessions'[i].who = sessions[i].who
                                    /\ sessions'[i].live => sessions[i].live
  BY DEF Thinned
<1>2. DOMAIN sessions' = DOMAIN sessions
  BY <1>1, LenProperties
<1>3. \A i \in DOMAIN sessions : sessions[i].who \in Seats \/ sessions[i].who = "teacher"
  <2>1. \A i \in 1..Len(sessions) : sessions[i] \in Session
    BY ElementOfSeq
  <2>2. DOMAIN sessions = 1..Len(sessions)
    BY LenProperties
  <2> QED
    BY <2>1, <2>2 DEF Session
<1> QED
  BY <1>1, <1>2, <1>3 DEF SeatsGuarded

\* A student who signs in replaces the session of the seat.
LEMMA SeatedGuards ==
    ASSUME sessions \in Seq(Session), SeatsGuarded, NEW s \in Seats, deletion' = "none",
           sessions' = Seated(sessions, s)
    PROVE  SeatsGuarded' /\ sessions' \in Seq(Session) /\ Len(sessions') = Len(sessions) + 1
<1> DEFINE tt == Revoked(sessions, {s})
           row == [who |-> s, live |-> TRUE]
           n == Len(sessions)
<1>0. Thinned(tt, sessions)
  BY RevokedThins
<1>1. /\ Thinned(tt, sessions)
      /\ \A i \in DOMAIN sessions : tt[i].live => sessions[i].who # s
  BY RevokedThins
<1>2. row \in Session /\ row.who = s /\ sessions' = Append(tt, row)
  BY DEF Session, Seated
<1> HIDE DEF tt, row
<1>3. /\ sessions' \in Seq(Session) /\ Len(sessions') = n + 1
      /\ DOMAIN sessions' = 1..(n + 1) /\ sessions'[n + 1] = row
      /\ \A i \in DOMAIN sessions : sessions'[i] = tt[i]
      /\ DOMAIN sessions = 1..n /\ n \in Nat
  <2> DEFINE new == Append(tt, row)
  <2>1. row \in Session /\ sessions' = new
    BY <1>2
  <2>2. /\ new \in Seq(Session) /\ Len(new) = n + 1 /\ DOMAIN new = 1..(n + 1)
        /\ new[n + 1] = row /\ \A i \in DOMAIN sessions : new[i] = tt[i]
        /\ DOMAIN sessions = 1..n /\ n \in Nat
    BY <1>0, <2>1, RowAdded
  <2> HIDE DEF new
  <2> QED
    BY <2>1, <2>2
<1>4. \A i \in DOMAIN sessions : /\ tt[i].who = sessions[i].who
                                 /\ tt[i].live => sessions[i].live /\ sessions[i].who # s
  <2>1. \A i \in DOMAIN sessions : tt[i].who = sessions[i].who /\ (tt[i].live => sessions[i].live)
    BY <1>1 DEF Thinned
  <2> QED
    BY <1>1, <2>1
<1> HIDE DEF n
<1>5. ASSUME NEW i \in DOMAIN sessions', NEW j \in DOMAIN sessions',
             sessions'[i].live, sessions'[j].live, sessions'[i].who = sessions'[j].who
      PROVE  i = j \/ sessions'[i].who = "teacher"
  <2>1. /\ i \in DOMAIN sessions \/ i = n + 1
        /\ j \in DOMAIN sessions \/ j = n + 1
    BY <1>3
  <2>2. CASE i \in DOMAIN sessions /\ j \in DOMAIN sessions
    BY <2>2, <1>3, <1>4, <1>5 DEF SeatsGuarded
  <2>3. CASE i = n + 1 /\ j \in DOMAIN sessions
    BY <2>3, <1>2, <1>3, <1>4, <1>5
  <2>4. CASE i \in DOMAIN sessions /\ j = n + 1
    BY <2>4, <1>2, <1>3, <1>4, <1>5
  <2> QED
    BY <2>1, <2>2, <2>3, <2>4
<1> QED
  BY <1>3, <1>5 DEF SeatsGuarded, n

\* A teacher who signs in ends nobody's session.
LEMMA TeacherGuards ==
    ASSUME sessions \in Seq(Session), SeatsGuarded, deletion' = deletion,
           sessions' = Append(sessions, [who |-> "teacher", live |-> TRUE])
    PROVE  SeatsGuarded' /\ sessions' \in Seq(Session) /\ Len(sessions') = Len(sessions) + 1
<1> DEFINE row == [who |-> "teacher", live |-> TRUE]
           n == Len(sessions)
<1>1. Thinned(sessions, sessions)
  BY DEF Thinned
<1>2. row \in Session /\ row.who = "teacher" /\ sessions' = Append(sessions, row)
  BY DEF Session
<1> HIDE DEF row
<1>3. /\ sessions' \in Seq(Session) /\ Len(sessions') = n + 1
      /\ DOMAIN sessions' = 1..(n + 1) /\ sessions'[n + 1] = row
      /\ \A i \in DOMAIN sessions : sessions'[i] = sessions[i]
      /\ DOMAIN sessions = 1..n /\ n \in Nat
  BY <1>1, <1>2, RowAdded
<1> HIDE DEF n
<1>4. \A i \in DOMAIN sessions' : i \in DOMAIN sessions \/ sessions'[i].who = "teacher"
  BY <1>2, <1>3
<1>5. ASSUME NEW i \in DOMAIN sessions', NEW j \in DOMAIN sessions',
             sessions'[i].live, sessions'[j].live, sessions'[i].who = sessions'[j].who
      PROVE  i = j \/ sessions'[i].who = "teacher"
  BY <1>3, <1>4, <1>5 DEF SeatsGuarded
<1>6. ASSUME deletion' # "none", NEW i \in DOMAIN sessions', sessions'[i].live
      PROVE  sessions'[i].who = "teacher"
  BY <1>3, <1>4, <1>6 DEF SeatsGuarded
<1> QED
  BY <1>3, <1>5, <1>6 DEF SeatsGuarded, n

-----------------------------------------------------------------------------
(* The server's steps.                                                     *)

\* What one step does for NothingServedAfterDeletion and EntersAsSeat.
Disclosed ==
  \A r \in net' \ net : [r EXCEPT !.mine = TRUE] \notin net =>
    /\ r.reply \in {"room", "events", "history"} => deletion = "none"
    /\ r.reply \in {"events", "history"} => Live(r.tok)

Entered ==
  \A t \in Tabs : tab[t].at = "l.confirm" /\ tab'[t].at = "l.enter"
    => \E r \in net : r.tab = t /\ r.mine /\ r.reply = tab[t].who

\* What every step is shown to do.
Guarded == AInv' /\ Disclosed /\ Entered

\* A request that was answered.
LEMMA Answered ==
    ASSUME NEW r \in Request, NEW reply \in Replies, NEW z, z = [r EXCEPT !.reply = reply]
    PROVE  /\ z \in Request /\ z.tab = r.tab /\ z.op = r.op /\ z.seat = r.seat
           /\ z.mine = r.mine /\ z.tok = r.tok /\ z.reply = reply
  BY DEF Request

\* A step of the server that answers r and changes no page.
LEMMA AnswerGuarded ==
    ASSUME AInv, NEW r \in net, NEW reply \in Replies, reply # "none", Answer(r, reply),
           UNCHANGED <<tab, moves, outside>>, sessions' \in Seq(Session),
           Len(sessions') = Len(sessions),
           reply \in {"room", "events", "history"} => deletion = "none",
           reply \in {"events", "history"} => Live(r.tok)
    PROVE  NetKnown' /\ Disclosed /\ Entered
<1> DEFINE z == [r EXCEPT !.reply = reply]
<1>1. r \in Request /\ r.tok <= Len(sessions) /\ Len(sessions') \in Nat
  BY LenProperties DEF AInv, NetKnown, RequestsKnown
<1>2. /\ z \in Request /\ z.tab = r.tab /\ z.op = r.op /\ z.seat = r.seat
      /\ z.mine = r.mine /\ z.tok = r.tok /\ z.reply = reply
  BY <1>1, Answered
<1>3. net' = (net \ {r}) \cup {z}
  BY DEF Answer
<1> HIDE DEF z
<1>4. NetKnown'
  BY <1>1, <1>2, <1>3, NetAnswered
<1>5. Disclosed
  <2>1. \A q \in net' \ net : q = z
    BY <1>3
  <2> QED
    BY <2>1, <1>2 DEF Disclosed
<1>6. Entered
  BY DEF Entered
<1> QED
  BY <1>4, <1>5, <1>6

\* Everything but the requests.
RestKnown == ServerTyped /\ SeatsGuarded /\ BrowserTyped /\ CodesHidden

\* A step that leaves the server and the pages alone.
LEMMA RestKept ==
    ASSUME AInv, UNCHANGED <<server, jar, tab, sock, moves, outside>>, losses' \in 0..MaxLosses
    PROVE  RestKnown'
  BY DEF AInv, RestKnown, ServerTyped, SeatsGuarded, BrowserTyped, CodesHidden, server

\* A step of the server that only answers.
LEMMA KeptGuarded ==
    ASSUME AInv, NEW r \in net, NEW reply \in Replies, reply # "none", Answer(r, reply), ServerKept,
           reply \in {"room", "events", "history"} => deletion = "none",
           reply \in {"events", "history"} => Live(r.tok)
    PROVE  Guarded
<1>1. /\ UNCHANGED <<tab, moves, outside>> /\ UNCHANGED <<server, jar, tab, sock, moves, outside>>
      /\ sessions' = sessions /\ sessions' \in Seq(Session) /\ losses' \in 0..MaxLosses
  BY DEF ServerKept, AInv, ServerTyped, bounds, server
<1>2. NetKnown' /\ Disclosed /\ Entered
  BY <1>1, AnswerGuarded
<1>3. RestKnown'
  BY <1>1, RestKept
<1> QED
  BY <1>2, <1>3 DEF Guarded, AInv, RestKnown

\* The person a token stands for.
LEMMA WhoIsKnown ==
    ASSUME AInv, NEW r \in net
    PROVE  Who(r.tok) \in People /\ (Live(r.tok) => r.tok \in DOMAIN sessions)
<1>1. r \in Request /\ r.tok <= Len(sessions) /\ sessions \in Seq(Session)
  BY DEF AInv, NetKnown, RequestsKnown, ServerTyped
<1>2. r.tok \in Nat /\ Len(sessions) \in Nat /\ DOMAIN sessions = 1..Len(sessions)
  BY <1>1, LenProperties, AccessAssumption DEF Request, Tokens, MaxSessions
<1>3. Live(r.tok) => r.tok \in 1..Len(sessions)
  BY <1>1, <1>2 DEF Live
<1>4. Live(r.tok) => sessions[r.tok] \in Session
  BY <1>1, <1>3, ElementOfSeq
<1> QED
  BY <1>2, <1>3, <1>4 DEF Who, People, Session

\* Answers that give nothing of the room away.
Plain == Words \ {"none", "room", "events", "history"}

\* A step that only answers, and gives nothing away.
LEMMA PlainGuarded ==
    ASSUME AInv, NEW r \in net, NEW reply \in Plain \cup People, Answer(r, reply), ServerKept
    PROVE  Guarded
<1>1. /\ reply \in Replies /\ reply # "none" /\ reply \notin {"room", "events", "history"}
  BY SeatsAreNotWords DEF Plain, People, Replies, Words
<1> QED
  BY <1>1, KeptGuarded

\* GET /v1/auth/session.
LEMMA ServeSessionGuarded ==
    ASSUME AInv, NEW r \in net, ServeSession(r) PROVE Guarded
<1> DEFINE reply == Who(r.tok)
<1>1. reply \in Plain \cup People
  BY WhoIsKnown
<1>2. Answer(r, reply) /\ ServerKept
  BY DEF ServeSession
<1> HIDE DEF reply
<1> QED
  BY <1>1, <1>2, PlainGuarded

\* The session check before the room or its events are read.
LEMMA AdmitReadGuarded ==
    ASSUME AInv, NEW r \in net, AdmitRead(r) PROVE Guarded
<1> DEFINE reply == IF Who(r.tok) = "nobody" THEN "nobody" ELSE "admitted"
<1>1. reply \in Plain \cup People
  BY DEF Plain, People, Words
<1>2. Answer(r, reply) /\ ServerKept
  BY DEF AdmitRead
<1> HIDE DEF reply
<1> QED
  BY <1>1, <1>2, PlainGuarded

\* The room is read under its lock.
LEMMA ReadRoomGuarded ==
    ASSUME AInv, NEW r \in net, ReadRoom(r) PROVE Guarded
<1> DEFINE reply == CASE deletion = "none"   -> "room"
                      [] deletion = "active" -> "deleting"
                      [] deletion = "done"   -> "missing"
<1>1. deletion \in {"none", "active", "done"}
  BY DEF AInv, ServerTyped
<1>2. /\ reply \in {"room", "deleting", "missing"} /\ (reply = "room" => deletion = "none")
  BY <1>1
<1>3. Answer(r, reply) /\ ServerKept
  BY DEF ReadRoom
<1> HIDE DEF reply
<1>4. reply \in Replies /\ reply # "none" /\ reply \notin {"events", "history"}
  BY <1>2 DEF Replies, Words
<1> QED
  BY <1>2, <1>3, <1>4, KeptGuarded

\* The events are handed out to a session that is still authorised.
LEMMA ReadEventsGuarded ==
    ASSUME AInv, NEW r \in net, ReadEvents(r) PROVE Guarded
<1> DEFINE reply == CASE ~Disclosable(r.tok)  -> "missing"
                      [] Disclosable(r.tok) /\ room = "closed" -> "history"
                      [] OTHER                -> "events"
<1>1. Disclosable(r.tok) => deletion = "none" /\ Live(r.tok)
  BY DEF Disclosable, Reauthorized
<1>2. /\ reply \in {"missing", "history", "events"} /\ (reply # "missing" => Disclosable(r.tok))
  <2>1. CASE Disclosable(r.tok)
    BY <2>1
  <2>2. CASE ~Disclosable(r.tok)
    BY <2>2
  <2> QED
    BY <2>1, <2>2
<1>3. Answer(r, reply) /\ ServerKept
  BY DEF ReadEvents
<1> HIDE DEF reply
<1>4. reply \in Replies /\ reply # "none"
  BY <1>2 DEF Replies, Words
<1> QED
  BY <1>1, <1>2, <1>3, <1>4, KeptGuarded

\* The teacher's rooms.
LEMMA ServeRoomsGuarded ==
    ASSUME AInv, NEW r \in net, ServeRooms(r) PROVE Guarded
<1> DEFINE reply == CASE Who(r.tok) = "teacher" -> "rooms"
                      [] Who(r.tok) = "nobody"  -> "nobody"
                      [] OTHER                  -> "missing"
<1>1. reply \in Plain \cup People
  BY DEF Plain, People, Words
<1>2. Answer(r, reply) /\ ServerKept
  BY DEF ServeRooms
<1> HIDE DEF reply
<1> QED
  BY <1>1, <1>2, PlainGuarded

\* A new room with its codes.
LEMMA CreateRoomGuarded ==
    ASSUME AInv, NEW r \in net, CreateRoom(r) PROVE Guarded
<1> DEFINE reply == CASE Who(r.tok) = "teacher" -> "created"
                      [] Who(r.tok) = "nobody"  -> "nobody"
                      [] OTHER                  -> "refused"
<1>1. reply \in Plain \cup People
  BY DEF Plain, People, Words
<1>2. Answer(r, reply) /\ ServerKept
  BY DEF CreateRoom
<1> HIDE DEF reply
<1> QED
  BY <1>1, <1>2, PlainGuarded

\* The state of a deletion.
LEMMA DeletionStatusGuarded ==
    ASSUME AInv, NEW r \in net, DeletionStatus(r) PROVE Guarded
<1> DEFINE reply == CASE Who(r.tok) = "nobody"                       -> "nobody"
                      [] Who(r.tok) # "teacher" \/ deletion = "none" -> "missing"
                      [] deletion = "done" /\ r.op = "poll"          -> "completed"
                      [] OTHER                                       -> "deletion"
<1>1. reply \in Plain \cup People
  BY DEF Plain, People, Words
<1>2. Answer(r, reply) /\ ServerKept
  BY DEF DeletionStatus
<1> HIDE DEF reply
<1> QED
  BY <1>1, <1>2, PlainGuarded

\* A request that may sign somebody in still has room for the session.
LEMMA RoomToSignIn ==
    ASSUME AInv, NEW r \in SignIns(net) PROVE Len(sessions) + 1 \in Tokens
<1> DEFINE c == Cardinality(SignIns(net))
<1>1. IsFiniteSet(SignIns(net)) /\ c \in Nat /\ Len(sessions) + c <= moves + outside + 1
  BY FS_CardinalityType DEF AInv, NetKnown, SignInsCounted
<1>2. c # 0
  BY <1>1, FS_EmptySet
<1>3. /\ Len(sessions) \in Nat /\ moves \in 0..MaxMoves /\ outside \in 0..MaxOutside
      /\ MaxMoves \in Nat /\ MaxOutside \in Nat
  BY LenProperties, AccessAssumption DEF AInv, ServerTyped
<1> HIDE DEF c
<1> QED
  BY <1>1, <1>2, <1>3 DEF Tokens, MaxSessions

\* A request signs somebody in.
LEMMA SignInGuarded ==
    ASSUME AInv, NEW r \in net, r \in SignIns(net), NEW reply \in {"seat", "welcome"},
           SignIn(r, reply), UNCHANGED <<tab, moves, outside>>,
           Len(sessions') = Len(sessions) + 1
    PROVE  NetKnown' /\ Disclosed /\ Entered
<1> DEFINE tok == Len(sessions) + 1
           z == [r EXCEPT !.reply = reply, !.tok = tok]
<1>1. r \in Request /\ tok \in Tokens /\ reply \in Replies /\ Len(sessions) \in Nat
  BY RoomToSignIn, LenProperties DEF AInv, NetKnown, ServerTyped, Replies, Words
<1>2. net' = (net \ {r}) \cup {z} /\ Len(sessions') = tok
  BY DEF SignIn
<1>3. tok \in Nat /\ tok <= Len(sessions')
  BY <1>1, <1>2
<1> HIDE DEF tok
<1>4. /\ z \in Request /\ z.tab = r.tab /\ z.op = r.op /\ z.seat = r.seat
      /\ z.mine = r.mine /\ z.tok = tok /\ z.reply = reply
  <2> DEFINE y == [r EXCEPT !.reply = reply]
  <2>1. r \in Request /\ tok \in Tokens /\ reply \in Replies
    BY <1>1
  <2>2. /\ y \in Request /\ y.tab = r.tab /\ y.op = r.op /\ y.seat = r.seat
        /\ y.mine = r.mine /\ y.reply = reply
    BY <2>1, Answered
  <2>3. z = [y EXCEPT !.tok = tok]
    BY <2>1 DEF Request
  <2> HIDE DEF y, z
  <2> QED
    BY <2>1, <2>2, <2>3 DEF Request
<1> HIDE DEF z
<1>5. NetKnown'
  BY <1>2, <1>3, <1>4, NetAnswered
<1>6. Disclosed
  <2>1. \A q \in net' \ net : q = z
    BY <1>2
  <2> QED
    BY <2>1, <1>4 DEF Disclosed
<1>7. Entered
  BY DEF Entered
<1> QED
  BY <1>5, <1>6, <1>7

\* A step that changes the server and no page.
LEMMA BrowserKept ==
    ASSUME AInv, UNCHANGED <<jar, tab, sock>>, sessions' \in Seq(Session),
           Len(sessions') = Len(sessions) \/ Len(sessions') = Len(sessions) + 1
    PROVE  BrowserTyped' /\ CodesHidden'
<1>1. jar' \in 0..Len(sessions')
  BY LenProperties DEF AInv, ServerTyped, BrowserTyped
<1> QED
  BY <1>1 DEF AInv, BrowserTyped, CodesHidden

\* A student joins a seat.
LEMMA JoinRoomGuarded ==
    ASSUME AInv, NEW r \in net, JoinRoom(r) PROVE Guarded
<1>1. /\ sessions \in Seq(Session) /\ SeatsGuarded /\ ServerTyped
      /\ UNCHANGED <<jar, tab, sock>> /\ UNCHANGED <<tab, moves, outside>>
      /\ UNCHANGED <<link, room, deletion, losses>> /\ Fresh(r, "join")
  BY DEF AInv, ServerTyped, JoinRoom, bounds
<1>2. CASE room = "open" /\ SignIn(r, "seat") /\ sessions' = Seated(sessions, r.seat)
  <2>1. r.seat \in Seats /\ r \in SignIns(net)
    BY <1>1 DEF AInv, NetKnown, RequestsKnown, Fresh, SignIns
  <2>2. deletion' = "none"
    BY <1>1, <1>2 DEF ServerTyped
  <2>3. SeatsGuarded' /\ sessions' \in Seq(Session) /\ Len(sessions') = Len(sessions) + 1
    BY <1>1, <1>2, <2>1, <2>2, SeatedGuards
  <2>4. NetKnown' /\ Disclosed /\ Entered
    BY <1>1, <1>2, <2>1, <2>3, SignInGuarded
  <2>5. BrowserTyped' /\ CodesHidden'
    BY <1>1, <2>3, BrowserKept
  <2>6. ServerTyped'
    BY <1>1, <2>3 DEF ServerTyped
  <2> QED
    BY <2>3, <2>4, <2>5, <2>6 DEF Guarded, AInv
<1>3. CASE Answer(r, "refused") /\ UNCHANGED sessions
  <2>1. "refused" \in Plain \cup People
    BY DEF Plain, Words
  <2>2. ServerKept
    BY <1>3 DEF JoinRoom, ServerKept, server
  <2> QED
    BY <1>3, <2>1, <2>2, PlainGuarded
<1> QED
  BY <1>2, <1>3 DEF JoinRoom

\* A teacher follows a link.
LEMMA ConsumeLinkGuarded ==
    ASSUME AInv, NEW r \in net, ConsumeLink(r) PROVE Guarded
<1>1. /\ sessions \in Seq(Session) /\ SeatsGuarded /\ ServerTyped
      /\ UNCHANGED <<jar, tab, sock>> /\ UNCHANGED <<tab, moves, outside>>
      /\ UNCHANGED <<room, deletion, losses>> /\ Fresh(r, "consume")
  BY DEF AInv, ServerTyped, ConsumeLink, bounds
<1>2. CASE /\ SignIn(r, "welcome") /\ link' = "spent"
           /\ sessions' = Append(sessions, [who |-> "teacher", live |-> TRUE])
  <2>1. r \in SignIns(net)
    BY <1>1 DEF Fresh, SignIns
  <2>2. SeatsGuarded' /\ sessions' \in Seq(Session) /\ Len(sessions') = Len(sessions) + 1
    BY <1>1, <1>2, TeacherGuards
  <2>3. NetKnown' /\ Disclosed /\ Entered
    BY <1>1, <1>2, <2>1, <2>2, SignInGuarded
  <2>4. BrowserTyped' /\ CodesHidden'
    BY <1>1, <2>2, BrowserKept
  <2>5. ServerTyped'
    BY <1>1, <1>2, <2>2 DEF ServerTyped
  <2> QED
    BY <2>2, <2>3, <2>4, <2>5 DEF Guarded, AInv
<1>3. CASE Answer(r, "refused") /\ UNCHANGED <<link, sessions>>
  <2>1. "refused" \in Plain \cup People
    BY DEF Plain, Words
  <2>2. ServerKept
    BY <1>3 DEF ConsumeLink, ServerKept, server
  <2> QED
    BY <1>3, <2>1, <2>2, PlainGuarded
<1> QED
  BY <1>2, <1>3 DEF ConsumeLink

\* A teacher or a student signs out.
LEMMA ServeLogoutGuarded ==
    ASSUME AInv, NEW r \in net, ServeLogout(r) PROVE Guarded
<1>1. /\ sessions \in Seq(Session) /\ SeatsGuarded /\ ServerTyped
      /\ UNCHANGED <<jar, tab, sock>> /\ UNCHANGED <<tab, moves, outside>>
      /\ UNCHANGED <<link, room, deletion, losses>> /\ Answer(r, "dismissal")
      /\ sessions' = [i \in DOMAIN sessions |-> [sessions[i] EXCEPT !.live = @ /\ i # r.tok]]
  BY DEF AInv, ServerTyped, ServeLogout, bounds
<1>2. Thinned(sessions', sessions)
  <2> DEFINE f == [i \in DOMAIN sessions |-> sessions[i].live /\ i # r.tok]
  <2>1. f \in [DOMAIN sessions -> BOOLEAN] /\ \A i \in DOMAIN sessions : f[i] => sessions[i].live
    OBVIOUS
  <2>2. sessions' = [i \in DOMAIN sessions |-> [sessions[i] EXCEPT !.live = f[i]]]
    BY <1>1
  <2> HIDE DEF f
  <2> QED
    BY <1>1, <2>1, <2>2, EndedThins
<1>3. SeatsGuarded' /\ sessions' \in Seq(Session) /\ Len(sessions') = Len(sessions)
  BY <1>1, <1>2, ThinnedGuards
<1>4. NetKnown' /\ Disclosed /\ Entered
  <2>1. /\ "dismissal" \in Replies /\ "dismissal" # "none"
        /\ "dismissal" \notin {"room", "events", "history"}
    BY DEF Replies, Words
  <2> QED
    BY <1>1, <1>3, <2>1, AnswerGuarded
<1>5. BrowserTyped' /\ CodesHidden'
  BY <1>1, <1>3, BrowserKept
<1>6. ServerTyped'
  BY <1>1, <1>3 DEF ServerTyped
<1> QED
  BY <1>3, <1>4, <1>5, <1>6 DEF Guarded, AInv

\* The deletion closes the room and leaves no student signed in.
LEMMA TombstoneGuards ==
    ASSUME AInv, Tombstone
    PROVE  /\ SeatsGuarded' /\ sessions' \in Seq(Session) /\ Len(sessions') = Len(sessions)
           /\ deletion' = "active" /\ room' = "closed"
<1>1. /\ sessions \in Seq(Session) /\ SeatsGuarded /\ deletion' = "active" /\ room' = "closed"
      /\ sessions' = Revoked(sessions, Seats)
  BY DEF AInv, ServerTyped, Tombstone
<1>2. /\ Thinned(sessions', sessions)
      /\ \A i \in DOMAIN sessions : sessions'[i].live => sessions[i].who \notin Seats
  BY <1>1, RevokedThins
<1> QED
  BY <1>1, <1>2, ThinnedGuards

\* The teacher asks for the deletion of the room.
LEMMA RequestDeletionGuarded ==
    ASSUME AInv, NEW r \in net, RequestDeletion(r) PROVE Guarded
<1>1. /\ ServerTyped /\ UNCHANGED <<jar, tab, sock>> /\ UNCHANGED <<tab, moves, outside>>
      /\ UNCHANGED <<link, losses>>
  BY DEF AInv, RequestDeletion, bounds
<1>2. CASE Tombstone /\ Answer(r, "admitted")
  <2>1. /\ SeatsGuarded' /\ sessions' \in Seq(Session) /\ Len(sessions') = Len(sessions)
        /\ deletion' = "active" /\ room' = "closed"
    BY <1>2, TombstoneGuards
  <2>2. NetKnown' /\ Disclosed /\ Entered
    <3>1. /\ "admitted" \in Replies /\ "admitted" # "none"
          /\ "admitted" \notin {"room", "events", "history"}
      BY DEF Replies, Words
    <3> QED
      BY <1>1, <1>2, <2>1, <3>1, AnswerGuarded
  <2>3. BrowserTyped' /\ CodesHidden'
    BY <1>1, <2>1, BrowserKept
  <2>4. ServerTyped'
    BY <1>1, <2>1 DEF ServerTyped
  <2> QED
    BY <2>1, <2>2, <2>3, <2>4 DEF Guarded, AInv
<1> DEFINE reply == CASE Who(r.tok) = "nobody"                         -> "nobody"
                      [] Who(r.tok) = "teacher" /\ deletion = "active" -> "conflict"
                      [] OTHER                                         -> "missing"
<1>3. CASE Answer(r, reply) /\ UNCHANGED <<sessions, room, deletion>>
  <2>1. reply \in Plain \cup People
    BY DEF Plain, People, Words
  <2>2. Answer(r, reply) /\ ServerKept
    BY <1>3 DEF RequestDeletion, ServerKept, server
  <2> HIDE DEF reply
  <2> QED
    BY <2>1, <2>2, PlainGuarded
<1> QED
  BY <1>2, <1>3 DEF RequestDeletion

\* The sockets that are open are evicted.
LEMMA EvictRoomGuarded ==
    ASSUME AInv, NEW r \in net, EvictRoom(r) PROVE Guarded
<1>1. /\ UNCHANGED <<sessions, link, room, deletion, jar, tab, losses>> /\ UNCHANGED <<tab, moves, outside>>
      /\ Answer(r, "accepted") /\ sessions' \in Seq(Session) /\ Len(sessions') = Len(sessions)
      /\ sock' = [t \in Tabs |-> IF sock[t].st = "open" THEN [sock[t] EXCEPT !.st = "4410"]
                                 ELSE sock[t]]
  BY DEF EvictRoom, bounds, server, AInv, ServerTyped
<1>2. NetKnown' /\ Disclosed /\ Entered
  <2>1. /\ "accepted" \in Replies /\ "accepted" # "none"
        /\ "accepted" \notin {"room", "events", "history"}
    BY DEF Replies, Words
  <2> QED
    BY <1>1, <2>1, AnswerGuarded
<1>3. BrowserTyped'
  <2>1. \A t \in Tabs : /\ sock[t] \in Socket
                        /\ sock[t].st # "none" => tab[t].at \in Hydrated
    BY DEF AInv, BrowserTyped
  <2>2. \A t \in Tabs : sock'[t] \in Socket /\ (sock'[t].st # "none" => sock[t].st # "none")
    BY <1>1, <2>1 DEF Socket
  <2>3. sock' \in [Tabs -> Socket] /\ \A t \in Tabs : sock'[t].st # "none" => tab'[t].at \in Hydrated
    BY <1>1, <2>1, <2>2
  <2> QED
    BY <1>1, <2>3 DEF AInv, BrowserTyped
<1>4. ServerTyped' /\ SeatsGuarded' /\ CodesHidden'
  BY <1>1 DEF AInv, ServerTyped, SeatsGuarded, CodesHidden
<1> QED
  BY <1>2, <1>3, <1>4 DEF Guarded, AInv

\* The server works on a request.
LEMMA ServeGuarded ==
    ASSUME AInv, NEW r \in net, Serve(r) PROVE Guarded
  BY ServeSessionGuarded, JoinRoomGuarded, ConsumeLinkGuarded, ServeLogoutGuarded, AdmitReadGuarded,
     ReadRoomGuarded, ReadEventsGuarded, ServeRoomsGuarded, CreateRoomGuarded,
     DeletionStatusGuarded, RequestDeletionGuarded, EvictRoomGuarded DEF Serve

\* A request or its answer is lost.
LEMMA LoseGuarded ==
    ASSUME AInv, NEW r \in net, Lose(r) PROVE Guarded
<1>1. /\ UNCHANGED <<server, jar, tab, sock, moves, outside>> /\ UNCHANGED <<tab, moves, outside>>
      /\ sessions' = sessions /\ sessions' \in Seq(Session)
      /\ Answer(r, "lost") /\ losses' \in 0..MaxLosses
  BY AccessAssumption DEF Lose, AInv, ServerTyped, server
<1>2. NetKnown' /\ Disclosed /\ Entered
  <2>1. "lost" \in Replies /\ "lost" # "none" /\ "lost" \notin {"room", "events", "history"}
    BY DEF Replies, Words
  <2> QED
    BY <1>1, <2>1, AnswerGuarded
<1>3. RestKnown'
  BY <1>1, RestKept
<1> QED
  BY <1>2, <1>3 DEF Guarded, AInv, RestKnown

-----------------------------------------------------------------------------
(* What happens elsewhere, cookies and late answers.                       *)

\* A count that grows no more than what pays for it stays within it.
LEMMA Afforded ==
    ASSUME NEW a \in Nat, NEW b \in Nat, NEW c \in Nat, NEW m \in Nat, NEW o \in Nat,
           NEW n \in Nat, NEW p \in Nat, a + c <= m + o + 1, b + (m + o) <= a + (n + p)
    PROVE  b + c <= n + p + 1
  OBVIOUS

\* A step that leaves the requests alone, and where every session more was paid for.
LEMMA NetKept ==
    ASSUME AInv, net' = net, \A t \in Tabs : tab'[t].at = tab[t].at,
           Len(sessions') \in Nat, moves' \in Nat, outside' \in Nat, Len(sessions) <= Len(sessions'),
           Len(sessions') + (moves + outside) <= Len(sessions) + (moves' + outside')
    PROVE  NetKnown' /\ Disclosed
<1>1. /\ net \subseteq Request /\ Waits /\ RequestsKnown /\ SignInsCounted
      /\ Len(sessions) \in Nat /\ moves \in Nat /\ outside \in Nat
  BY LenProperties, AccessAssumption DEF AInv, NetKnown, ServerTyped
<1>2. Waits'
  BY <1>1 DEF Waits, Request
<1>3. RequestsKnown'
  <2>1. \A q \in net : q.tok \in Nat
    BY <1>1, AccessAssumption DEF Request, Tokens, MaxSessions
  <2>2. \A q \in net : q.tok <= Len(sessions')
    BY <1>1, <2>1 DEF RequestsKnown
  <2> QED
    BY <1>1, <2>2 DEF RequestsKnown
<1>4. SignInsCounted'
  <2> DEFINE c == Cardinality(SignIns(net))
  <2>1. /\ IsFiniteSet(SignIns(net)) /\ c \in Nat /\ Len(sessions) + c <= moves + outside + 1
    BY <1>1, FS_CardinalityType DEF SignInsCounted
  <2>2. SignIns(net') = SignIns(net)
    OBVIOUS
  <2>3. Len(sessions') + c <= moves' + outside' + 1
    BY <1>1, <2>1, Afforded, Zenon
  <2> QED
    BY <2>1, <2>2, <2>3 DEF SignInsCounted
<1> QED
  BY <1>1, <1>2, <1>3, <1>4 DEF NetKnown, Disclosed

\* A step elsewhere that changes the server and neither a page nor a request.
LEMMA ElsewhereGuarded ==
    ASSUME AInv, Elsewhere, SeatsGuarded', sessions' \in Seq(Session),
           Len(sessions') = Len(sessions) \/ Len(sessions') = Len(sessions) + 1,
           room' \in {"open", "paused", "closed"}, deletion' \in {"none", "active", "done"},
           deletion' # "none" => room' = "closed"
    PROVE  Guarded
<1>1. /\ UNCHANGED <<link, jar, tab, sock, net, moves, losses>>
      /\ outside' = outside + 1 /\ outside' \in 0..MaxOutside /\ outside \in Nat /\ moves \in Nat
      /\ Len(sessions) \in Nat /\ Len(sessions') \in Nat
  BY LenProperties, AccessAssumption DEF Elsewhere, AInv, ServerTyped
<1>2. NetKnown' /\ Disclosed
  <2>1. /\ Len(sessions) <= Len(sessions') /\ moves' \in Nat /\ outside' \in Nat
        /\ Len(sessions') + (moves + outside) <= Len(sessions) + (moves' + outside')
    BY <1>1
  <2> QED
    BY <1>1, <2>1, NetKept
<1>3. BrowserTyped' /\ CodesHidden'
  BY <1>1, BrowserKept
<1>4. ServerTyped'
  BY <1>1 DEF AInv, ServerTyped
<1>5. Entered
  BY <1>1 DEF Entered
<1> QED
  BY <1>2, <1>3, <1>4, <1>5 DEF Guarded, AInv

\* A student joins the seat from another device.
LEMMA JoinElsewhereGuarded ==
    ASSUME AInv, NEW s \in Seats, JoinElsewhere(s) PROVE Guarded
<1>1. /\ sessions \in Seq(Session) /\ SeatsGuarded /\ sessions' = Seated(sessions, s)
      /\ deletion' = "none" /\ room' = "open" /\ Elsewhere
  BY DEF AInv, ServerTyped, JoinElsewhere
<1>2. SeatsGuarded' /\ sessions' \in Seq(Session) /\ Len(sessions') = Len(sessions) + 1
  BY <1>1, SeatedGuards
<1> QED
  BY <1>1, <1>2, ElsewhereGuarded

\* A session expires.
LEMMA ExpireGuarded ==
    ASSUME AInv, NEW i \in DOMAIN sessions, Expire(i) PROVE Guarded
<1>1. /\ sessions \in Seq(Session) /\ SeatsGuarded /\ sessions' = [sessions EXCEPT ![i].live = FALSE]
      /\ UNCHANGED <<room, deletion>> /\ Elsewhere
      /\ room \in {"open", "paused", "closed"} /\ deletion \in {"none", "active", "done"}
      /\ deletion # "none" => room = "closed"
  BY DEF AInv, ServerTyped, Expire
<1>2. Thinned(sessions', sessions)
  <2> DEFINE f == [j \in DOMAIN sessions |-> IF j = i THEN FALSE ELSE sessions[j].live]
  <2>1. \A j \in DOMAIN sessions : sessions[j] \in Session
    <3>1. \A j \in 1..Len(sessions) : sessions[j] \in Session
      BY <1>1, ElementOfSeq
    <3> QED
      BY <1>1, <3>1, LenProperties
  <2>2. f \in [DOMAIN sessions -> BOOLEAN] /\ \A j \in DOMAIN sessions : f[j] => sessions[j].live
    BY <2>1 DEF Session
  <2>3. \A j \in DOMAIN sessions : j # i => sessions[j] = [sessions[j] EXCEPT !.live = f[j]]
    BY <2>1 DEF Session
  <2>4. sessions' = [j \in DOMAIN sessions |-> [sessions[j] EXCEPT !.live = f[j]]]
    <3>1. f[i] = FALSE
      OBVIOUS
    <3>2. DOMAIN sessions' = DOMAIN sessions /\ sessions' = [j \in DOMAIN sessions |-> sessions'[j]]
      BY <1>1, LenProperties
    <3>3. sessions'[i] = [sessions[i] EXCEPT !.live = FALSE]
      BY <1>1
    <3>4. \A j \in DOMAIN sessions : j # i => sessions'[j] = sessions[j]
      BY <1>1
    <3> HIDE DEF f
    <3> QED
      BY <2>3, <3>1, <3>2, <3>3, <3>4
  <2> HIDE DEF f
  <2> QED
    BY <1>1, <2>2, <2>4, EndedThins
<1>3. SeatsGuarded' /\ sessions' \in Seq(Session) /\ Len(sessions') = Len(sessions)
  BY <1>1, <1>2, ThinnedGuards
<1> QED
  BY <1>1, <1>3, ElsewhereGuarded

\* The teacher pauses, resumes or closes the room elsewhere.
LEMMA ChangeStatusGuarded ==
    ASSUME AInv, NEW s \in {"open", "paused", "closed"}, ChangeStatus(s) PROVE Guarded
<1>1. /\ UNCHANGED <<sessions, deletion>> /\ Elsewhere /\ room' = s /\ room # "closed"
      /\ sessions \in Seq(Session) /\ SeatsGuarded /\ deletion \in {"none", "active", "done"}
      /\ deletion # "none" => room = "closed"
  BY DEF AInv, ServerTyped, ChangeStatus
<1>2. SeatsGuarded'
  BY <1>1 DEF SeatsGuarded
<1> QED
  BY <1>1, <1>2, ElsewhereGuarded

\* The retention sweep.
LEMMA SweepRetentionGuarded ==
    ASSUME AInv, SweepRetention PROVE Guarded
<1>1. /\ SeatsGuarded' /\ sessions' \in Seq(Session) /\ Len(sessions') = Len(sessions)
      /\ deletion' = "active" /\ room' = "closed" /\ Elsewhere
  BY TombstoneGuards DEF SweepRetention
<1> QED
  BY <1>1, ElsewhereGuarded

\* The worker finishes the deletion.
LEMMA FinishDeletionGuarded ==
    ASSUME AInv, FinishDeletion PROVE Guarded
<1>1. /\ deletion = "active" /\ deletion' = "done" /\ sessions \in Seq(Session)
      /\ UNCHANGED <<sessions, link, room, jar, tab, sock, net, moves, outside, losses>>
      /\ Len(sessions) \in Nat /\ moves \in Nat /\ outside \in Nat
  BY LenProperties, AccessAssumption DEF FinishDeletion, AInv, ServerTyped, bounds
<1>2. NetKnown' /\ Disclosed
  <2>1. /\ Len(sessions) <= Len(sessions') /\ moves' \in Nat /\ outside' \in Nat /\ Len(sessions') \in Nat
        /\ Len(sessions') + (moves + outside) <= Len(sessions) + (moves' + outside')
    BY <1>1
  <2> QED
    BY <1>1, <2>1, NetKept
<1>3. BrowserTyped' /\ CodesHidden'
  BY <1>1, BrowserKept
<1>4. ServerTyped' /\ SeatsGuarded'
  BY <1>1 DEF AInv, ServerTyped, SeatsGuarded
<1>5. Entered
  BY <1>1 DEF Entered
<1> QED
  BY <1>2, <1>3, <1>4, <1>5 DEF Guarded, AInv

\* The browser stores the cookie of an answer.
LEMMA StoreCookieGuarded ==
    ASSUME AInv, NEW r \in net, StoreCookie(r) PROVE Guarded
<1> DEFINE reply == SetsCookie[r.reply]
<1>1. reply \in {"joined", "signed", "bye"}
  BY DEF StoreCookie, SetsCookie
<1>2. /\ Answer(r, reply) /\ UNCHANGED <<sessions, link, room, deletion, tab, sock, losses>>
      /\ UNCHANGED <<tab, moves, outside>> /\ jar' = IF r.reply = "dismissal" THEN 0 ELSE r.tok
      /\ sessions \in Seq(Session) /\ sessions' \in Seq(Session) /\ Len(sessions') = Len(sessions)
  BY DEF StoreCookie, server, bounds, AInv, ServerTyped
<1> HIDE DEF reply
<1>3. NetKnown' /\ Disclosed /\ Entered
  <2>1. reply \in Replies /\ reply # "none" /\ reply \notin {"room", "events", "history"}
    BY <1>1 DEF Replies, Words
  <2> QED
    BY <1>2, <2>1, AnswerGuarded
<1>4. jar' \in 0..Len(sessions')
  <2>1. r.tok \in Nat /\ r.tok <= Len(sessions) /\ Len(sessions) \in Nat
    BY <1>2, LenProperties, AccessAssumption
       DEF AInv, NetKnown, RequestsKnown, Request, Tokens, MaxSessions
  <2> QED
    BY <1>2, <2>1
<1>5. BrowserTyped' /\ CodesHidden' /\ ServerTyped' /\ SeatsGuarded'
  BY <1>2, <1>4 DEF AInv, BrowserTyped, CodesHidden, ServerTyped, SeatsGuarded
<1> QED
  BY <1>3, <1>5 DEF Guarded, AInv

\* An answer nobody waits for any more.
LEMMA ReceiveLateGuarded ==
    ASSUME AInv, NEW r \in net, ReceiveLate(r) PROVE Guarded
<1>1. /\ ~r.mine /\ net' = net \ {r} /\ UNCHANGED <<server, jar, tab, sock, moves, outside>>
      /\ sessions' = sessions /\ tab' = tab /\ moves' = moves /\ outside' = outside
      /\ losses' \in 0..MaxLosses
  BY DEF ReceiveLate, bounds, server, AInv, ServerTyped
<1>2. /\ net \subseteq Request /\ Waits /\ RequestsKnown /\ SignInsCounted
      /\ Len(sessions) \in Nat /\ moves \in Nat /\ outside \in Nat
  BY LenProperties, AccessAssumption DEF AInv, NetKnown, ServerTyped
<1>3. net' \subseteq Request /\ Waits' /\ RequestsKnown'
  BY <1>1, <1>2 DEF Waits, RequestsKnown
<1>4. SignInsCounted'
  <2> DEFINE c == Cardinality(SignIns(net))
             d == Cardinality(SignIns(net'))
  <2>1. IsFiniteSet(SignIns(net)) /\ c \in Nat /\ Len(sessions) + c <= moves + outside + 1
    BY <1>2, FS_CardinalityType DEF SignInsCounted
  <2>2. SignIns(net') \in SUBSET SignIns(net)
    BY <1>1 DEF SignIns
  <2>3. IsFiniteSet(SignIns(net')) /\ d \in Nat /\ d <= c
    BY <2>1, <2>2, FS_Subset, FS_CardinalityType
  <2>4. Len(sessions') + d <= moves' + outside' + 1
    <3> HIDE DEF c, d
    <3> QED
      BY <1>1, <1>2, <2>1, <2>3
  <2> QED
    BY <2>3, <2>4 DEF SignInsCounted
<1>5. Disclosed /\ Entered
  BY <1>1 DEF Disclosed, Entered
<1>6. RestKnown'
  BY <1>1, RestKept
<1> QED
  BY <1>3, <1>4, <1>5, <1>6 DEF Guarded, AInv, NetKnown, RestKnown

-----------------------------------------------------------------------------
(* The browser's steps.                                                    *)

\* A tab turns to page p, with or without a socket of its own.
LEMMA PageShown ==
    ASSUME AInv, NEW t \in Tabs, NEW p \in Page, p.codes => p.at \in {"w.ready", "w.refresh"},
           tab' = [tab EXCEPT ![t] = p], jar' = jar, sessions' = sessions,
           NEW s \in Socket, s.st # "none" => p.at \in Hydrated, sock' = [sock EXCEPT ![t] = s]
    PROVE  BrowserTyped' /\ CodesHidden'
<1>1. /\ tab \in [Tabs -> Page] /\ sock \in [Tabs -> Socket] /\ jar \in 0..Len(sessions)
      /\ \A u \in Tabs : sock[u].st # "none" => tab[u].at \in Hydrated
      /\ \A u \in Tabs : tab[u].codes => tab[u].at \in {"w.ready", "w.refresh"}
  BY DEF AInv, BrowserTyped, CodesHidden
<1>2. /\ tab' \in [Tabs -> Page] /\ sock' \in [Tabs -> Socket]
      /\ tab'[t] = p /\ sock'[t] = s
      /\ \A u \in Tabs : u # t => tab'[u] = tab[u] /\ sock'[u] = sock[u]
  BY <1>1
<1>3. \A u \in Tabs : sock'[u].st # "none" => tab'[u].at \in Hydrated
  BY <1>1, <1>2
<1>4. \A u \in Tabs : tab'[u].codes => tab'[u].at \in {"w.ready", "w.refresh"}
  BY <1>1, <1>2
<1> QED
  BY <1>1, <1>2, <1>3, <1>4 DEF BrowserTyped, CodesHidden

\* A page that asks for something was told nothing yet.
LEMMA ShownDisclosed ==
    ASSUME NEW t \in Tabs, NEW p, NEW rest, Show(t, p, rest),
           \A x \in rest : x \in net \/ [x EXCEPT !.mine = TRUE] \in net
    PROVE  Disclosed
<1> DEFINE new == Send(t, Asks[p.at], IF p.at = "l.join" THEN p.who ELSE "nobody")
<1>1. new.reply = "none"
  BY DEF Send
<1>2. \A x \in net' : x \in rest \/ x = new
  BY DEF Show
<1> HIDE DEF new
<1> QED
  BY <1>1, <1>2 DEF Disclosed

\* A closed socket.
LEMMA ClosedSocket == Closed \in Socket /\ Closed.st = "none"
  BY AccessAssumption DEF Closed, Socket, Tokens, MaxSessions

\* A cookie of the browser is a token.
LEMMA JarIsToken == AInv => jar \in Tokens /\ jar \in 0..Len(sessions)
<1> SUFFICES ASSUME AInv PROVE jar \in Tokens /\ jar \in 0..Len(sessions)
  OBVIOUS
<1>1. /\ jar \in 0..Len(sessions) /\ Len(sessions) <= MaxSessions /\ Len(sessions) \in Nat
      /\ MaxSessions \in Nat
  BY AccessTypes, LenProperties, AccessAssumption
     DEF AccessTypeOK, AInv, ServerTyped, BrowserTyped, MaxSessions
<1> QED
  BY <1>1 DEF Tokens

\* The answer a page waits for arrives.
LEMMA ReceiveGuarded ==
    ASSUME AInv, NEW r \in net, Receive(r) PROVE Guarded
<1> DEFINE t == r.tab
           p == Turned(tab[t], r.reply)
           s == IF r.reply = "events" /\ p.at = "ready" THEN [st |-> "opening", tok |-> jar]
                ELSE IF p.at \in Hydrated THEN sock[t] ELSE Closed
<1>1. /\ r.mine /\ jar' = jar /\ Show(t, p, net \ {r}) /\ sock' = [sock EXCEPT ![t] = s]
      /\ UNCHANGED <<sessions, link, room, deletion, moves, outside, losses>>
  BY DEF Receive, AInv, BrowserTyped, server, bounds
<1>2. /\ t \in Tabs /\ tab \in [Tabs -> Page] /\ sock[t] \in Socket /\ tab[t].at \in Waiting
      /\ tab[t].codes => tab[t].at \in {"w.ready", "w.refresh"}
  BY <1>1 DEF AInv, NetKnown, Request, Waits, BrowserTyped, CodesHidden
<1>3. tab[t] \in Page
  BY <1>2
<1>4. Becomes(tab[t], p, r.reply)
  BY <1>2, <1>3, TurnedBecomes
<1>5. s \in Socket /\ (s.st # "none" => p.at \in Hydrated)
  <2>1. [st |-> "opening", tok |-> jar] \in Socket
    BY JarIsToken DEF Socket
  <2>2. "ready" \in Hydrated
    BY DEF Hydrated
  <2> QED
    BY <1>2, <2>1, <2>2, ClosedSocket
<1> HIDE DEF p, s
<1>6. /\ p \in Page /\ p.at \notin {"l.join", "w.link"}
      /\ p.codes => p.at \in {"w.ready", "w.refresh"}
      /\ tab[t].at = "l.confirm" /\ p.at = "l.enter" => r.reply = tab[t].who
  BY <1>4 DEF Becomes
<1>7. tab' = [tab EXCEPT ![t] = p]
  BY <1>1 DEF Show
<1>8. BrowserTyped' /\ CodesHidden'
  BY <1>1, <1>2, <1>5, <1>6, <1>7, PageShown
<1>9. NetKnown'
  <2>1. Left(t, net \ {r})
    BY <1>1, LeftAnswered
  <2> QED
    BY <1>1, <1>2, <1>6, <2>1, NetShown
<1>10. Disclosed
  BY <1>1, <1>2, ShownDisclosed
<1>11. Entered
  <2>1. \A u \in Tabs : u # t => tab'[u] = tab[u]
    BY <1>2, <1>7
  <2>2. tab'[t] = p
    BY <1>2, <1>7
  <2> QED
    BY <1>1, <1>6, <2>1, <2>2 DEF Entered
<1>12. ServerTyped' /\ SeatsGuarded'
  BY <1>1 DEF AInv, ServerTyped, SeatsGuarded
<1> QED
  BY <1>8, <1>9, <1>10, <1>11, <1>12 DEF Guarded, AInv

\* A step of a tab that supersedes what the tab asked for.
LEMMA SupersededGuarded ==
    ASSUME AInv, NEW t \in Tabs, NEW p \in Page, ~p.codes, p.at # "l.enter",
           p.at = "l.join" => p.who \in Seats, p.at \in {"l.join", "w.link"} => moves' = moves + 1,
           Show(t, p, Superseded(t)), jar' = jar, moves' \in {moves, moves + 1}, moves' \in 0..MaxMoves,
           UNCHANGED <<server, outside, losses>>,
           NEW s \in Socket, s.st # "none" => p.at \in Hydrated, sock' = [sock EXCEPT ![t] = s]
    PROVE  Guarded
<1>1. /\ UNCHANGED <<sessions, link, room, deletion, outside, losses>>
      /\ tab \in [Tabs -> Page] /\ net \subseteq Request
  BY DEF server, AInv, BrowserTyped, NetKnown
<1>2. tab' = [tab EXCEPT ![t] = p]
  BY DEF Show
<1>3. BrowserTyped' /\ CodesHidden'
  BY <1>1, <1>2, PageShown
<1>4. NetKnown'
  <2>1. Left(t, Superseded(t))
    BY LeftSuperseded
  <2> QED
    BY <1>1, <2>1, NetShown
<1>5. Disclosed
  <2>1. ASSUME NEW x \in Superseded(t) PROVE x \in net \/ [x EXCEPT !.mine = TRUE] \in net
    <3>1. CASE x \in {[q EXCEPT !.mine = FALSE] : q \in {q \in net : q.tab = t /\ q.op \in Changing}}
      <4>1. PICK q \in net : x = [q EXCEPT !.mine = FALSE]
        BY <3>1
      <4>2. q \in Request
        BY <4>1, <1>1
      <4>3. CASE q.mine = TRUE
        <5>1. [x EXCEPT !.mine = TRUE] = q
          BY <4>1, <4>2, <4>3 DEF Request
        <5> QED
          BY <5>1, <4>1
      <4>4. CASE q.mine = FALSE
        <5>1. x = q
          BY <4>1, <4>2, <4>4 DEF Request
        <5> QED
          BY <5>1, <4>1
      <4> QED
        BY <4>2, <4>3, <4>4 DEF Request
    <3> QED
      BY <2>1, <3>1 DEF Superseded
  <2> QED
    BY <2>1, ShownDisclosed
<1>6. Entered
  <2>1. \A u \in Tabs : u # t => tab'[u] = tab[u]
    BY <1>1, <1>2
  <2>2. tab'[t] = p
    BY <1>1, <1>2
  <2> QED
    BY <2>1, <2>2 DEF Entered
<1>7. ServerTyped' /\ SeatsGuarded'
  BY <1>1 DEF AInv, ServerTyped, SeatsGuarded
<1> QED
  BY <1>3, <1>4, <1>5, <1>6, <1>7 DEF Guarded, AInv

\* A step of a socket that leaves its page alone.
LEMMA SocketGuarded ==
    ASSUME AInv, NEW t \in Tabs, sock[t].st # "none", NEW s \in Socket,
           sock' = [sock EXCEPT ![t] = s], SocketKept, losses' \in 0..MaxLosses
    PROVE  Guarded
<1>1. /\ UNCHANGED <<sessions, link, room, deletion, jar, tab, net, moves, outside>>
      /\ sock \in [Tabs -> Socket] /\ tab \in [Tabs -> Page] /\ tab[t].at \in Hydrated
      /\ \A u \in Tabs : sock[u].st # "none" => tab[u].at \in Hydrated
  BY DEF SocketKept, server, AInv, BrowserTyped
<1>2. /\ sock' \in [Tabs -> Socket] /\ \A u \in Tabs : sock'[u].st # "none" => tab[u].at \in Hydrated
  BY <1>1
<1>3. BrowserTyped'
  BY <1>1, <1>2 DEF AInv, BrowserTyped
<1>4. ServerTyped' /\ SeatsGuarded' /\ CodesHidden'
  BY <1>1 DEF AInv, ServerTyped, SeatsGuarded, CodesHidden
<1>5. NetKnown'
  BY <1>1 DEF AInv, NetKnown, Waits, RequestsKnown, SignInsCounted
<1>6. Disclosed /\ Entered
  BY <1>1 DEF Disclosed, Entered
<1> QED
  BY <1>3, <1>4, <1>5, <1>6 DEF Guarded, AInv

\* A socket whose state changes.
LEMMA SocketTurns ==
    ASSUME AInv, NEW t \in Tabs, NEW st \in {"none", "opening", "admitted", "open", "4401", "4410"},
           sock' = [sock EXCEPT ![t].st = st]
    PROVE  \E s \in Socket : sock' = [sock EXCEPT ![t] = s]
<1>1. sock \in [Tabs -> Socket] /\ sock[t] \in Socket
  BY DEF AInv, BrowserTyped
<1>2. [sock[t] EXCEPT !.st = st] \in Socket
  BY <1>1 DEF Socket
<1>3. sock' = [sock EXCEPT ![t] = [sock[t] EXCEPT !.st = st]]
  OBVIOUS
<1> QED
  BY <1>2, <1>3

\* The Upgrade, the hello, a heartbeat and a reconnect.
LEMMA SocketStepGuarded ==
    ASSUME AInv, NEW t \in Tabs, AdmitSocket(t) \/ ConnectSocket(t) \/ Heartbeat(t) \/ Reconnect(t)
    PROVE  Guarded
<1>1. losses \in 0..MaxLosses
  BY DEF AInv, ServerTyped
<1>2. CASE AdmitSocket(t)
  <2> DEFINE verdict == UpgradeAuthorized(sock[t].tok)
             st == IF verdict = "ok" THEN "admitted" ELSE verdict
  <2>1. verdict \in {"ok", "4401", "4410"}
    BY DEF UpgradeAuthorized
  <2>2. st \in {"none", "opening", "admitted", "open", "4401", "4410"}
    BY <2>1
  <2>3. /\ sock[t].st # "none" /\ SocketKept /\ losses' = losses /\ sock' = [sock EXCEPT ![t].st = st]
    BY <1>2 DEF AdmitSocket
  <2> HIDE DEF st
  <2>4. PICK s \in Socket : sock' = [sock EXCEPT ![t] = s]
    BY <2>2, <2>3, SocketTurns
  <2> QED
    BY <1>1, <2>3, <2>4, SocketGuarded
<1>3. CASE ConnectSocket(t)
  <2>1. /\ sock[t].st # "none" /\ SocketKept /\ losses' = losses
        /\ sock' = [sock EXCEPT ![t].st = "open"]
    BY <1>3 DEF ConnectSocket
  <2>2. PICK s \in Socket : sock' = [sock EXCEPT ![t] = s]
    BY <2>1, SocketTurns
  <2> QED
    BY <1>1, <2>1, <2>2, SocketGuarded
<1>4. CASE Heartbeat(t)
  <2> DEFINE st == Reauthorized(sock[t].tok)
  <2>1. st \in {"ok", "4401", "4410"}
    BY DEF Reauthorized
  <2>2. /\ sock[t].st # "none" /\ SocketKept /\ losses' = losses /\ st # "ok"
        /\ sock' = [sock EXCEPT ![t].st = st]
    BY <1>4 DEF Heartbeat
  <2> HIDE DEF st
  <2>3. st \in {"none", "opening", "admitted", "open", "4401", "4410"}
    BY <2>1, <2>2
  <2>4. PICK s \in Socket : sock' = [sock EXCEPT ![t] = s]
    BY <2>2, <2>3, SocketTurns
  <2> QED
    BY <1>1, <2>2, <2>4, SocketGuarded
<1>5. CASE Reconnect(t)
  <2> DEFINE s == [st |-> "opening", tok |-> jar]
  <2>1. s \in Socket
    BY JarIsToken DEF Socket
  <2>2. /\ sock[t].st # "none" /\ SocketKept /\ losses' = losses + 1 /\ losses < MaxLosses
        /\ sock' = [sock EXCEPT ![t] = s]
    BY <1>5 DEF Reconnect
  <2>3. losses' \in 0..MaxLosses
    BY <1>1, <2>2, AccessAssumption
  <2> HIDE DEF s
  <2> QED
    BY <2>1, <2>2, <2>3, SocketGuarded
<1> QED
  BY <1>2, <1>3, <1>4, <1>5

\* The page hears that its socket was closed.
LEMMA OnCloseGuarded ==
    ASSUME AInv, NEW t \in Tabs, OnClose(t) PROVE Guarded
<1> DEFINE p == CASE sock[t].st = "4401"                           -> Login(tab[t])
                  [] sock[t].st = "4410" /\ tab[t].who = "teacher" -> Moved(tab[t], "r.gone")
                  [] OTHER                                         -> Moved(tab[t], "lost")
<1>1. /\ sock[t].st \in {"4401", "4410"} /\ sock' = [sock EXCEPT ![t] = Closed] /\ jar' = jar
      /\ Show(t, p, Superseded(t)) /\ UNCHANGED <<server, outside, losses>> /\ moves' = moves
      /\ moves \in 0..MaxMoves /\ tab[t] \in Page /\ tab[t].at \in Hydrated
      /\ tab[t].codes => tab[t].at \in {"w.ready", "w.refresh"}
  BY DEF OnClose, bounds, AInv, ServerTyped, BrowserTyped, CodesHidden
<1>2. ~tab[t].codes
  BY <1>1 DEF Hydrated
<1>3. p \in {Login(tab[t]), Moved(tab[t], "r.gone"), Moved(tab[t], "lost")}
  OBVIOUS
<1>4. /\ Login(tab[t]) \in Page /\ Login(tab[t]).at = "l.check" /\ ~Login(tab[t]).codes
  <2>1. Login(tab[t]).codes = FALSE
    BY <1>1, PageLogin
  <2> QED
    BY <1>1, <2>1, PageLogin
<1>5. \A at \in {"r.gone", "lost"} : /\ Moved(tab[t], at) \in Page /\ Moved(tab[t], at).at = at
                                     /\ ~Moved(tab[t], at).codes
  <2>1. {"r.gone", "lost"} \subseteq Waiting \cup Resting
    BY DEF Waiting, Resting
  <2> QED
    BY <1>1, <1>2, <2>1, PageMoved
<1>6. p \in Page /\ ~p.codes /\ p.at \in {"l.check", "r.gone", "lost"}
  BY <1>3, <1>4, <1>5
<1> HIDE DEF p
<1>7. p.at \notin {"l.enter", "l.join", "w.link"} /\ p.at # "l.enter" /\ p.at # "l.join"
  BY <1>6
<1> QED
  BY <1>1, <1>6, <1>7, ClosedSocket, SupersededGuarded

-----------------------------------------------------------------------------
(* The user's steps.                                                       *)

\* A move of the user that turns tab t to page p.
LEMMA ActGuarded ==
    ASSUME AInv, NEW t \in Tabs, NEW p \in Page, ~p.codes, p.at # "l.enter",
           p.at = "l.join" => p.who \in Seats, Act(t, p)
    PROVE  Guarded
<1>1. /\ moves' = moves + 1 /\ moves' \in 0..MaxMoves /\ moves' \in {moves, moves + 1} /\ jar' = jar
      /\ Show(t, p, Superseded(t)) /\ UNCHANGED <<server, outside, losses>>
      /\ sock' = IF p.at \in Hydrated THEN sock ELSE [sock EXCEPT ![t] = Closed]
      /\ sock \in [Tabs -> Socket]
  BY AccessAssumption DEF Act, AInv, ServerTyped, BrowserTyped
<1>2. CASE p.at \in Hydrated
  <2>1. sock[t] \in Socket /\ sock' = [sock EXCEPT ![t] = sock[t]]
    BY <1>1, <1>2
  <2> QED
    BY <1>1, <1>2, <2>1, SupersededGuarded
<1>3. CASE p.at \notin Hydrated
  <2>1. sock' = [sock EXCEPT ![t] = Closed]
    BY <1>1, <1>3
  <2> QED
    BY <1>1, <2>1, ClosedSocket, SupersededGuarded
<1> QED
  BY <1>2, <1>3

\* A move of the user to another place.
LEMMA MoveGuarded ==
    ASSUME AInv, NEW t \in Tabs, ~tab[t].codes, NEW at \in Waiting \cup Resting,
           at \notin {"l.enter", "l.join"}, Act(t, Moved(tab[t], at))
    PROVE  Guarded
<1> DEFINE p == Moved(tab[t], at)
<1>1. tab[t] \in Page
  BY DEF AInv, BrowserTyped
<1>2. p \in Page /\ p.at = at /\ p.codes = tab[t].codes
  BY <1>1, PageMoved
<1>3. ~p.codes
  BY <1>2
<1>4. Act(t, p)
  OBVIOUS
<1> HIDE DEF p
<1>5. p.at # "l.enter" /\ p.at # "l.join"
  BY <1>2
<1> QED
  BY <1>2, <1>3, <1>4, <1>5, ActGuarded

\* The student types a seat's code.
LEMMA SubmitStudentGuarded ==
    ASSUME AInv, NEW t \in Tabs, NEW s \in Seats, SubmitStudent(t, s) PROVE Guarded
<1> DEFINE y == Moved(tab[t], "l.join")
           p == [tab[t] EXCEPT !.at = "l.join", !.who = s]
<1>1. /\ tab[t] \in Page /\ tab[t].at = "l.anon" /\ Act(t, p)
      /\ tab[t].codes => tab[t].at \in {"w.ready", "w.refresh"}
  BY DEF AInv, BrowserTyped, CodesHidden, SubmitStudent
<1>2. ~tab[t].codes
  BY <1>1
<1>3. "l.join" \in Waiting \cup Resting
  BY DEF Waiting
<1>4. y \in Page /\ y.at = "l.join" /\ y.codes = tab[t].codes
  BY <1>1, <1>3, PageMoved
<1>5. p = [y EXCEPT !.who = s]
  BY <1>1 DEF Moved, Page
<1> HIDE DEF y, p
<1>6. p \in Page /\ p.at = "l.join" /\ p.who = s /\ p.codes = tab[t].codes
  BY <1>4, <1>5 DEF Page, People
<1>7. ~p.codes /\ p.at # "l.enter" /\ p.who \in Seats
  BY <1>2, <1>6
<1> QED
  BY <1>1, <1>6, <1>7, ActGuarded

\* The teacher follows the mailed link in a tab.
LEMMA OpenLinkGuarded ==
    ASSUME AInv, NEW t \in Tabs, OpenLink(t) PROVE Guarded
<1> DEFINE y == Login(tab[t])
           p == [y EXCEPT !.at = "w.link"]
<1>1. tab[t] \in Page /\ Act(t, p)
  BY DEF AInv, BrowserTyped, OpenLink
<1>2. y \in Page /\ y.codes = FALSE
  BY <1>1, PageLogin
<1> HIDE DEF y
<1>3. p \in Page /\ p.at = "w.link" /\ p.codes = FALSE
  BY <1>2 DEF Page, Waiting
<1> HIDE DEF p
<1>4. ~p.codes /\ p.at # "l.enter" /\ p.at # "l.join"
  BY <1>3
<1> QED
  BY <1>1, <1>3, <1>4, ActGuarded

\* The user opens the room's address.
LEMMA VisitGuarded ==
    ASSUME AInv, NEW t \in Tabs, NEW mode \in {"student", "teacher"}, Visit(t, mode) PROVE Guarded
<1> DEFINE x == Login(tab[t])
           y == [x EXCEPT !.at = "r.session"]
           p == [x EXCEPT !.at = "r.session", !.mode = mode]
<1>1. tab[t] \in Page /\ Act(t, p)
  BY DEF AInv, BrowserTyped, Visit
<1>2. x \in Page /\ x.codes = FALSE
  BY <1>1, PageLogin
<1> HIDE DEF x
<1>3. y \in Page /\ y.at = "r.session" /\ y.codes = FALSE /\ p = [y EXCEPT !.mode = mode]
  BY <1>2 DEF Page, Waiting
<1> HIDE DEF y, p
<1>4. p \in Page /\ p.at = "r.session" /\ p.codes = FALSE
  BY <1>3 DEF Page
<1>5. ~p.codes /\ p.at # "l.enter" /\ p.at # "l.join"
  BY <1>4
<1> QED
  BY <1>1, <1>4, <1>5, ActGuarded

\* The moves that only change the place.
LEMMA MovesGuarded ==
    ASSUME AInv, NEW t \in Tabs, Retry(t) \/ CreateClassroom(t) \/ Logout(t) \/ DeleteRoom(t)
    PROVE  Guarded
<1> DEFINE places == {"r.session", "l.check", "w.create", "w.bye", "r.bye", "r.delete"}
<1>1. tab[t].codes => tab[t].at \in {"w.ready", "w.refresh"}
  BY DEF AInv, CodesHidden
<1>2. places \subseteq Waiting \cup Resting
  BY DEF Waiting
<1>3. ASSUME NEW at \in places, ~tab[t].codes, Act(t, Moved(tab[t], at)) PROVE Guarded
  BY <1>2, <1>3, MoveGuarded
<1>4. CASE Retry(t)
  BY <1>1, <1>3, <1>4 DEF Retry
<1>5. CASE CreateClassroom(t)
  BY <1>3, <1>5 DEF CreateClassroom
<1>6. CASE Logout(t)
  BY <1>1, <1>3, <1>6 DEF Logout, Hydrated
<1>7. CASE DeleteRoom(t)
  BY <1>1, <1>3, <1>7 DEF DeleteRoom
<1> QED
  BY <1>4, <1>5, <1>6, <1>7

\* The teacher asks for another link.
LEMMA SubmitTeacherGuarded ==
    ASSUME AInv, NEW t \in Tabs, SubmitTeacher(t) PROVE Guarded
<1>1. /\ link' = "sent" /\ moves' = moves + 1 /\ moves' \in 0..MaxMoves /\ moves \in Nat /\ outside \in Nat
      /\ UNCHANGED <<sessions, room, deletion, jar, tab, sock, net, outside, losses>>
      /\ Len(sessions) \in Nat
  BY LenProperties, AccessAssumption DEF SubmitTeacher, AInv, ServerTyped
<1>2. NetKnown' /\ Disclosed
  <2>1. /\ Len(sessions) <= Len(sessions') /\ moves' \in Nat /\ outside' \in Nat /\ Len(sessions') \in Nat
        /\ Len(sessions') + (moves + outside) <= Len(sessions) + (moves' + outside')
    BY <1>1
  <2> QED
    BY <1>1, <2>1, NetKept
<1>3. RestKnown' /\ Entered
  BY <1>1 DEF AInv, RestKnown, ServerTyped, SeatsGuarded, BrowserTyped, CodesHidden, Entered
<1> QED
  BY <1>2, <1>3 DEF Guarded, AInv, RestKnown

\* The teacher has saved the codes.
LEMMA ConfirmSavedGuarded ==
    ASSUME AInv, NEW t \in Tabs, ConfirmSaved(t) PROVE Guarded
<1>1. /\ moves' = moves + 1 /\ moves' \in 0..MaxMoves /\ moves \in Nat /\ outside \in Nat
      /\ UNCHANGED <<sessions, link, room, deletion, jar, sock, net, outside, losses>>
      /\ Len(sessions) \in Nat /\ tab' = [tab EXCEPT ![t].codes = FALSE]
      /\ tab \in [Tabs -> Page] /\ sock \in [Tabs -> Socket]
  BY LenProperties, AccessAssumption DEF ConfirmSaved, AInv, ServerTyped, BrowserTyped, server
<1>2. [tab[t] EXCEPT !.codes = FALSE] \in Page /\ [tab[t] EXCEPT !.codes = FALSE].at = tab[t].at
  BY <1>1 DEF Page
<1>3. /\ tab' \in [Tabs -> Page] /\ \A u \in Tabs : tab'[u].at = tab[u].at
      /\ \A u \in Tabs : u # t => tab'[u] = tab[u]
      /\ tab'[t].codes = FALSE
  <2>1. tab' = [tab EXCEPT ![t] = [tab[t] EXCEPT !.codes = FALSE]] /\ tab[t] \in Page
    BY <1>1
  <2>2. [tab[t] EXCEPT !.codes = FALSE].codes = FALSE
    BY <2>1 DEF Page
  <2> QED
    BY <1>1, <1>2, <2>1, <2>2
<1>4. NetKnown' /\ Disclosed
  <2>1. /\ Len(sessions) <= Len(sessions') /\ moves' \in Nat /\ outside' \in Nat /\ Len(sessions') \in Nat
        /\ Len(sessions') + (moves + outside) <= Len(sessions) + (moves' + outside')
    BY <1>1
  <2> QED
    BY <1>1, <1>3, <2>1, NetKept
<1>5. CodesHidden'
  BY <1>3 DEF AInv, CodesHidden
<1>6. BrowserTyped' /\ ServerTyped' /\ SeatsGuarded'
  BY <1>1, <1>3 DEF AInv, BrowserTyped, ServerTyped, SeatsGuarded
<1>7. Entered
  BY <1>3 DEF Entered
<1> QED
  BY <1>4, <1>5, <1>6, <1>7 DEF Guarded, AInv

-----------------------------------------------------------------------------
(* The theorem about access.                                               *)

\* The invariant holds at first.
LEMMA AccessStarts == AccessInit => AInv
<1> SUFFICES ASSUME AccessInit PROVE AInv
  OBVIOUS
<1> DEFINE row == [who |-> "teacher", live |-> TRUE]
<1>1. row \in Session
  BY DEF Session
<1>2. sessions = <<row>>
  BY DEF AccessInit
<1> HIDE DEF row
<1>3. sessions \in Seq(Session) /\ Len(sessions) = 1 /\ DOMAIN sessions = {1} /\ sessions[1] = row
  BY <1>1, <1>2
<1>4. ServerTyped
  BY <1>3, AccessAssumption DEF AccessInit, ServerTyped
<1>5. SeatsGuarded
  BY <1>3 DEF SeatsGuarded, AccessInit
<1>6. BrowserTyped /\ CodesHidden
  <2>1. \A u \in Tabs : /\ tab[u] \in Page /\ tab[u].codes = FALSE
                        /\ sock[u] \in Socket /\ sock[u].st = "none"
    BY AccessAssumption
       DEF AccessInit, Page, Socket, Tokens, MaxSessions, Waiting, Resting, People
  <2>2. tab = [u \in Tabs |-> tab[u]] /\ sock = [u \in Tabs |-> sock[u]] /\ jar = 1
    BY DEF AccessInit
  <2> QED
    BY <2>1, <2>2, <1>3 DEF BrowserTyped, CodesHidden
<1>7. NetKnown
  <2>1. SignIns(net) = {} /\ net = {} /\ moves = 0 /\ outside = 0
    BY DEF AccessInit, SignIns
  <2>2. SignInsCounted
    BY <2>1, <1>3, FS_EmptySet DEF SignInsCounted
  <2>3. \A u \in Tabs : tab[u].at \notin Waiting
    BY DEF AccessInit, Waiting
  <2> QED
    BY <2>1, <2>2, <2>3 DEF NetKnown, Waits, RequestsKnown
<1> QED
  BY <1>4, <1>5, <1>6, <1>7 DEF AInv

\* Every step keeps the invariant and does what the two action properties say.
LEMMA AccessSteps == AInv /\ [AccessNext]_accessVars => Guarded
<1> SUFFICES ASSUME AInv, [AccessNext]_accessVars PROVE Guarded
  OBVIOUS
<1>1. ASSUME NEW r \in net, Serve(r) \/ StoreCookie(r) \/ Receive(r) \/ ReceiveLate(r) \/ Lose(r)
      PROVE  Guarded
  BY <1>1, ServeGuarded, StoreCookieGuarded, ReceiveGuarded, ReceiveLateGuarded, LoseGuarded
<1>2. ASSUME NEW t \in Tabs, SocketStep(t) \/ Reconnect(t) PROVE Guarded
  BY <1>2, SocketStepGuarded, OnCloseGuarded DEF SocketStep
<1>3. ASSUME NEW t \in Tabs, UserActs(t) PROVE Guarded
  BY <1>3, SubmitStudentGuarded, SubmitTeacherGuarded, OpenLinkGuarded, VisitGuarded, MovesGuarded,
     ConfirmSavedGuarded DEF UserActs
<1>4. CASE UNCHANGED accessVars
  <2>1. /\ UNCHANGED <<sessions, link, room, deletion, jar, tab, sock, net, moves, outside, losses>>
    BY <1>4 DEF accessVars, server, bounds
  <2>2. AInv'
    BY <2>1 DEF AInv, ServerTyped, SeatsGuarded, BrowserTyped, CodesHidden, NetKnown, Waits,
                RequestsKnown, SignInsCounted
  <2> QED
    BY <2>1, <2>2 DEF Guarded, Disclosed, Entered
<1> QED
  BY <1>1, <1>2, <1>3, <1>4, JoinElsewhereGuarded, ExpireGuarded, ChangeStatusGuarded,
     SweepRetentionGuarded, FinishDeletionGuarded DEF AccessNext

\* Sessions, codes and room data stay with whom they belong to, for any number of seats,
\* tabs, moves and losses: a seat has one live session and none once the room is being
\* deleted, room data leaves the server only before that and only to a live session, a
\* student enters as the seat that was typed in, and the codes of a new room never outlive
\* the teacher's stay in the workspace (SessionService, joinRoom, requestDeletion, the
\* access gates of the pages).
THEOREM AccessIsGuarded == AccessSpec => AccessGuarded
<1>1. AccessSpec => []AInv
  BY AccessStarts, AccessSteps, PTL DEF AccessSpec, Guarded
<1>2. AInv => AccessTypeOK /\ SeatsGuarded /\ CodesHidden
  BY AccessTypes DEF AInv
<1>3. AInv /\ [AccessNext]_accessVars => [Disclosed /\ Entered]_accessVars
  BY AccessSteps DEF Guarded
<1>4. AccessSpec => [](AccessTypeOK /\ SeatsGuarded /\ CodesHidden)
  BY <1>1, <1>2, PTL
<1>5. AccessSpec => [][Disclosed /\ Entered]_accessVars
  BY <1>1, <1>3, PTL DEF AccessSpec
<1>6. [][Disclosed /\ Entered]_accessVars => NothingServedAfterDeletion /\ EntersAsSeat
  <2>1. [Disclosed /\ Entered]_accessVars => [Disclosed]_accessVars /\ [Entered]_accessVars
    OBVIOUS
  <2>2. [][Disclosed /\ Entered]_accessVars => [][Disclosed]_accessVars /\ [][Entered]_accessVars
    BY <2>1, PTL
  <2> QED
    BY <2>2 DEF Disclosed, Entered, NothingServedAfterDeletion, EntersAsSeat
<1> QED
  BY <1>4, <1>5, <1>6, PTL DEF AccessGuarded

-----------------------------------------------------------------------------
(* The local pilot: the inductive invariant.  Plan has 37 checks; the ones  *)
(* that make something are 1, 2, 3 (directories), 9 (the compose project),   *)
(* 31 (the children) and the gates, 24 to 30, 35 and 36.                     *)

\* A cleanup entry is registered.
Has(id) == Contains(registered, id)

HostApproved == host.bytes \in ApprovedRuntimeToolchains /\ host.busy = {}

\* The run was not interrupted before its cleanup.
Uninterrupted == aborted \notin {"preflight", "stages"}

\* A run that has not failed came through every check, uninterrupted, on an approved
\* host; only a failed one leaves a command behind.
FlowKnown ==
  /\ host \in Hosts /\ phase \in {"preflight", "stages", "cleanup", "receipt", "ended"}
  /\ step \in 1..38 /\ failed \in BOOLEAN
  /\ phase = "preflight" => step = 1
  /\ phase = "stages" => step \in 1..37
  /\ phase \in {"preflight", "stages"} => ~failed
  /\ straggler # "none" => failed
  /\ phase \in {"cleanup", "receipt"} /\ ~failed => step = 38 /\ Uninterrupted
  /\ phase \in {"stages", "cleanup", "receipt"} => HostApproved
  /\ phase # "ended" => exit = "none"
  /\ exit = "pass" => ~failed /\ step = 38 /\ Uninterrupted /\ HostApproved /\ receipt = "passed"

\* The place of a gate in Plan.
GateStep(i) == IF i <= 7 THEN 23 + i ELSE 27 + i
GateSteps == 24..30 \cup 35..36

\* A gate that is behind the run has passed, with every test of its suite.
GatesKnown ==
  /\ gates \in [Gates -> {"none", "passed", "failed"}]
  /\ ~failed => flawed = {}
  /\ \A i \in 1..9 : step > GateStep(i) => gates[GateOrder[i]] = "passed"

\* What the run has made is registered.
RegisteredKnown ==
  /\ registered \in Seq(CleanupIds)
  /\ step > 1 => Has("final-state") /\ Has("tls-material")
  /\ step > 2 => Has("runtime-material")
  /\ step > 3 => Has("disposable-worktree")
  /\ step > 9 => Has("compose-project")
  /\ step > 31 => Has("mailpit-residual") /\ Has("application-processes")

\* What the stages have made is there until the cleanup.
ResourcesKnown ==
  /\ dirs \subseteq {"tls", "material", "worktree", "registration"}
  /\ phase = "stages" =>
       /\ step > 1 => "tls" \in dirs
       /\ step > 2 => "material" \in dirs
       /\ step > 3 => "worktree" \in dirs
       /\ step > 9 => Services \subseteq project

\* Only registered entries are run, in the cleanup, and each after what it requires.
CleanupKnown ==
  /\ completed \in [CleanupIds -> {"none", "passed", "failed"}]
  /\ phase \in {"preflight", "stages"} => \A id \in CleanupIds : completed[id] = "none"
  /\ \A id \in CleanupIds : completed[id] # "none" => Has(id)
  /\ \A id \in CleanupIds : completed[id] = "passed" =>
        \A r \in RequiresIfRegistered(id) : Has(r) => completed[r] = "passed"

Guests == {"tls-material", "runtime-material", "disposable-worktree", "compose-project",
           "mailpit-residual", "application-processes"}

\* What a running child uses is there and registered, and so is what shows whose the
\* compose project and the worktree are.
InUse ==
  /\ procs \in [ChildNames -> {"none", "running", "exited", "stopped", "orphaned"}]
  /\ Running # {} => /\ \A id \in Guests : Has(id)
                     /\ {"tls", "material", "worktree"} \subseteq dirs /\ Services \subseteq project
                     /\ completed["application-processes"] # "passed"
  /\ Has("compose-project") /\ completed["compose-project"] # "passed" => "worktree" \in dirs
  /\ "registration" \in dirs => "worktree" \in dirs
  /\ \A p \in ChildNames : procs[p] = "orphaned" => p = "next"

\* What an entry that passed has shown stays so.
TakenAway ==
  /\ completed["final-state"] = "passed" =>
       \A p \in {"fastify", "next"} : procs[p] \notin {"running", "orphaned"}
  /\ completed["tls-material"] = "passed" => "tls" \notin dirs
  /\ completed["runtime-material"] = "passed" => "material" \notin dirs
  /\ completed["disposable-worktree"] = "passed" =>
       checkout = "clean" /\ (~failed => "worktree" \notin dirs /\ "registration" \notin dirs)
  /\ completed["compose-project"] = "passed" /\ ~failed => project = {} /\ mail = FALSE

\* A run that goes on to pass has cleaned up everything.
AllDone ==
  (phase = "receipt" /\ ~failed) \/ exit = "pass" => \A id \in CleanupIds : completed[id] = "passed"

PilotInv ==
  /\ FlowKnown /\ GatesKnown /\ RegisteredKnown /\ ResourcesKnown
  /\ CleanupKnown /\ InUse /\ TakenAway /\ AllDone

-----------------------------------------------------------------------------
(* Facts about the pilot's parts.                                          *)

\* The names of the children.
LEMMA ChildrenNamed == ChildNames = {"fastify", "worker", "next"}
  BY DEF ChildNames, Children

\* The length of the plan.
LEMMA PlanLength == Len(Plan) = 37
  BY DEF Plan

\* The places of the gates that need no application.
LEMMA GatePlaces ==
    ASSUME NEW s \in 1..37, NEW i \in 1..7, Plan[s] = GateOrder[i]
    PROVE  s = 23 + i
  BY DEF Plan, GateOrder

\* Different gates have different names.
LEMMA GatesDiffer ==
    ASSUME NEW i \in 1..9, NEW j \in 1..9, GateOrder[i] = GateOrder[j] PROVE i = j
  BY DEF GateOrder

\* The bytes of a host's tools.
LEMMA HostBytes == ASSUME NEW h \in Hosts PROVE h.bytes \in [Executables -> {"a", "b"}]
<1>1. ApprovedHost.bytes \in [Executables -> {"a", "b"}]
  BY DEF ApprovedHost
<1>2. CASE h \in {[ApprovedHost EXCEPT !.bytes = b] : b \in [Executables -> {"a", "b"}]}
  BY <1>2 DEF ApprovedHost
<1>3. CASE h.bytes = ApprovedHost.bytes
  BY <1>1, <1>3
<1>4. CASE h \in {[ApprovedHost EXCEPT !.busy = {p}] : p \in RequiredPorts}
  BY <1>3, <1>4 DEF ApprovedHost
<1>5. CASE h \in {[ApprovedHost EXCEPT !.chromium = c] : c \in {"unmanaged", "no-launch"}}
  BY <1>3, <1>5 DEF ApprovedHost
<1>6. CASE h \in {[ApprovedHost EXCEPT !.manifest = m] : m \in {"shape", "order", "entrypoint"}}
  BY <1>3, <1>6 DEF ApprovedHost
<1>7. CASE h \in {[ApprovedHost EXCEPT !.drift = TRUE], [ApprovedHost EXCEPT !.versions = FALSE],
                  [ApprovedHost EXCEPT !.disk = FALSE], [ApprovedHost EXCEPT !.docker = FALSE],
                  [ApprovedHost EXCEPT !.lock = FALSE], [ApprovedHost EXCEPT !.pins = FALSE]}
  BY <1>3, <1>7 DEF ApprovedHost
<1> QED
  BY <1>2, <1>3, <1>4, <1>5, <1>6, <1>7 DEF Hosts

\* A host whose tools all match one reviewed toolchain has that toolchain.
LEMMA BytesApproved ==
    ASSUME host \in Hosts, AssertRuntimeExecutableFingerprints
    PROVE  host.bytes \in ApprovedRuntimeToolchains
<1>1. PICK c \in ApprovedRuntimeToolchains : MismatchedRuntimeNames(host.bytes, c) = {}
  BY DEF AssertRuntimeExecutableFingerprints, ProbeRuntimeExecutableFingerprints
<1>2. \A x \in Executables : host.bytes[x] = c[x]
  BY <1>1 DEF MismatchedRuntimeNames
<1>3. host.bytes \in [Executables -> {"a", "b"}]
  BY HostBytes
<1>4. c \in [Executables -> {"a", "b"}]
  BY <1>1 DEF ApprovedRuntimeToolchains
<1>5. host.bytes = c
  BY <1>2, <1>3, <1>4
<1> QED
  BY <1>1, <1>5

\* A summary that lets its gate pass is one of a run in which every test passed, whichever
\* runner reported it.
LEMMA GateIsStrict ==
    ASSUME NEW g \in Gates, NEW t \in SuiteRuns(g), AssertGatePass(g, AdaptRunnerReport(g, t))
    PROVE  AllPassed(g, t)
<1> DEFINE n == ExpectedTests(g)
           s == AdaptRunnerReport(g, t)
<1>1. n \in Nat \ {0} /\ Runner(g) \in {"vitest", "python-unittest", "playwright", "load"}
  BY SuiteTestsAssumption DEF ExpectedTests, Runner
<1>2. /\ t \in Counts(n)
      /\ Executed(t) <= n
      /\ Runner(g) # "python-unittest" => t.surprise = 0
      /\ Runner(g) \notin {"vitest", "playwright"} => t.focus = 0
      /\ Runner(g) = "load" => t.pass + t.fail = 1
  BY DEF SuiteRuns
<1>3. /\ s.expected = n /\ s.failed = 0 /\ s.skipped = 0 /\ s.pending = 0
      /\ s.executed = s.expected /\ s.passed = s.executed
  BY DEF AssertGatePass
<1>4. Runner(g) = "load" => n = 1
  BY DEF ExpectedTests
<1>5. /\ t.pass \in 0..n /\ t.fail \in 0..1 /\ t.skip \in 0..1 /\ t.odd \in 0..1
      /\ t.surprise \in 0..1 /\ t.broken \in 0..1 /\ t.focus \in 0..1
      /\ t = [pass |-> t.pass, fail |-> t.fail, skip |-> t.skip, odd |-> t.odd,
              surprise |-> t.surprise, broken |-> t.broken, focus |-> t.focus]
  BY <1>2 DEF Counts
<1> HIDE DEF n
<1>6. /\ t.pass = n /\ t.fail = 0 /\ t.skip = 0 /\ t.odd = 0 /\ t.surprise = 0
      /\ t.broken = 0 /\ t.focus = 0
  <2>1. CASE Runner(g) = "vitest"
    <3>1. s = AdaptVitestReport(VitestReport(t))
      BY <2>1 DEF AdaptRunnerReport
    <3> HIDE DEF s
    <3> QED
      BY <1>1, <1>2, <1>3, <1>5, <2>1, <3>1 DEF AdaptVitestReport, VitestReport, Executed
  <2>2. CASE Runner(g) = "python-unittest"
    <3>1. s = AdaptPythonUnittestReport(UnittestReport(t))
      BY <2>2 DEF AdaptRunnerReport
    <3> DEFINE r == UnittestReport(t)
               wrong == r.failures + r.errors + r.unexpectedSuccesses
               others == wrong + r.skipped + r.expectedFailures
    <3>2. /\ r.testsRun = t.pass + t.fail + t.skip + t.odd + t.surprise
          /\ r.failures = t.fail /\ r.errors = t.broken /\ r.skipped = t.skip
          /\ r.expectedFailures = t.odd /\ r.unexpectedSuccesses = t.surprise
      BY DEF UnittestReport, Executed
    <3> HIDE DEF r
    <3>3. CASE others > r.testsRun
      <4>1. s = Refused
        BY <3>1, <3>3 DEF AdaptPythonUnittestReport, r
      <4>2. s.expected = 0
        BY <4>1 DEF Refused
      <4> QED
        BY <4>2, <1>1, <1>3
    <3>4. CASE ~(others > r.testsRun)
      <4>1. s = [expected |-> r.testsRun, executed |-> r.testsRun - r.skipped,
                 passed |-> r.testsRun - others, failed |-> wrong,
                 skipped |-> r.skipped, pending |-> r.expectedFailures, focused |-> r.focused]
        BY <3>1, <3>4 DEF AdaptPythonUnittestReport, r
      <4> HIDE DEF s
      <4>2. /\ s.expected = r.testsRun /\ s.failed = wrong
            /\ s.skipped = r.skipped /\ s.pending = r.expectedFailures
        BY <4>1
      <4> QED
        BY <1>1, <1>2, <1>3, <1>5, <2>2, <3>2, <4>2
    <3> QED
      BY <3>3, <3>4
  <2>3. CASE Runner(g) = "playwright"
    <3>1. s = AdaptPlaywrightReport(PlaywrightReport(t))
      BY <2>3 DEF AdaptRunnerReport
    <3> HIDE DEF s
    <3> QED
      BY <1>1, <1>2, <1>3, <1>5, <2>3, <3>1 DEF AdaptPlaywrightReport, PlaywrightReport
  <2>4. CASE Runner(g) = "load"
    <3>1. s = AdaptLoadReport(LoadReport(t))
      BY <2>4 DEF AdaptRunnerReport
    <3>2. PICK b \in BOOLEAN : b = (t.fail + t.broken = 0)
      OBVIOUS
    <3>3. s.failed = 1 - (IF b THEN 1 ELSE 0)
      BY <3>1, <3>2 DEF AdaptLoadReport, LoadReport
    <3> HIDE DEF s
    <3>4. b = TRUE
      BY <3>3, <1>3
    <3>5. t.fail + t.broken = 0
      BY <3>2, <3>4
    <3>6. t.pass + t.fail = 1 /\ n = 1 /\ Executed(t) <= n
      BY <1>2, <1>4, <2>4 DEF n
    <3> QED
      BY <1>2, <1>5, <2>4, <3>5, <3>6 DEF Executed
  <2> QED
    BY <1>1, <2>1, <2>2, <2>3, <2>4
<1> QED
  BY <1>5, <1>6 DEF AllPassed, n

\* Registering adds entries and loses none.
LEMMA RegisterAdds ==
    ASSUME registered \in Seq(CleanupIds), NEW ids \in Seq(CleanupIds), Register(ids)
    PROVE  /\ registered' \in Seq(CleanupIds)
           /\ \A id : Has(id)' <=> Has(id) \/ Contains(ids, id)
<1> DEFINE n == Len(registered)
           m == Len(ids)
<1>1. registered' = registered \o ids
  BY DEF Register
<1>2. n \in Nat /\ m \in Nat
  BY LenProperties
<1>3. /\ registered' \in Seq(CleanupIds) /\ Len(registered') = n + m
      /\ \A i \in 1..(n + m) : registered'[i] = IF i <= n THEN registered[i] ELSE ids[i - n]
  BY <1>1, ConcatProperties
<1>4. ASSUME NEW id, Has(id)' PROVE Has(id) \/ Contains(ids, id)
  <2>1. PICK i \in 1..(n + m) : registered'[i] = id
    BY <1>3, <1>4 DEF Has, Contains
  <2>2. CASE i <= n
    BY <1>2, <1>3, <2>1, <2>2 DEF Has, Contains
  <2>3. CASE ~(i <= n)
    <3>1. i - n \in 1..m /\ ids[i - n] = id
      BY <1>2, <1>3, <2>1, <2>3
    <3> QED
      BY <3>1 DEF Contains
  <2> QED
    BY <2>2, <2>3
<1>5. ASSUME NEW id, Has(id) PROVE Has(id)'
  <2>1. PICK i \in 1..n : registered[i] = id
    BY <1>5 DEF Has, Contains
  <2>2. i \in 1..(n + m) /\ registered'[i] = id
    BY <1>2, <1>3, <2>1
  <2> QED
    BY <1>3, <2>2 DEF Has, Contains
<1>6. ASSUME NEW id, Contains(ids, id) PROVE Has(id)'
  <2>1. PICK i \in 1..m : ids[i] = id
    BY <1>6 DEF Contains
  <2>2. i + n \in 1..(n + m) /\ ~(i + n <= n) /\ (i + n) - n = i
    BY <1>2, <2>1
  <2>3. registered'[i + n] = id
    BY <1>3, <2>1, <2>2
  <2> QED
    BY <1>3, <2>2, <2>3 DEF Has, Contains
<1> QED
  BY <1>3, <1>4, <1>5, <1>6

-----------------------------------------------------------------------------
(* The pilot's stages.                                                     *)

\* A check that passed, or failed and may have left a command behind.
Checks ==
  \/ Advance /\ straggler' = straggler /\ (step = 37 => aborted = "no")
  \/ Abandon /\ straggler' \in {"none", "compose", "write"}

\* What a check does to the flow of the run.
LEMMA FlowChecks ==
    ASSUME PilotInv, phase = "stages", Checks, UNCHANGED <<host, exit, receipt, aborted>>
    PROVE  FlowKnown' /\ step' \in {step, step + 1} /\ phase' \in {"stages", "cleanup"}
<1>1. FlowKnown /\ step \in 1..37 /\ ~failed /\ failed = FALSE /\ exit = "none" /\ straggler = "none"
  BY DEF PilotInv, FlowKnown
<1>2. CASE Advance /\ straggler' = straggler /\ (step = 37 => aborted = "no")
  <2>1. /\ step' = step + 1 /\ failed' = failed
        /\ phase' = IF step = 37 THEN "cleanup" ELSE "stages"
    BY <1>2, PlanLength DEF Advance
  <2>2. CASE step = 37
    BY <1>1, <1>2, <2>1, <2>2 DEF FlowKnown, HostApproved, Uninterrupted
  <2>3. CASE step # 37
    BY <1>1, <1>2, <2>1, <2>3 DEF FlowKnown, HostApproved, Uninterrupted
  <2> QED
    BY <2>2, <2>3
<1>3. CASE Abandon /\ straggler' \in {"none", "compose", "write"}
  <2>1. phase' = "cleanup" /\ failed' = TRUE /\ step' = step
    BY <1>3 DEF Abandon
  <2> QED
    BY <1>1, <1>3, <2>1 DEF FlowKnown, HostApproved
<1> QED
  BY <1>2, <1>3 DEF Checks

\* No cleanup entry has run before the cleanup.
LEMMA CleanupWaits ==
    ASSUME PilotInv, phase = "stages", phase' \in {"stages", "cleanup"}, UNCHANGED <<completed, exit>>
    PROVE  CleanupKnown' /\ TakenAway' /\ AllDone'
<1>1. /\ completed \in [CleanupIds -> {"none", "passed", "failed"}]
      /\ \A id \in CleanupIds : completed[id] = "none"
      /\ exit = "none"
  BY DEF PilotInv, CleanupKnown, FlowKnown
<1>2. CleanupKnown'
  BY <1>1 DEF CleanupKnown
<1>3. TakenAway'
  BY <1>1 DEF TakenAway, CleanupIds
<1>4. AllDone'
  BY <1>1 DEF AllDone
<1> QED
  BY <1>2, <1>3, <1>4

\* Gates stay as they are when the check is not one.
LEMMA GatesKept ==
    ASSUME PilotInv, phase = "stages", step \notin GateSteps, step' \in {step, step + 1},
           failed' \in BOOLEAN, UNCHANGED <<gates, flawed>>
    PROVE  GatesKnown'
<1>1. /\ gates \in [Gates -> {"none", "passed", "failed"}] /\ flawed = {} /\ step \in 1..37
      /\ \A i \in 1..9 : step > GateStep(i) => gates[GateOrder[i]] = "passed"
  BY DEF PilotInv, GatesKnown, FlowKnown
<1>2. \A i \in 1..9 : step' > GateStep(i) => step > GateStep(i)
  BY <1>1 DEF GateStep, GateSteps
<1> QED
  BY <1>1, <1>2 DEF GatesKnown

\* A check that makes nothing.
LEMMA QuietCheck ==
    ASSUME PilotInv, phase = "stages", Checks, step \notin {1, 2, 3, 9, 31} \cup GateSteps,
           UNCHANGED <<host, exit, receipt, aborted, dirs, project, procs, gates, flawed, registered,
                       completed>>
    PROVE  PilotInv'
<1>1. FlowKnown' /\ step' \in {step, step + 1} /\ phase' \in {"stages", "cleanup"}
  BY FlowChecks
<1>2. CleanupKnown' /\ TakenAway' /\ AllDone'
  BY <1>1, CleanupWaits
<1>3. GatesKnown'
  BY <1>1, GatesKept DEF FlowKnown
<1>4. step \in 1..37
  BY DEF PilotInv, FlowKnown
<1>5. RegisteredKnown'
  BY <1>1, <1>4 DEF PilotInv, RegisteredKnown, Has
<1>6. ResourcesKnown'
  BY <1>1, <1>4 DEF PilotInv, ResourcesKnown
<1>7. InUse'
  BY DEF PilotInv, InUse, Has, Running
<1> QED
  BY <1>1, <1>2, <1>3, <1>5, <1>6, <1>7 DEF PilotInv

\* The checks that make nothing, by name.
QuietNames ==
  {"pnpm-frozen-lock", "python-venv", "python-hash-lock", "compose-project-absent", "compose-config",
   "compose-ownership", "postgres-18", "mailpit-ready", "layout", "root-scripts", "python-lock",
   "demo-baseline", "contract-generation", "generated-drift", "typescript", "production-build",
   "worker-compile", "worker-import", "migration", "fastify-ready", "next-https-ready",
   "application-ready", "closed-summary-set"}

\* Their places, and that only the last of them ends the plan.
LEMMA QuietPlaces ==
    ASSUME PilotInv, NEW c \in QuietNames, At(c)
    PROVE  /\ phase = "stages" /\ step \notin {1, 2, 3, 9, 31} \cup GateSteps
           /\ step = 37 => c = "closed-summary-set"
<1>1. phase = "stages" /\ Plan[step] = c /\ step \in 1..37
  BY DEF At, PilotInv, FlowKnown
<1> QED
  BY <1>1 DEF Plan, QuietNames, GateSteps

\* A command that ended, failed or was aborted.
LEMMA EndedChecks ==
    ASSUME PilotInv, phase = "stages", NEW then \in {"none", "compose", "write"}, Ended(then)
    PROVE  Checks
<1>1. straggler = "none"
  BY DEF PilotInv, FlowKnown
<1> QED
  BY <1>1 DEF Ended, Checks

\* A check that has failed.
LEMMA AbandonChecks ==
    ASSUME PilotInv, phase = "stages", Abandon, UNCHANGED straggler PROVE Checks
  BY DEF PilotInv, FlowKnown, Checks

\* A check that makes nothing leaves everything but the flow alone.
LEMMA QuietGuarded ==
    ASSUME PilotInv, NEW c \in QuietNames, At(c), Checks,
           UNCHANGED <<host, exit, receipt, aborted, dirs, project, procs, gates, flawed, registered,
                       completed>>
    PROVE  PilotInv'
  BY QuietPlaces, QuietCheck

\* A command.
LEMMA CommandGuarded ==
    ASSUME PilotInv, NEW c \in QuietNames, Command(c) PROVE PilotInv'
<1>1. /\ At(c) /\ Ended("write") /\ phase = "stages"
      /\ UNCHANGED <<host, exit, receipt, aborted, dirs, project, procs, gates, flawed, registered,
                     completed>>
  BY DEF Command, At, worldVars, ownedVars, gateVars, cleanupVars, endVars
<1>2. Checks
  BY <1>1, EndedChecks
<1> QED
  BY <1>1, <1>2, QuietGuarded

\* A check that asks a question first.
LEMMA QuestionGuarded ==
    ASSUME PilotInv, NEW c \in QuietNames, At(c),
           Ended("none") \/ Ended("write") \/ (Abandon /\ UNCHANGED straggler)
             \/ (c # "closed-summary-set" /\ Advance /\ UNCHANGED straggler),
           UNCHANGED <<host, exit, receipt, aborted, dirs, project, procs, gates, flawed, registered,
                       completed>>
    PROVE  PilotInv'
<1>1. phase = "stages" /\ (step = 37 => c = "closed-summary-set")
  BY QuietPlaces
<1>2. CASE Ended("none") \/ Ended("write")
  BY <1>1, <1>2, EndedChecks, QuietGuarded
<1>3. CASE Abandon /\ UNCHANGED straggler
  BY <1>1, <1>3, AbandonChecks, QuietGuarded
<1>4. CASE c # "closed-summary-set" /\ Advance /\ UNCHANGED straggler
  <2>1. Checks
    BY <1>1, <1>4 DEF Checks
  <2> QED
    BY <2>1, QuietGuarded
<1> QED
  BY <1>2, <1>3, <1>4

\* The quiet checks of the stages.
LEMMA QuietStages ==
    ASSUME PilotInv,
           \/ FrozenDependencies \/ ComposeProjectAbsent \/ ComposeConfig \/ ComposeOwnership
           \/ Postgres18 \/ MailpitReady \/ RepositoryFoundations \/ ProductionBuilds
           \/ Migration \/ WaitForReadiness \/ ApplicationReady \/ ManifestVerification
    PROVE  PilotInv'
<1>1. CASE FrozenDependencies \/ ComposeConfig \/ Postgres18 \/ Migration
  BY <1>1, CommandGuarded DEF FrozenDependencies, ComposeConfig, Postgres18, Migration, QuietNames
<1>2. CASE \E i \in 1 .. 4 : Command(Foundations[i])
  <2>1. \A i \in 1..4 : Foundations[i] \in QuietNames
    BY DEF Foundations, QuietNames
  <2> QED
    BY <1>2, <2>1, CommandGuarded
<1>3. CASE ProductionBuilds
  <2>1. \A i \in DOMAIN Builds : Builds[i] \in QuietNames
    BY DEF Builds, QuietNames
  <2> QED
    BY <1>3, <2>1, CommandGuarded DEF ProductionBuilds
<1>4. CASE ComposeProjectAbsent
  <2>1. /\ At("compose-project-absent") /\ "compose-project-absent" \in QuietNames
        /\ Ended("none") \/ (Abandon /\ UNCHANGED straggler)
        /\ UNCHANGED <<host, exit, receipt, aborted, dirs, project, procs, gates, flawed, registered,
                       completed>>
    BY <1>4 DEF ComposeProjectAbsent, QuietNames, worldVars, ownedVars, gateVars, cleanupVars, endVars
  <2> QED
    BY <2>1, QuestionGuarded
<1>5. CASE ComposeOwnership
  <2>1. /\ At("compose-ownership") /\ "compose-ownership" \in QuietNames
        /\ Ended("none") \/ (Abandon /\ UNCHANGED straggler)
        /\ UNCHANGED <<host, exit, receipt, aborted, dirs, project, procs, gates, flawed, registered,
                       completed>>
    BY <1>5 DEF ComposeOwnership, QuietNames, worldVars, ownedVars, gateVars, cleanupVars, endVars
  <2> QED
    BY <2>1, QuestionGuarded
<1>6. CASE MailpitReady
  <2>1. /\ At("mailpit-ready") /\ "mailpit-ready" \in QuietNames /\ UNCHANGED straggler
        /\ Advance \/ Abandon
        /\ UNCHANGED <<host, exit, receipt, aborted, dirs, project, procs, gates, flawed, registered,
                       completed>>
    BY <1>6 DEF MailpitReady, QuietNames, worldVars, ownedVars, gateVars, cleanupVars, endVars, signalVars
  <2> QED
    BY <2>1, QuestionGuarded
<1>7. CASE ContractGeneration
  <2>1. /\ At("contract-generation") /\ "contract-generation" \in QuietNames /\ Ended("write")
        /\ UNCHANGED <<host, exit, receipt, aborted, dirs, project, procs, gates, flawed, registered,
                       completed>>
    BY <1>7 DEF ContractGeneration, QuietNames, worldVars, gateVars, cleanupVars, endVars
  <2> QED
    BY <2>1, QuestionGuarded
<1>8. CASE GeneratedDrift
  <2>1. /\ At("generated-drift") /\ "generated-drift" \in QuietNames
        /\ Ended("none") \/ (Abandon /\ UNCHANGED straggler)
        /\ UNCHANGED <<host, exit, receipt, aborted, dirs, project, procs, gates, flawed, registered,
                       completed>>
    BY <1>8 DEF GeneratedDrift, QuietNames, worldVars, ownedVars, gateVars, cleanupVars, endVars
  <2> QED
    BY <2>1, QuestionGuarded
<1>9. CASE WaitForReadiness \/ ApplicationReady
  <2>1. \E c \in {"fastify-ready", "next-https-ready", "application-ready"} : At(c)
    BY <1>9 DEF WaitForReadiness, ApplicationReady
  <2>2. /\ UNCHANGED straggler /\ (Advance \/ Abandon)
        /\ UNCHANGED <<host, exit, receipt, aborted, dirs, project, procs, gates, flawed, registered,
                       completed>>
    BY <1>9 DEF WaitForReadiness, ApplicationReady, worldVars, ownedVars, gateVars, cleanupVars,
                endVars, signalVars
  <2>3. PICK c \in QuietNames : At(c) /\ c # "closed-summary-set"
    BY <2>1 DEF QuietNames
  <2> QED
    BY <2>2, <2>3, QuestionGuarded
<1>10. CASE ManifestVerification
  <2>1. /\ At("closed-summary-set") /\ "closed-summary-set" \in QuietNames
        /\ Ended("none") \/ (Abandon /\ UNCHANGED straggler)
        /\ UNCHANGED <<host, exit, receipt, aborted, dirs, project, procs, gates, flawed, registered,
                       completed>>
    BY <1>10 DEF ManifestVerification, QuietNames, worldVars, ownedVars, gateVars, cleanupVars, endVars
  <2> QED
    BY <2>1, QuestionGuarded
<1> QED
  BY <1>1, <1>2, <1>3, <1>4, <1>5, <1>6, <1>7, <1>8, <1>9, <1>10 DEF RepositoryFoundations

\* What short lists of entries contain.
LEMMA ContainsShort ==
    ASSUME NEW a, NEW b, NEW id
    PROVE  /\ ~Contains(<<>>, id) /\ (Contains(<<a>>, id) <=> id = a)
           /\ (Contains(<<a, b>>, id) <=> id = a \/ id = b)
<1>1. ~Contains(<<>>, id)
  BY DEF Contains
<1>2. Contains(<<a>>, id) <=> id = a
  BY DEF Contains
<1>3. Contains(<<a, b>>, id) <=> id = a \/ id = b
  <2> DEFINE s == <<a, b>>
  <2>1. Len(s) = 2 /\ s[1] = a /\ s[2] = b
    OBVIOUS
  <2> HIDE DEF s
  <2>2. 1..2 = {1, 2}
    OBVIOUS
  <2>3. Contains(s, id) <=> id = a \/ id = b
    BY <2>1, <2>2 DEF Contains
  <2> QED
    BY <2>3 DEF s
<1> QED
  BY <1>1, <1>2, <1>3

\* What a running child uses stays when a stage adds to the run.
LEMMA MadeKeeps ==
    ASSUME InUse, dirs \subseteq dirs', project \subseteq project', UNCHANGED <<procs, completed>>,
           \A id : Has(id) => Has(id)', Has("compose-project")' => Has("compose-project"),
           "registration" \in dirs' => "worktree" \in dirs'
    PROVE  InUse'
<1>1. Running' = Running
  BY DEF Running
<1> QED
  BY <1>1 DEF InUse

\* Joining short lists.
LEMMA JoinedShort ==
    ASSUME NEW a, NEW b PROVE <<a>> \o <<b>> = <<a, b>> /\ <<>> \o <<b>> = <<b>>
<1> DEFINE S == {a, b}
           c == <<a>> \o <<b>>
<1>1. <<a>> \in Seq(S) /\ <<b>> \in Seq(S) /\ <<a, b>> \in Seq(S)
  OBVIOUS
<1>2. c \in Seq(S) /\ Len(c) = 2 /\ c[1] = a /\ c[2] = b
  BY <1>1, ConcatProperties
<1>3. c = <<a, b>>
  <2>1. Len(<<a, b>>) = 2 /\ <<a, b>>[1] = a /\ <<a, b>>[2] = b
    OBVIOUS
  <2> DEFINE e == <<a, b>>
  <2> HIDE DEF c, e
  <2>2. \A i \in 1..2 : c[i] = e[i]
    BY <1>2, <2>1 DEF e
  <2> QED
    BY <1>1, <1>2, <2>1, <2>2, SeqEqual DEF e
<1>4. <<>> \o <<b>> = <<b>>
  BY <1>1, ConcatEmptySeq
<1> QED
  BY <1>3, <1>4

\* A directory is made, or the stage fails and may leave a part of it.
LEMMA MakeDirectoryGuarded ==
    ASSUME PilotInv, phase = "stages", step \in {1, 2, 3},
           NEW made \in SUBSET {"tls", "material", "worktree", "registration"},
           NEW left \in SUBSET SUBSET {"tls", "material", "worktree", "registration"},
           "registration" \in made => "worktree" \in made,
           \A d \in left : "registration" \in d => "worktree" \in d,
           NEW first \in Seq(CleanupIds), NEW id, MakeDirectory(made, left, first, id),
           NEW all \in Seq(CleanupIds), all = first \o <<id>>,
           ~Contains(first, "compose-project"), ~Contains(all, "compose-project"), Contains(all, id),
           step = 1 => "tls" \in made /\ id = "tls-material" /\ Contains(all, "final-state"),
           step = 2 => "material" \in made /\ id = "runtime-material",
           step = 3 => "worktree" \in made /\ id = "disposable-worktree"
    PROVE  PilotInv'
<1>1. /\ UNCHANGED <<host, exit, receipt, aborted, straggler, project, procs, gates, flawed, completed>>
      /\ Advance \/ Abandon
  BY DEF MakeDirectory, worldVars, gateVars, endVars, signalVars
<1>2. Checks
  BY <1>1, AbandonChecks DEF Checks
<1>3. FlowKnown' /\ step' \in {step, step + 1} /\ phase' \in {"stages", "cleanup"}
  BY <1>1, <1>2, FlowChecks
<1>4. CleanupKnown' /\ TakenAway' /\ AllDone'
  BY <1>1, <1>3, CleanupWaits
<1>5. GatesKnown'
  BY <1>1, <1>3, GatesKept DEF FlowKnown, GateSteps
<1>6. /\ registered \in Seq(CleanupIds) /\ dirs \subseteq {"tls", "material", "worktree", "registration"}
      /\ "registration" \in dirs => "worktree" \in dirs
      /\ RegisteredKnown /\ ResourcesKnown /\ InUse
  BY DEF PilotInv, RegisteredKnown, ResourcesKnown, InUse
<1>7. CASE dirs' = dirs \cup made /\ Register(all) /\ Advance
  <2>1. registered' \in Seq(CleanupIds) /\ \A x : Has(x)' <=> Has(x) \/ Contains(all, x)
    BY <1>6, <1>7, RegisterAdds
  <2>2. step' = step + 1
    BY <1>7 DEF Advance
  <2>3. RegisteredKnown'
    <3>1. CASE step = 1
      BY <1>6, <2>1, <2>2, <3>1 DEF RegisteredKnown
    <3>2. CASE step = 2
      BY <1>6, <2>1, <2>2, <3>2 DEF RegisteredKnown
    <3>3. CASE step = 3
      BY <1>6, <2>1, <2>2, <3>3 DEF RegisteredKnown
    <3> QED
      BY <3>1, <3>2, <3>3
  <2>4. ResourcesKnown'
    <3>1. dirs' \subseteq {"tls", "material", "worktree", "registration"}
      BY <1>6, <1>7
    <3>2. CASE step = 1
      BY <1>6, <1>7, <2>2, <3>1, <3>2 DEF ResourcesKnown
    <3>3. CASE step = 2
      BY <1>6, <1>7, <2>2, <3>1, <3>3 DEF ResourcesKnown
    <3>4. CASE step = 3
      BY <1>6, <1>7, <2>2, <3>1, <3>4 DEF ResourcesKnown
    <3> QED
      BY <3>2, <3>3, <3>4
  <2>5. InUse'
    <3>1. dirs \subseteq dirs' /\ ("registration" \in dirs' => "worktree" \in dirs')
      BY <1>6, <1>7
    <3> QED
      BY <1>1, <1>6, <2>1, <3>1, MadeKeeps
  <2> QED
    BY <1>3, <1>4, <1>5, <2>3, <2>4, <2>5 DEF PilotInv
<1>8. CASE \E d \in {{}} \cup left : dirs' = dirs \cup d /\ Register(first) /\ Abandon
  <2>1. PICK d \in {{}} \cup left : dirs' = dirs \cup d /\ Register(first) /\ Abandon
    BY <1>8
  <2>2. registered' \in Seq(CleanupIds) /\ \A x : Has(x)' <=> Has(x) \/ Contains(first, x)
    BY <1>6, <2>1, RegisterAdds
  <2>3. step' = step /\ phase' = "cleanup"
    BY <2>1 DEF Abandon
  <2>4. RegisteredKnown'
    BY <1>6, <2>2, <2>3 DEF RegisteredKnown
  <2>5. ResourcesKnown'
    <3>1. dirs' \subseteq {"tls", "material", "worktree", "registration"}
      BY <1>6, <2>1
    <3> QED
      BY <2>3, <3>1 DEF ResourcesKnown
  <2>6. InUse'
    <3>1. dirs \subseteq dirs' /\ ("registration" \in dirs' => "worktree" \in dirs')
      BY <1>6, <2>1
    <3> QED
      BY <1>1, <1>6, <2>2, <3>1, MadeKeeps
  <2> QED
    BY <1>3, <1>4, <1>5, <2>4, <2>5, <2>6 DEF PilotInv
<1> QED
  BY <1>7, <1>8 DEF MakeDirectory

\* The certificate.
LEMMA TlsGuarded == ASSUME PilotInv, CreateLocalTlsMaterial PROVE PilotInv'
<1> DEFINE first == <<"final-state">>
           all == <<"final-state", "tls-material">>
<1>1. phase = "stages" /\ step = 1
  <2>1. phase = "stages" /\ Plan[step] = "tls-material" /\ step \in 1..37
    BY DEF CreateLocalTlsMaterial, At, PilotInv, FlowKnown
  <2> QED
    BY <2>1 DEF Plan
<1>2. /\ first \in Seq(CleanupIds) /\ all \in Seq(CleanupIds)
      /\ all = first \o <<"tls-material">>
  BY JoinedShort DEF CleanupIds
<1>3. /\ ~Contains(first, "compose-project") /\ ~Contains(all, "compose-project")
      /\ Contains(all, "tls-material") /\ Contains(all, "final-state")
  BY ContainsShort
<1>4. MakeDirectory({"tls"}, {{"tls"}}, <<"final-state">>, "tls-material")
  BY DEF CreateLocalTlsMaterial
<1> DEFINE made == {"tls"}
           left == {{"tls"}}
<1>5. /\ made \in SUBSET {"tls", "material", "worktree", "registration"}
      /\ left \in SUBSET SUBSET {"tls", "material", "worktree", "registration"}
      /\ "tls" \in made /\ "registration" \notin made /\ \A d \in left : "registration" \notin d
  OBVIOUS
<1>6. MakeDirectory(made, left, first, "tls-material")
  BY <1>4
<1>7. step \in {1, 2, 3} /\ step # 2 /\ step # 3
  BY <1>1
<1> HIDE DEF all, made, left, first
<1> QED
  BY <1>1, <1>2, <1>3, <1>5, <1>6, <1>7, MakeDirectoryGuarded, Zenon

\* The secrets.
LEMMA MaterialGuarded == ASSUME PilotInv, CreateRuntimeMaterial PROVE PilotInv'
<1> DEFINE first == <<>>
           all == <<"runtime-material">>
<1>1. phase = "stages" /\ step = 2
  <2>1. phase = "stages" /\ Plan[step] = "runtime-material" /\ step \in 1..37
    BY DEF CreateRuntimeMaterial, At, PilotInv, FlowKnown
  <2> QED
    BY <2>1 DEF Plan
<1>2. first \in Seq(CleanupIds) /\ all \in Seq(CleanupIds) /\ all = first \o <<"runtime-material">>
  BY JoinedShort DEF CleanupIds
<1>3. /\ ~Contains(first, "compose-project") /\ ~Contains(all, "compose-project")
      /\ Contains(all, "runtime-material")
  BY ContainsShort
<1>4. MakeDirectory({"material"}, {{"material"}}, <<>>, "runtime-material")
  BY DEF CreateRuntimeMaterial
<1> DEFINE made == {"material"}
           left == {{"material"}}
<1>5. /\ made \in SUBSET {"tls", "material", "worktree", "registration"}
      /\ left \in SUBSET SUBSET {"tls", "material", "worktree", "registration"}
      /\ "material" \in made /\ "registration" \notin made /\ \A d \in left : "registration" \notin d
  OBVIOUS
<1>6. MakeDirectory(made, left, first, "runtime-material")
  BY <1>4
<1>7. step \in {1, 2, 3} /\ step # 1 /\ step # 3
  BY <1>1
<1> HIDE DEF all, made, left, first
<1> QED
  BY <1>1, <1>2, <1>3, <1>5, <1>6, <1>7, MakeDirectoryGuarded, Zenon

\* A check that makes something, and fails before it makes any of it.
LEMMA EarlyFailure ==
    ASSUME PilotInv, phase = "stages", Abandon, straggler' \in {"none", "compose", "write"},
           UNCHANGED <<host, exit, receipt, aborted, dirs, project, procs, gates, flawed, registered,
                       completed>>
    PROVE  PilotInv'
<1>1. Checks
  BY DEF Checks
<1>2. FlowKnown' /\ step' = step /\ phase' = "cleanup"
  BY <1>1, FlowChecks DEF Abandon
<1>3. CleanupKnown' /\ TakenAway' /\ AllDone'
  BY <1>2, CleanupWaits
<1>4. GatesKnown' /\ RegisteredKnown' /\ ResourcesKnown' /\ InUse'
  <2>1. failed' \in BOOLEAN /\ flawed = {}
    BY <1>2 DEF FlowKnown, PilotInv, GatesKnown
  <2>2. GatesKnown'
    BY <1>2, <2>1 DEF PilotInv, GatesKnown
  <2>3. RegisteredKnown' /\ ResourcesKnown'
    BY <1>2 DEF PilotInv, RegisteredKnown, ResourcesKnown, Has
  <2>4. InUse'
    BY DEF PilotInv, InUse, Has, Running
  <2> QED
    BY <2>2, <2>3, <2>4
<1> QED
  BY <1>2, <1>3, <1>4 DEF PilotInv

\* The worktree.
LEMMA WorktreeGuarded == ASSUME PilotInv, CreateDetachedPilotWorktree PROVE PilotInv'
<1> DEFINE first == <<>>
           all == <<"disposable-worktree">>
           made == {"worktree", "registration"}
           left == {{"worktree"}, {"worktree", "registration"}}
<1>1. phase = "stages" /\ step = 3
  <2>1. phase = "stages" /\ Plan[step] = "detached-worktree" /\ step \in 1..37
    BY DEF CreateDetachedPilotWorktree, At, PilotInv, FlowKnown
  <2> QED
    BY <2>1 DEF Plan
<1>2. CASE MakeDirectory(made, left, first, "disposable-worktree")
  <2>1. first \in Seq(CleanupIds) /\ all \in Seq(CleanupIds) /\ all = first \o <<"disposable-worktree">>
    BY JoinedShort DEF CleanupIds
  <2>2. /\ ~Contains(first, "compose-project") /\ ~Contains(all, "compose-project")
        /\ Contains(all, "disposable-worktree")
    BY ContainsShort
  <2>3. /\ made \in SUBSET {"tls", "material", "worktree", "registration"}
        /\ left \in SUBSET SUBSET {"tls", "material", "worktree", "registration"}
        /\ "worktree" \in made /\ \A d \in left : "registration" \in d => "worktree" \in d
    OBVIOUS
  <2>4. step \in {1, 2, 3} /\ step # 1 /\ step # 2
    BY <1>1
  <2> HIDE DEF all, made, left, first
  <2> QED
    BY <1>1, <1>2, <2>1, <2>2, <2>3, <2>4, MakeDirectoryGuarded, Zenon
<1>3. CASE /\ Abandon
           /\ UNCHANGED <<worldVars, ownedVars, gateVars, cleanupVars, endVars, signalVars>>
  <2>1. /\ UNCHANGED <<host, exit, receipt, aborted, straggler, dirs, project, procs, gates, flawed,
                       registered, completed>>
        /\ straggler = "none"
    BY <1>1, <1>3 DEF worldVars, ownedVars, gateVars, cleanupVars, endVars, signalVars, PilotInv, FlowKnown
  <2> QED
    BY <1>1, <1>3, <2>1, EarlyFailure
<1> QED
  BY <1>2, <1>3 DEF CreateDetachedPilotWorktree

\* The compose project.
LEMMA ComposeUpGuarded == ASSUME PilotInv, ComposeUp PROVE PilotInv'
<1> DEFINE ids == <<"compose-project">>
<1>1. phase = "stages" /\ step = 9
  <2>1. phase = "stages" /\ Plan[step] = "compose-up" /\ step \in 1..37
    BY DEF ComposeUp, At, PilotInv, FlowKnown
  <2> QED
    BY <2>1 DEF Plan
<1>2. /\ Register(ids) /\ Ended("compose")
      /\ UNCHANGED <<host, exit, receipt, aborted, dirs, procs, gates, flawed, completed>>
      /\ \E made \in SUBSET Services :
            (phase' # "cleanup" => made = Services) /\ project' = project \cup made
  BY DEF ComposeUp, worldVars, gateVars, endVars
<1>3. project \subseteq project' /\ (phase' # "cleanup" => Services \subseteq project')
  BY <1>2
<1>4. Checks
  BY <1>1, <1>2, EndedChecks
<1>5. FlowKnown' /\ step' \in {step, step + 1} /\ phase' \in {"stages", "cleanup"}
  BY <1>1, <1>2, <1>4, FlowChecks
<1>6. CleanupKnown' /\ TakenAway' /\ AllDone'
  BY <1>1, <1>2, <1>5, CleanupWaits
<1>7. GatesKnown'
  BY <1>1, <1>2, <1>5, GatesKept DEF FlowKnown, GateSteps
<1>8. /\ registered \in Seq(CleanupIds) /\ RegisteredKnown /\ ResourcesKnown /\ InUse
  BY DEF PilotInv, RegisteredKnown
<1>9. ids \in Seq(CleanupIds) /\ \A x : Contains(ids, x) <=> x = "compose-project"
  <2>1. ids \in Seq(CleanupIds)
    BY DEF CleanupIds
  <2> QED
    BY <2>1, ContainsShort
<1> HIDE DEF ids
<1>10. registered' \in Seq(CleanupIds) /\ \A x : Has(x)' <=> Has(x) \/ x = "compose-project"
  BY <1>2, <1>8, <1>9, RegisterAdds
<1>11. RegisteredKnown'
  <2>1. CASE step' = 9
    BY <1>1, <1>8, <1>10, <2>1 DEF RegisteredKnown
  <2>2. CASE step' = 10
    BY <1>1, <1>8, <1>10, <2>2 DEF RegisteredKnown
  <2> QED
    BY <1>1, <1>5, <2>1, <2>2
<1>12. ResourcesKnown'
  <2>1. CASE phase' = "cleanup"
    BY <1>2, <1>8, <2>1 DEF ResourcesKnown
  <2>2. CASE phase' # "cleanup"
    BY <1>1, <1>2, <1>3, <1>5, <1>8, <2>2 DEF ResourcesKnown
  <2> QED
    BY <2>1, <2>2
<1>13. InUse'
  <2>1. "worktree" \in dirs
    BY <1>1, <1>8 DEF ResourcesKnown
  <2>2. Running' = Running
    BY <1>2 DEF Running
  <2> QED
    BY <1>2, <1>3, <1>8, <1>10, <2>1, <2>2 DEF InUse
<1> QED
  BY <1>5, <1>6, <1>7, <1>11, <1>12, <1>13 DEF PilotInv

\* A gate: it passes with every test of its suite, or the run has failed.
LEMMA GateGuarded ==
    ASSUME PilotInv, phase = "stages", NEW i \in 1..9, step = GateStep(i),
           ExecuteRequiredGate(GateOrder[i]),
           UNCHANGED <<host, exit, receipt, aborted, dirs, project, procs, registered, completed>>
    PROVE  PilotInv'
<1> DEFINE g == GateOrder[i]
<1>1. /\ gates \in [Gates -> {"none", "passed", "failed"}] /\ flawed = {} /\ step \in 1..37
      /\ \A j \in 1..9 : step > GateStep(j) => gates[GateOrder[j]] = "passed"
      /\ straggler = "none"
  BY DEF PilotInv, GatesKnown, FlowKnown
<1>2. g \in Gates /\ \A j \in 1..9 : GateOrder[j] \in Gates
  BY DEF Gates, GateOrder
<1>3. step # 37 /\ \A j \in 1..9 : step + 1 > GateStep(j) => step > GateStep(j) \/ j = i
  BY <1>1 DEF GateStep
<1> HIDE DEF g
<1>4. \/ Abandon /\ straggler' \in {"none", "compose", "write"} /\ gates' = [gates EXCEPT ![g] = "failed"]
      \/ /\ Advance /\ straggler' = straggler /\ gates' = [gates EXCEPT ![g] = "passed"]
         /\ flawed' = flawed
  <2>1. CASE /\ aborted # "no" /\ gates' = [gates EXCEPT ![g] = "failed"]
             /\ Abandon /\ straggler' \in {"none", "write"}
    BY <2>1
  <2>2. CASE /\ UNCHANGED straggler
             /\ \E t \in SuiteRuns(g) :
                  /\ flawed' = IF AllPassed(g, t) THEN flawed ELSE flawed \cup {g}
                  /\ \/ /\ AssertGatePass(g, AdaptRunnerReport(g, t))
                        /\ gates' = [gates EXCEPT ![g] = "passed"]
                        /\ Advance
                     \/ gates' = [gates EXCEPT ![g] = "failed"] /\ Abandon
    <3>1. PICK t \in SuiteRuns(g) :
             /\ flawed' = IF AllPassed(g, t) THEN flawed ELSE flawed \cup {g}
             /\ \/ /\ AssertGatePass(g, AdaptRunnerReport(g, t))
                   /\ gates' = [gates EXCEPT ![g] = "passed"]
                   /\ Advance
                \/ gates' = [gates EXCEPT ![g] = "failed"] /\ Abandon
      BY <2>2
    <3>2. CASE gates' = [gates EXCEPT ![g] = "failed"] /\ Abandon
      BY <1>1, <2>2, <3>2
    <3>3. CASE /\ AssertGatePass(g, AdaptRunnerReport(g, t))
               /\ gates' = [gates EXCEPT ![g] = "passed"] /\ Advance
      <4>1. AllPassed(g, t)
        BY <1>2, <3>3, GateIsStrict
      <4> QED
        BY <2>2, <3>1, <3>3, <4>1
    <3> QED
      BY <3>1, <3>2, <3>3
  <2> QED
    BY <2>1, <2>2 DEF ExecuteRequiredGate, g, WriteSummary
<1>5. Checks
  BY <1>3, <1>4 DEF Checks
<1>6. FlowKnown' /\ step' \in {step, step + 1} /\ phase' \in {"stages", "cleanup"}
  BY <1>5, FlowChecks
<1>7. CleanupKnown' /\ TakenAway' /\ AllDone'
  BY <1>6, CleanupWaits
<1>8. GatesKnown'
  <2>1. gates' \in [Gates -> {"none", "passed", "failed"}]
    BY <1>1, <1>4
  <2>2. CASE Abandon /\ gates' = [gates EXCEPT ![g] = "failed"]
    <3>1. step' = step /\ failed' = TRUE
      BY <2>2 DEF Abandon
    <3>2. \A j \in 1..9 : step > GateStep(j) => GateOrder[j] # g
      BY <1>1, GatesDiffer DEF g, GateStep
    <3> QED
      BY <1>1, <1>2, <2>1, <2>2, <3>1, <3>2 DEF GatesKnown
  <2>3. CASE Advance /\ gates' = [gates EXCEPT ![g] = "passed"] /\ flawed' = flawed
    <3>1. step' = step + 1
      BY <2>3 DEF Advance
    <3>2. \A j \in 1..9 : step' > GateStep(j) => gates'[GateOrder[j]] = "passed"
      BY <1>1, <1>2, <1>3, <2>3, <3>1 DEF g
    <3> QED
      BY <1>1, <2>1, <2>3, <3>2 DEF GatesKnown
  <2> QED
    BY <1>4, <2>2, <2>3
<1>9. RegisteredKnown' /\ ResourcesKnown' /\ InUse'
  <2>1. step \notin {1, 2, 3, 9, 31}
    BY DEF GateStep
  <2>2. RegisteredKnown'
    BY <1>1, <1>6, <2>1 DEF PilotInv, RegisteredKnown, Has
  <2>3. ResourcesKnown'
    BY <1>1, <1>6, <2>1 DEF PilotInv, ResourcesKnown
  <2>4. InUse'
    BY DEF PilotInv, InUse, Has, Running
  <2> QED
    BY <2>2, <2>3, <2>4
<1> QED
  BY <1>6, <1>7, <1>8, <1>9 DEF PilotInv

\* A gate against the running application.
LEMMA ApplicationGateGuarded ==
    ASSUME PilotInv, NEW i \in {8, 9}, ApplicationGate(GateOrder[i]),
           UNCHANGED <<host, exit, receipt, aborted, dirs, project, procs, registered, completed>>
    PROVE  PilotInv'
<1>1. phase = "stages" /\ Plan[step] = GateOrder[i] /\ step \in 1..37 /\ straggler = "none"
  BY DEF ApplicationGate, At, PilotInv, FlowKnown
<1>2. step = GateStep(i)
  BY <1>1 DEF Plan, GateOrder, GateStep
<1>3. CASE Abandon /\ UNCHANGED <<gateVars, straggler, checkout>>
  <2>1. UNCHANGED <<gates, flawed>> /\ straggler' = "none"
    BY <1>1, <1>3 DEF gateVars
  <2> QED
    BY <1>1, <1>3, <2>1, EarlyFailure
<1>4. CASE ExecuteRequiredGate(GateOrder[i])
  BY <1>1, <1>2, <1>4, GateGuarded
<1> QED
  BY <1>3, <1>4 DEF ApplicationGate

\* The gates.
LEMMA GatesGuarded ==
    ASSUME PilotInv, RequiredTests \/ BrowserVerification \/ PilotLoad PROVE PilotInv'
<1>1. CASE Migration
  BY <1>1, QuietStages
<1>2. CASE \E i \in 1 .. 7 :
             /\ At(GateOrder[i])
             /\ ExecuteRequiredGate(GateOrder[i])
             /\ checkout' \in {checkout, "dirty"}
             /\ UNCHANGED <<worldVars, dirs, project, mail, procs, cleanupVars, endVars, aborted>>
  <2>1. PICK i \in 1 .. 7 :
          /\ At(GateOrder[i]) /\ ExecuteRequiredGate(GateOrder[i])
          /\ UNCHANGED <<worldVars, dirs, project, mail, procs, cleanupVars, endVars, aborted>>
    BY <1>2
  <2>2. UNCHANGED <<host, exit, receipt, aborted, dirs, project, procs, registered, completed>>
    BY <2>1 DEF worldVars, cleanupVars, endVars
  <2>3. phase = "stages" /\ Plan[step] = GateOrder[i] /\ step \in 1..37
    BY <2>1 DEF At, PilotInv, FlowKnown
  <2>4. i \in 1..9 /\ step = GateStep(i)
    BY <2>3, GatePlaces DEF GateStep
  <2> QED
    BY <2>1, <2>2, <2>3, <2>4, GateGuarded
<1>3. CASE BrowserVerification
  <2>1. /\ ApplicationGate(GateOrder[8])
        /\ UNCHANGED <<host, exit, receipt, aborted, dirs, project, procs, registered, completed>>
    BY <1>3 DEF BrowserVerification, GateOrder, worldVars, cleanupVars, endVars
  <2> QED
    BY <2>1, ApplicationGateGuarded
<1>4. CASE PilotLoad
  <2>1. /\ ApplicationGate(GateOrder[9])
        /\ UNCHANGED <<host, exit, receipt, aborted, dirs, project, procs, registered, completed>>
    BY <1>4 DEF PilotLoad, GateOrder, worldVars, cleanupVars, endVars
  <2> QED
    BY <2>1, ApplicationGateGuarded
<1> QED
  BY <1>1, <1>2, <1>3, <1>4 DEF RequiredTests

\* The children.
LEMMA ApplicationGuarded == ASSUME PilotInv, ApplicationProcesses PROVE PilotInv'
<1>1. phase = "stages" /\ step = 31
  <2>1. phase = "stages" /\ Plan[step] = "application-processes" /\ step \in 1..37
    BY DEF ApplicationProcesses, At, PilotInv, FlowKnown
  <2> QED
    BY <2>1 DEF Plan
<1> DEFINE one == <<"mailpit-residual">>
           both == <<"mailpit-residual", "application-processes">>
<1>2. /\ UNCHANGED <<host, exit, receipt, aborted, straggler, dirs, project, gates, flawed, completed>>
      /\ \/ Register(one) /\ Abandon /\ UNCHANGED procs
         \/ Register(both) /\ (Advance \/ Abandon) /\ \E n \in Nat : Start(n)
  <2>1. Len(Children) = 3
    BY DEF Children
  <2>2. /\ UNCHANGED <<host, exit, receipt, aborted, straggler, dirs, project, gates, flawed, completed>>
        /\ \/ Register(one) /\ Abandon /\ UNCHANGED procs
           \/ /\ Register(both)
              /\ \/ Start(Len(Children)) /\ Advance
                 \/ \E n \in 0 .. Len(Children) - 1 : Start(n) /\ Abandon
    BY DEF ApplicationProcesses, worldVars, gateVars, endVars, signalVars
  <2> HIDE DEF one, both
  <2>3. CASE \E n \in 0 .. Len(Children) - 1 : Start(n) /\ Abandon
    <3>1. PICK n \in 0 .. Len(Children) - 1 : Start(n) /\ Abandon
      BY <2>3
    <3>2. n \in Nat
      BY <2>1, <3>1
    <3>3. \E k \in Nat : Start(k)
      BY <3>1, <3>2
    <3> QED
      BY <2>2, <3>1, <3>3, Zenon
  <2>4. CASE Start(Len(Children)) /\ Advance
    <3>1. \E k \in Nat : Start(k)
      <4>1. Len(Children) \in Nat
        BY <2>1
      <4> HIDE DEF Start
      <4> QED
        BY <2>4, <4>1, Zenon
    <3> QED
      BY <2>2, <2>4, <3>1, Zenon
  <2> QED
    BY <2>2, <2>3, <2>4
<1>3. Checks
  BY <1>1, <1>2, AbandonChecks DEF Checks
<1>4. FlowKnown' /\ step' \in {step, step + 1} /\ phase' \in {"stages", "cleanup"}
  BY <1>1, <1>2, <1>3, FlowChecks
<1>5. CleanupKnown' /\ TakenAway' /\ AllDone'
  BY <1>1, <1>2, <1>4, CleanupWaits
<1>6. GatesKnown'
  BY <1>1, <1>2, <1>4, GatesKept DEF FlowKnown, GateSteps
<1>7. /\ registered \in Seq(CleanupIds) /\ RegisteredKnown /\ ResourcesKnown /\ InUse
      /\ completed["application-processes"] = "none"
  BY <1>1 DEF PilotInv, RegisteredKnown, CleanupKnown, CleanupIds
<1>8. /\ Has("final-state") /\ Has("tls-material") /\ Has("runtime-material")
      /\ Has("disposable-worktree") /\ Has("compose-project")
  BY <1>1, <1>7 DEF RegisteredKnown
<1>9. /\ {"tls", "material", "worktree"} \subseteq dirs /\ Services \subseteq project
      /\ dirs \subseteq {"tls", "material", "worktree", "registration"}
  BY <1>1, <1>7 DEF ResourcesKnown
<1>10. one \in Seq(CleanupIds) /\ both \in Seq(CleanupIds)
  BY DEF CleanupIds
<1>11. \A x : /\ Contains(one, x) <=> x = "mailpit-residual"
              /\ Contains(both, x) <=> x = "mailpit-residual" \/ x = "application-processes"
  BY ContainsShort
<1>12. ResourcesKnown'
  BY <1>2, <1>9 DEF ResourcesKnown
<1> HIDE DEF one, both
<1>13. CASE Register(one) /\ Abandon /\ UNCHANGED procs
  <2>1. registered' \in Seq(CleanupIds) /\ \A x : Has(x)' <=> Has(x) \/ x = "mailpit-residual"
    BY <1>7, <1>10, <1>11, <1>13, RegisterAdds
  <2>2. RegisteredKnown'
    <3>1. step' = 31
      BY <1>1, <1>13 DEF Abandon
    <3> QED
      BY <1>8, <2>1, <3>1 DEF RegisteredKnown
  <2>3. InUse'
    <3>1. "registration" \in dirs' => "worktree" \in dirs'
      BY <1>2, <1>9
    <3> QED
      BY <1>2, <1>7, <1>8, <1>13, <2>1, <3>1, MadeKeeps
  <2> QED
    BY <1>4, <1>5, <1>6, <1>12, <2>2, <2>3 DEF PilotInv
<1>14. CASE Register(both) /\ \E n \in Nat : Start(n)
  <2>1. /\ registered' \in Seq(CleanupIds)
        /\ \A x : Has(x)' <=> Has(x) \/ x = "mailpit-residual" \/ x = "application-processes"
    BY <1>7, <1>10, <1>11, <1>14, RegisterAdds
  <2>2. RegisteredKnown'
    BY <1>8, <2>1 DEF RegisteredKnown
  <2>3. PICK n \in Nat : Start(n)
    BY <1>14
  <2>4. /\ procs' \in [ChildNames -> {"none", "running", "exited", "stopped", "orphaned"}]
        /\ \A p \in ChildNames : procs'[p] = "orphaned" => procs[p] = "orphaned"
    BY <2>3, <1>7 DEF Start, InUse
  <2>5. \A id \in Guests : Has(id)'
    BY <1>8, <2>1 DEF Guests
  <2>6. InUse'
    BY <1>2, <1>7, <1>9, <2>4, <2>5 DEF InUse
  <2> QED
    BY <1>4, <1>5, <1>6, <1>12, <2>2, <2>6 DEF PilotInv
<1> QED
  BY <1>2, <1>13, <1>14

\* The stages.
LEMMA StageGuarded == ASSUME PilotInv, Stage PROVE PilotInv'
  BY TlsGuarded, MaterialGuarded, WorktreeGuarded, ComposeUpGuarded, QuietStages, GatesGuarded,
     ApplicationGuarded
     DEF Stage, DisposableWorktree, IsolatedPostgres, ApplicationStartup

-----------------------------------------------------------------------------
(* The pilot's cleanup.                                                    *)

\* A bounded set of numbers that is not empty has a largest one.
LEMMA LargestNumber ==
    ASSUME NEW n \in Nat, NEW T \in SUBSET (1..n), T # {}
    PROVE  \E x \in T : \A y \in T : y <= x
<1> DEFINE R == OpToRel(<, Nat)
           D == {n - x : x \in T}
<1>1. IsWellFoundedOn(R, Nat)
  BY NatLessThanWellFounded
<1>2. \A x, y \in Nat : x < y => <<x, y>> \in R
  BY DEF OpToRel
<1> HIDE DEF R
<1>3. D \in SUBSET Nat /\ D # {}
  <2>1. \A x \in T : n - x \in Nat
    OBVIOUS
  <2> QED
    BY <2>1
<1>4. PICK d \in D : \A e \in D : ~(<<e, d>> \in R)
  BY <1>1, <1>3, WFMin
<1>5. \A e \in D : ~(e < d)
  BY <1>2, <1>3, <1>4
<1>6. PICK x \in T : d = n - x
  BY <1>4
<1>7. ASSUME NEW y \in T PROVE y <= x
  <2>1. ~(n - y < n - x)
    BY <1>5, <1>6
  <2>2. x \in Nat /\ y \in Nat
    OBVIOUS
  <2> QED
    BY <2>1, <2>2
<1> QED
  BY <1>7

\* The entry whose turn it is, is registered and has not run.
LEMMA TurnKnown ==
    ASSUME PilotInv, NEW id, Turn(id)
    PROVE  id \in CleanupIds /\ Has(id) /\ completed[id] = "none" /\ phase = "cleanup" /\ exit = "none"
<1> DEFINE n == Len(registered)
           i == CHOOSE k \in Pending : \A j \in Pending : j <= k
<1>1. registered \in Seq(CleanupIds) /\ phase = "cleanup" /\ exit = "none" /\ Pending # {}
      /\ registered[i] = id
  BY DEF PilotInv, RegisteredKnown, FlowKnown, Turn
<1>2. n \in Nat /\ DOMAIN registered = 1..n /\ \A k \in 1..n : registered[k] \in CleanupIds
  BY <1>1, LenProperties, ElementOfSeq
<1>3. Pending \in SUBSET (1..n)
  BY <1>2 DEF Pending
<1>4. \E k \in Pending : \A j \in Pending : j <= k
  BY <1>1, <1>2, <1>3, LargestNumber
<1>5. i \in Pending
  BY <1>4
<1> HIDE DEF i
<1>6. i \in 1..n /\ completed[registered[i]] = "none"
  BY <1>2, <1>5 DEF Pending
<1> QED
  BY <1>1, <1>2, <1>6 DEF Has, Contains

\* An entry that is run keeps the order of the cleanup and everything it does not touch.
LEMMA CleanupKeeps ==
    ASSUME PilotInv, NEW id, Turn(id), NEW res \in {"passed", "failed"}, res = "passed" => ~Blocked(id),
           completed' = [completed EXCEPT ![id] = res], dirs' \subseteq dirs,
           UNCHANGED <<host, gates, flawed, registered, exit, receipt, phase, step, failed, aborted,
                       straggler>>
    PROVE  /\ FlowKnown' /\ GatesKnown' /\ RegisteredKnown' /\ ResourcesKnown' /\ CleanupKnown' /\ AllDone'
           /\ \A x \in CleanupIds : completed'[x] = IF x = id THEN res ELSE completed[x]
<1>1. id \in CleanupIds /\ Has(id) /\ completed[id] = "none" /\ phase = "cleanup" /\ exit = "none"
  BY TurnKnown
<1>2. FlowKnown'
  BY DEF PilotInv, FlowKnown, HostApproved, Uninterrupted
<1>3. GatesKnown'
  BY DEF PilotInv, GatesKnown
<1>4. RegisteredKnown'
  BY DEF PilotInv, RegisteredKnown, Has
<1>5. ResourcesKnown'
  <2>1. dirs \subseteq {"tls", "material", "worktree", "registration"}
    BY DEF PilotInv, ResourcesKnown
  <2> QED
    BY <1>1, <2>1 DEF ResourcesKnown
<1>6. AllDone'
  BY <1>1 DEF AllDone
<1>7. /\ completed \in [CleanupIds -> {"none", "passed", "failed"}]
      /\ \A x \in CleanupIds : completed[x] # "none" => Has(x)
      /\ \A x \in CleanupIds : completed[x] = "passed" =>
            \A r \in RequiresIfRegistered(x) : Has(r) => completed[r] = "passed"
  BY DEF PilotInv, CleanupKnown
<1>8. /\ completed' \in [CleanupIds -> {"none", "passed", "failed"}]
      /\ \A x \in CleanupIds : completed'[x] = IF x = id THEN res ELSE completed[x]
  BY <1>7
<1>9. \A x \in CleanupIds : RequiresIfRegistered(x) \subseteq CleanupIds
  BY DEF RequiresIfRegistered, CleanupIds
<1>10. \A x : Has(x)' <=> Has(x)
  BY DEF Has
<1>11. res = "passed" => \A r \in RequiresIfRegistered(id) : Has(r) => completed[r] = "passed"
  BY DEF Blocked, Has
<1>12. ASSUME NEW x \in CleanupIds, completed'[x] = "passed", NEW r \in RequiresIfRegistered(x), Has(r)
       PROVE  completed'[r] = "passed"
  <2>1. completed[r] = "passed"
    <3>1. CASE x = id
      BY <1>1, <1>8, <1>11, <1>12, <3>1
    <3>2. CASE x # id
      BY <1>7, <1>8, <1>12, <3>2
    <3> QED
      BY <3>1, <3>2
  <2>2. r \in CleanupIds /\ r # id
    BY <1>1, <1>9, <2>1
  <2> QED
    BY <1>8, <2>1, <2>2
<1>13. CleanupKnown'
  <2>1. \A x \in CleanupIds : completed'[x] # "none" => Has(x)'
    BY <1>1, <1>7, <1>8, <1>10
  <2>2. \A x \in CleanupIds : completed'[x] = "passed" =>
            \A r \in RequiresIfRegistered(x) : Has(r)' => completed'[r] = "passed"
    BY <1>10, <1>12
  <2> QED
    BY <1>1, <1>8, <2>1, <2>2 DEF CleanupKnown
<1> QED
  BY <1>2, <1>3, <1>4, <1>5, <1>6, <1>8, <1>13

\* The entries that take a resource away run when no child does.
LEMMA NoChildLeft ==
    ASSUME PilotInv,
           NEW id \in {"tls-material", "runtime-material", "disposable-worktree", "compose-project"},
           ~Blocked(id)
    PROVE  /\ Running = {}
           /\ id = "disposable-worktree" /\ Has("compose-project") => completed["compose-project"] = "passed"
<1>1. /\ RequiresIfRegistered("tls-material") = {"runtime-material"}
      /\ RequiresIfRegistered("runtime-material") = {"disposable-worktree"}
      /\ RequiresIfRegistered("disposable-worktree") = {"compose-project"}
      /\ RequiresIfRegistered("compose-project") = {"mailpit-residual"}
      /\ RequiresIfRegistered("mailpit-residual") = {"application-processes"}
  BY DEF RequiresIfRegistered
<1>2. \A r \in RequiresIfRegistered(id) : Has(r) => completed[r] = "passed"
  BY DEF Blocked, Has
<1>3. \A x \in CleanupIds : completed[x] = "passed" =>
         \A r \in RequiresIfRegistered(x) : Has(r) => completed[r] = "passed"
  BY DEF PilotInv, CleanupKnown
<1>4. ASSUME Running # {} PROVE FALSE
  <2>1. (\A x \in Guests : Has(x)) /\ completed["application-processes"] # "passed"
    BY <1>4 DEF PilotInv, InUse
  <2>2. completed["mailpit-residual"] # "passed"
    BY <1>1, <1>3, <2>1 DEF Guests, CleanupIds
  <2>3. completed["compose-project"] # "passed"
    BY <1>1, <1>3, <2>1, <2>2 DEF Guests, CleanupIds
  <2>4. completed["disposable-worktree"] # "passed"
    BY <1>1, <1>3, <2>1, <2>3 DEF Guests, CleanupIds
  <2>5. completed["runtime-material"] # "passed"
    BY <1>1, <1>3, <2>1, <2>4 DEF Guests, CleanupIds
  <2> QED
    BY <1>1, <1>2, <2>1, <2>2, <2>3, <2>4, <2>5 DEF Guests
<1> QED
  BY <1>1, <1>2, <1>4

\* The result of an entry.
LEMMA ResultKnown ==
    ASSUME NEW id, NEW ok \in BOOLEAN, Completed(id, ok)
    PROVE  \E res \in {"passed", "failed"} :
              completed' = [completed EXCEPT ![id] = res] /\ (res = "passed" <=> ok)
<1>1. CASE ok
  BY <1>1 DEF Completed
<1>2. CASE ~ok
  BY <1>2 DEF Completed
<1> QED
  BY <1>1, <1>2

\* What an entry leaves alone.
LEMMA CleaningLeaves ==
    ASSUME NEW id, Cleaning(id)
    PROVE  /\ Turn(id) /\ ~Blocked(id)
           /\ UNCHANGED <<host, gates, flawed, registered, exit, receipt, phase, step, failed, aborted,
                          straggler>>
  BY DEF Cleaning, worldVars, gateVars, endVars, flowVars, signalVars

\* An entry that is blocked.
LEMMA DependencyGuarded == ASSUME PilotInv, CleanupDependencyFailed PROVE PilotInv'
<1>1. PICK id \in CleanupIds :
         /\ Turn(id) /\ Completed(id, FALSE)
         /\ UNCHANGED <<worldVars, ownedVars, gateVars, registered, endVars, flowVars, signalVars>>
  BY DEF CleanupDependencyFailed
<1>2. /\ completed' = [completed EXCEPT ![id] = "failed"]
      /\ UNCHANGED <<host, gates, flawed, registered, exit, receipt, phase, step, failed, aborted,
                     straggler, dirs, project, mail, checkout, procs>>
  BY <1>1 DEF Completed, worldVars, ownedVars, gateVars, endVars, flowVars, signalVars
<1>3. /\ FlowKnown' /\ GatesKnown' /\ RegisteredKnown' /\ ResourcesKnown' /\ CleanupKnown' /\ AllDone'
      /\ \A x \in CleanupIds : completed'[x] = IF x = id THEN "failed" ELSE completed[x]
  BY <1>1, <1>2, CleanupKeeps
<1>4. \A x \in CleanupIds : /\ completed'[x] = "passed" => completed[x] = "passed"
                            /\ completed[x] = "passed" => completed'[x] = "passed"
  BY <1>1, <1>3, TurnKnown
<1>5. TakenAway'
  BY <1>2, <1>4 DEF PilotInv, TakenAway, CleanupIds
<1>6. InUse'
  BY <1>2, <1>4 DEF PilotInv, InUse, CleanupIds, Running, Has
<1> QED
  BY <1>3, <1>5, <1>6 DEF PilotInv

\* The children are stopped.
LEMMA StopAllGuarded == ASSUME PilotInv, StopAll PROVE PilotInv'
<1> DEFINE app == "application-processes"
<1>1. PICK stuck \in SUBSET Running, orphan \in SUBSET (Running \cap {"next"}) :
         /\ stuck \cap orphan = {}
         /\ procs' = [p \in ChildNames |->
               IF p \in orphan THEN "orphaned"
               ELSE IF p \in Running \ stuck THEN "stopped" ELSE procs[p]]
         /\ Completed(app, stuck = {})
  BY DEF StopAll
<1>2. /\ Cleaning(app) /\ UNCHANGED <<dirs, checkout, project, mail>>
  BY DEF StopAll
<1>3. /\ Turn(app) /\ ~Blocked(app)
      /\ UNCHANGED <<host, gates, flawed, registered, exit, receipt, phase, step, failed, aborted,
                     straggler>>
  BY <1>2, CleaningLeaves
<1>4. PICK ok \in BOOLEAN : ok = (stuck = {})
  OBVIOUS
<1>5. PICK res \in {"passed", "failed"} :
         completed' = [completed EXCEPT ![app] = res] /\ (res = "passed" <=> ok)
  BY <1>1, <1>4, ResultKnown
<1>6. /\ FlowKnown' /\ GatesKnown' /\ RegisteredKnown' /\ ResourcesKnown' /\ CleanupKnown' /\ AllDone'
      /\ \A x \in CleanupIds : completed'[x] = IF x = app THEN res ELSE completed[x]
  <2>1. completed' = [completed EXCEPT ![app] = res]
    BY <1>5
  <2> QED
    BY <1>2, <1>3, <2>1, CleanupKeeps
<1>7. /\ procs \in [ChildNames -> {"none", "running", "exited", "stopped", "orphaned"}] /\ InUse
      /\ \A p \in ChildNames : procs[p] = "orphaned" => p = "next"
  BY DEF PilotInv, InUse
<1>8. procs' \in [ChildNames -> {"none", "running", "exited", "stopped", "orphaned"}]
  BY <1>1, <1>7
<1>9. \A p \in ChildNames : procs'[p] = "running" => procs[p] = "running" /\ p \in stuck
  BY <1>1, <1>7 DEF Running
<1>10. \A p \in ChildNames : procs'[p] = "orphaned" => p = "next" /\ procs[p] \in {"running", "orphaned"}
  BY <1>1, <1>7 DEF Running
<1>11. Running' # {} => Running # {} /\ res # "passed"
  BY <1>4, <1>5, <1>9 DEF Running
<1>12. InUse'
  <2>1. /\ completed'[app] = res /\ completed'["compose-project"] = completed["compose-project"]
    BY <1>6 DEF CleanupIds
  <2>2. \A x : Has(x)' <=> Has(x)
    BY <1>3 DEF Has
  <2> QED
    BY <1>2, <1>7, <1>8, <1>10, <1>11, <2>1, <2>2 DEF InUse
<1>13. TakenAway'
  <2>1. \A x \in {"final-state", "tls-material", "runtime-material", "disposable-worktree",
                  "compose-project"} : completed'[x] = completed[x]
    BY <1>6 DEF CleanupIds
  <2>2. \A p \in {"fastify", "next"} :
           procs[p] \notin {"running", "orphaned"} => procs'[p] \notin {"running", "orphaned"}
    BY <1>9, <1>10, ChildrenNamed
  <2> QED
    BY <1>2, <1>3, <2>1, <2>2 DEF PilotInv, TakenAway
<1> QED
  BY <1>6, <1>12, <1>13 DEF PilotInv

\* The messages are deleted.
LEMMA MailpitGuarded == ASSUME PilotInv, MailpitResidual PROVE PilotInv'
<1> DEFINE mp == "mailpit-residual"
<1>1. /\ Cleaning(mp) /\ UNCHANGED <<dirs, checkout, project, procs>>
      /\ mail' = mail \/ mail' = FALSE
      /\ Completed(mp, TRUE) \/ Completed(mp, FALSE)
  BY DEF MailpitResidual
<1>2. /\ Turn(mp) /\ ~Blocked(mp)
      /\ UNCHANGED <<host, gates, flawed, registered, exit, receipt, phase, step, failed, aborted,
                     straggler>>
  BY <1>1, CleaningLeaves
<1>3. PICK res \in {"passed", "failed"} : completed' = [completed EXCEPT ![mp] = res]
  BY <1>1 DEF Completed
<1>4. /\ FlowKnown' /\ GatesKnown' /\ RegisteredKnown' /\ ResourcesKnown' /\ CleanupKnown' /\ AllDone'
      /\ \A x \in CleanupIds : completed'[x] = IF x = mp THEN res ELSE completed[x]
  BY <1>1, <1>2, <1>3, CleanupKeeps
<1>5. \A x \in CleanupIds \ {mp} : completed'[x] = completed[x]
  BY <1>4
<1>6. InUse'
  BY <1>1, <1>2, <1>5 DEF PilotInv, InUse, CleanupIds, Running, Has
<1>7. TakenAway'
  BY <1>1, <1>2, <1>5 DEF PilotInv, TakenAway, CleanupIds
<1> QED
  BY <1>4, <1>6, <1>7 DEF PilotInv

\* The compose project is removed.
LEMMA ComposeDownGuarded == ASSUME PilotInv, ComposeProject PROVE PilotInv'
<1> DEFINE cp == "compose-project"
<1>1. /\ Cleaning(cp) /\ UNCHANGED <<dirs, checkout, procs>>
      /\ Completed(cp, TRUE) \/ Completed(cp, FALSE)
  BY DEF ComposeProject
<1>2. Completed(cp, FALSE) \/ (project' = {} /\ mail' = FALSE)
  BY DEF ComposeProject
<1>3. /\ Turn(cp) /\ ~Blocked(cp)
      /\ UNCHANGED <<host, gates, flawed, registered, exit, receipt, phase, step, failed, aborted,
                     straggler>>
  BY <1>1, CleaningLeaves
<1>4. PICK res \in {"passed", "failed"} :
         /\ completed' = [completed EXCEPT ![cp] = res]
         /\ res = "passed" => project' = {} /\ mail' = FALSE
  BY <1>1, <1>2 DEF Completed
<1>5. /\ FlowKnown' /\ GatesKnown' /\ RegisteredKnown' /\ ResourcesKnown' /\ CleanupKnown' /\ AllDone'
      /\ \A x \in CleanupIds : completed'[x] = IF x = cp THEN res ELSE completed[x]
  BY <1>1, <1>3, <1>4, CleanupKeeps
<1>6. (\A x \in CleanupIds \ {cp} : completed'[x] = completed[x]) /\ completed'[cp] = res
      /\ completed[cp] = "none"
  BY <1>3, <1>5, TurnKnown DEF CleanupIds
<1>7. Running' = {}
  BY <1>1, <1>3, NoChildLeft DEF Running
<1>8. InUse'
  BY <1>1, <1>3, <1>6, <1>7 DEF PilotInv, InUse, Has
<1>9. TakenAway'
  BY <1>1, <1>3, <1>4, <1>6 DEF PilotInv, TakenAway, CleanupIds
<1> QED
  BY <1>5, <1>8, <1>9 DEF PilotInv

\* The worktree is removed, when the compose project is gone.
LEMMA WorktreeRemovalGuarded == ASSUME PilotInv, RemoveDetachedPilotWorktree PROVE PilotInv'
<1> DEFINE wt == "disposable-worktree"
<1>1. /\ Cleaning(wt) /\ UNCHANGED <<checkout, project, mail, procs>>
      /\ dirs' \in {dirs, dirs \ {"registration"}, dirs \ {"worktree", "registration"}}
  BY DEF RemoveDetachedPilotWorktree
<1>2. \/ Completed(wt, FALSE)
      \/ dirs' = dirs \ {"worktree", "registration"} /\ Completed(wt, checkout = "clean")
  BY DEF RemoveDetachedPilotWorktree
<1>3. /\ Turn(wt) /\ ~Blocked(wt)
      /\ UNCHANGED <<host, gates, flawed, registered, exit, receipt, phase, step, failed, aborted,
                     straggler>>
  BY <1>1, CleaningLeaves
<1>4. PICK res \in {"passed", "failed"} :
         /\ completed' = [completed EXCEPT ![wt] = res]
         /\ res = "passed" => checkout = "clean" /\ dirs' = dirs \ {"worktree", "registration"}
  <2>1. CASE Completed(wt, FALSE)
    BY <2>1 DEF Completed
  <2>2. CASE dirs' = dirs \ {"worktree", "registration"} /\ Completed(wt, checkout = "clean")
    <3>1. PICK ok \in BOOLEAN : ok = (checkout = "clean")
      OBVIOUS
    <3>2. \E r \in {"passed", "failed"} :
             completed' = [completed EXCEPT ![wt] = r] /\ (r = "passed" <=> ok)
      BY <2>2, <3>1, ResultKnown
    <3> QED
      BY <2>2, <3>1, <3>2
  <2> QED
    BY <1>2, <2>1, <2>2
<1>5. completed' = [completed EXCEPT ![wt] = res] /\ dirs' \subseteq dirs
  BY <1>1, <1>4
<1>6. /\ FlowKnown' /\ GatesKnown' /\ RegisteredKnown' /\ ResourcesKnown' /\ CleanupKnown' /\ AllDone'
      /\ \A x \in CleanupIds : completed'[x] = IF x = wt THEN res ELSE completed[x]
  BY <1>3, <1>5, CleanupKeeps
<1>7. (\A x \in CleanupIds \ {wt} : completed'[x] = completed[x]) /\ completed'[wt] = res
  BY <1>6 DEF CleanupIds
<1>8. Running' = {} /\ (Has("compose-project") => completed["compose-project"] = "passed")
  BY <1>1, <1>3, NoChildLeft DEF Running
<1>9. InUse'
  <2>1. "registration" \in dirs' => "worktree" \in dirs'
    BY <1>1 DEF PilotInv, InUse
  <2>2. completed'["compose-project"] = completed["compose-project"]
    BY <1>7 DEF CleanupIds
  <2> QED
    BY <1>1, <1>3, <1>8, <2>1, <2>2 DEF PilotInv, InUse, Has
<1>10. TakenAway'
  <2>1. \A x \in {"final-state", "tls-material", "runtime-material", "compose-project"} :
           completed'[x] = completed[x]
    BY <1>7 DEF CleanupIds
  <2>2. completed'[wt] = "passed" =>
          checkout' = "clean" /\ "worktree" \notin dirs' /\ "registration" \notin dirs'
    BY <1>1, <1>4, <1>7
  <2> QED
    BY <1>1, <1>3, <1>5, <2>1, <2>2 DEF PilotInv, TakenAway
<1> QED
  BY <1>6, <1>9, <1>10 DEF PilotInv

\* A directory of the run is removed.
LEMMA DirectoryRemovalGuarded ==
    ASSUME PilotInv, NEW id, NEW d, RemoveDirectory(id, d),
           (id = "tls-material" /\ d = "tls") \/ (id = "runtime-material" /\ d = "material")
    PROVE  PilotInv'
<1>1. /\ Cleaning(id) /\ UNCHANGED <<checkout, project, mail, procs>>
      /\ \/ dirs' = dirs \ {d} /\ Completed(id, TRUE)
         \/ UNCHANGED dirs /\ Completed(id, FALSE)
  BY DEF RemoveDirectory
<1>2. /\ Turn(id) /\ ~Blocked(id)
      /\ UNCHANGED <<host, gates, flawed, registered, exit, receipt, phase, step, failed, aborted,
                     straggler>>
  BY <1>1, CleaningLeaves
<1>3. PICK res \in {"passed", "failed"} :
         completed' = [completed EXCEPT ![id] = res] /\ (res = "passed" => d \notin dirs')
  BY <1>1 DEF Completed
<1>4. dirs' \subseteq dirs /\ \A x \in dirs : x # d => x \in dirs'
  BY <1>1
<1>5. /\ FlowKnown' /\ GatesKnown' /\ RegisteredKnown' /\ ResourcesKnown' /\ CleanupKnown' /\ AllDone'
      /\ \A x \in CleanupIds : completed'[x] = IF x = id THEN res ELSE completed[x]
  BY <1>2, <1>3, <1>4, CleanupKeeps
<1>6. (\A x \in CleanupIds \ {id} : completed'[x] = completed[x]) /\ completed'[id] = res
  BY <1>5 DEF CleanupIds
<1>7. Running' = {}
  BY <1>1, <1>2, NoChildLeft DEF Running
<1>8. InUse'
  <2>1. completed'["compose-project"] = completed["compose-project"]
    BY <1>6 DEF CleanupIds
  <2> QED
    BY <1>1, <1>2, <1>4, <1>7, <2>1 DEF PilotInv, InUse, Has
<1>9. TakenAway'
  <2>1. \A x \in {"final-state", "disposable-worktree", "compose-project"} :
           completed'[x] = completed[x]
    BY <1>6 DEF CleanupIds
  <2>2. /\ completed'["tls-material"] = "passed" => "tls" \notin dirs'
        /\ completed'["runtime-material"] = "passed" => "material" \notin dirs'
    BY <1>3, <1>4, <1>6 DEF PilotInv, TakenAway, CleanupIds
  <2> QED
    BY <1>1, <1>2, <1>4, <2>1, <2>2 DEF PilotInv, TakenAway
<1> QED
  BY <1>5, <1>8, <1>9 DEF PilotInv

\* The final state is looked at.
LEMMA FinalStateGuarded == ASSUME PilotInv, FinalState PROVE PilotInv'
<1> DEFINE fs == "final-state"
           still == project = {} /\ KnownDirs \cap dirs = {} /\ AssertFinalRepositoryState
<1>1. /\ Cleaning(fs) /\ UNCHANGED <<dirs, checkout, project, mail, procs>>
      /\ \E answered \in BOOLEAN : Completed(fs, answered /\ still)
  BY DEF FinalState, ownedVars
<1>2. /\ Turn(fs) /\ ~Blocked(fs)
      /\ UNCHANGED <<host, gates, flawed, registered, exit, receipt, phase, step, failed, aborted,
                     straggler>>
  BY <1>1, CleaningLeaves
<1>3. PICK res \in {"passed", "failed"} :
         completed' = [completed EXCEPT ![fs] = res] /\ (res = "passed" => still)
  <2>1. PICK answered \in BOOLEAN : Completed(fs, answered /\ still)
    BY <1>1
  <2>2. PICK ok \in BOOLEAN : ok = (answered /\ still)
    OBVIOUS
  <2>3. \E r \in {"passed", "failed"} :
           completed' = [completed EXCEPT ![fs] = r] /\ (r = "passed" <=> ok)
    BY <2>1, <2>2, ResultKnown
  <2> QED
    BY <2>2, <2>3
<1>4. /\ completed' = [completed EXCEPT ![fs] = res]
      /\ res = "passed" => \A p \in {"fastify", "next"} : procs[p] \notin {"running", "orphaned"}
  BY <1>3 DEF AssertFinalRepositoryState, PortsReleased
<1> HIDE DEF still
<1>5. /\ FlowKnown' /\ GatesKnown' /\ RegisteredKnown' /\ ResourcesKnown' /\ CleanupKnown' /\ AllDone'
      /\ \A x \in CleanupIds : completed'[x] = IF x = fs THEN res ELSE completed[x]
  <2>1. completed' = [completed EXCEPT ![fs] = res] /\ dirs' \subseteq dirs
    BY <1>1, <1>4
  <2> QED
    BY <1>2, <2>1, CleanupKeeps
<1>6. (\A x \in CleanupIds \ {fs} : completed'[x] = completed[x]) /\ completed'[fs] = res
  BY <1>5 DEF CleanupIds
<1>7. InUse'
  BY <1>1, <1>2, <1>6 DEF PilotInv, InUse, CleanupIds, Running, Has
<1>8. TakenAway'
  BY <1>1, <1>2, <1>4, <1>6 DEF PilotInv, TakenAway, CleanupIds
<1> QED
  BY <1>5, <1>7, <1>8 DEF PilotInv

\* The cleanup is over: a run that has not failed has taken everything away.
LEMMA CleanupDoneGuarded == ASSUME PilotInv, CleanupDone PROVE PilotInv'
<1>1. /\ phase = "cleanup" /\ Pending = {} /\ phase' = "receipt"
      /\ failed' = (failed \/ \E id \in CleanupIds : completed[id] = "failed")
      /\ UNCHANGED <<host, dirs, checkout, project, mail, procs, gates, flawed, registered, completed,
                     receipt, exit, step, aborted, straggler>>
  BY DEF CleanupDone, worldVars, ownedVars, gateVars, cleanupVars, endVars, signalVars
<1>2. failed' \in BOOLEAN /\ (failed => failed')
  BY <1>1 DEF PilotInv, FlowKnown
<1>3. FlowKnown'
  BY <1>1, <1>2 DEF PilotInv, FlowKnown, HostApproved, Uninterrupted
<1>4. GatesKnown' /\ RegisteredKnown' /\ ResourcesKnown' /\ CleanupKnown' /\ InUse'
  BY <1>1, <1>2 DEF PilotInv, GatesKnown, RegisteredKnown, ResourcesKnown, CleanupKnown, InUse, Has, Running
<1>5. TakenAway'
  BY <1>1, <1>2 DEF PilotInv, TakenAway
<1>6. AllDone'
  <2>1. SUFFICES ASSUME ~failed' PROVE \A id \in CleanupIds : completed[id] = "passed"
    BY <1>1 DEF AllDone, PilotInv, FlowKnown
  <2>2. ~failed /\ \A id \in CleanupIds : completed[id] # "failed"
    BY <1>1, <2>1
  <2>3. step = 38 /\ registered \in Seq(CleanupIds)
    BY <1>1, <2>2 DEF PilotInv, FlowKnown, RegisteredKnown
  <2>4. \A id \in CleanupIds : Has(id)
    BY <2>3 DEF PilotInv, RegisteredKnown, CleanupIds
  <2>5. \A id \in CleanupIds : completed[id] # "none"
    BY <1>1, <2>3, <2>4, LenProperties DEF Has, Contains, Pending
  <2> QED
    BY <2>2, <2>5 DEF PilotInv, CleanupKnown
<1> QED
  BY <1>3, <1>4, <1>5, <1>6 DEF PilotInv

\* The cleanup.
LEMMA CleanupGuarded == ASSUME PilotInv, Cleanup PROVE PilotInv'
  BY DependencyGuarded, StopAllGuarded, MailpitGuarded, ComposeDownGuarded, WorktreeRemovalGuarded,
     DirectoryRemovalGuarded, FinalStateGuarded, CleanupDoneGuarded
     DEF Cleanup, RemoveRuntimeMaterial, RemoveLocalTlsMaterial

-----------------------------------------------------------------------------
(* The beginning, the end and the world around the run.                    *)

\* A new run.
LEMMA PilotStarts == ASSUME PilotInit PROVE PilotInv
<1>1. /\ host \in Hosts /\ phase = "preflight" /\ step = 1 /\ failed = FALSE
      /\ aborted = "no" /\ straggler = "none" /\ dirs = {} /\ project = {} /\ mail = FALSE
      /\ procs = [p \in ChildNames |-> "none"] /\ gates = [g \in Gates |-> "none"] /\ flawed = {}
      /\ registered = <<>> /\ completed = [id \in CleanupIds |-> "none"]
      /\ receipt = "none" /\ exit = "none"
  BY DEF PilotInit
<1>2. FlowKnown
  <2>1. failed \in BOOLEAN /\ ~failed
    <3>1. failed = FALSE
      BY <1>1
    <3> QED
      BY <3>1
  <2>2. /\ host \in Hosts /\ phase = "preflight" /\ step = 1 /\ straggler = "none" /\ exit = "none"
    BY <1>1
  <2>3. step \in 1..38
    BY <2>2
  <2> QED
    BY <2>1, <2>2, <2>3 DEF FlowKnown
<1>3. GatesKnown
  <2>1. \A i \in 1..9 : ~(step > GateStep(i))
    BY <1>1 DEF GateStep
  <2>2. gates \in [Gates -> {"none", "passed", "failed"}]
    BY <1>1
  <2> QED
    BY <1>1, <2>1, <2>2 DEF GatesKnown
<1>4. registered \in Seq(CleanupIds) /\ \A id : ~Has(id)
  <2>1. registered \in Seq(CleanupIds)
    BY <1>1
  <2>2. Len(registered) = 0 /\ DOMAIN registered = {}
    BY <1>1
  <2> QED
    BY <2>1, <2>2, LenProperties DEF Has, Contains
<1>5. RegisteredKnown /\ ResourcesKnown
  BY <1>1, <1>4 DEF RegisteredKnown, ResourcesKnown
<1>6. CleanupKnown
  BY <1>1 DEF CleanupKnown
<1>7. Running = {}
  BY <1>1 DEF Running
<1>8. InUse
  BY <1>1, <1>4, <1>7 DEF InUse
<1>9. TakenAway /\ AllDone
  BY <1>1 DEF TakenAway, AllDone, CleanupIds
<1> QED
  BY <1>2, <1>3, <1>5, <1>6, <1>8, <1>9 DEF PilotInv

\* The preflight lets only an approved host through.
LEMMA PreflightGuarded == ASSUME PilotInv, Preflight PROVE PilotInv'
<1>1. /\ phase = "preflight"
      /\ UNCHANGED <<host, dirs, checkout, project, mail, procs, gates, flawed, registered, completed,
                     receipt, step, failed, aborted, straggler>>
  BY DEF Preflight, worldVars, ownedVars, gateVars, cleanupVars, signalVars
<1>2. \/ CaptureLocalPilotPreflight /\ phase' = "stages" /\ UNCHANGED exit
      \/ phase' = "ended" /\ exit' = "fail"
  BY DEF Preflight
<1>3. host \in Hosts /\ step = 1 /\ exit = "none" /\ ~failed /\ failed \in BOOLEAN /\ straggler = "none"
  BY <1>1 DEF PilotInv, FlowKnown
<1>4. CaptureLocalPilotPreflight => HostApproved
  BY <1>3, BytesApproved DEF CaptureLocalPilotPreflight, HostApproved, AssertRequiredPortsFree
<1>5. FlowKnown'
  BY <1>1, <1>2, <1>3, <1>4 DEF FlowKnown, HostApproved
<1>6. GatesKnown' /\ RegisteredKnown'
  BY <1>1 DEF PilotInv, GatesKnown, RegisteredKnown, Has
<1>7. ResourcesKnown'
  BY <1>1, <1>3 DEF PilotInv, ResourcesKnown
<1>8. \A id \in CleanupIds : completed[id] = "none"
  BY <1>1 DEF PilotInv, CleanupKnown
<1>9. CleanupKnown' /\ TakenAway'
  BY <1>1, <1>8 DEF PilotInv, CleanupKnown, TakenAway, CleanupIds, Has
<1>10. InUse'
  BY <1>1 DEF PilotInv, InUse, Running, Has
<1>11. AllDone'
  BY <1>2, <1>3 DEF AllDone
<1> QED
  BY <1>5, <1>6, <1>7, <1>9, <1>10, <1>11 DEF PilotInv

\* The receipt.
LEMMA ReceiptGuarded == ASSUME PilotInv, WriteLocalPilotReceipt PROVE PilotInv'
<1>1. /\ phase = "receipt" /\ phase' = "ended"
      /\ UNCHANGED <<host, dirs, checkout, project, mail, procs, gates, flawed, registered, completed,
                     step, failed, aborted, straggler>>
      /\ exit' = "fail" \/ (~failed /\ receipt' = "passed" /\ exit' = "pass")
  BY DEF WriteLocalPilotReceipt, MakeReceipt, worldVars, ownedVars, gateVars, cleanupVars, signalVars
<1>2. FlowKnown'
  BY <1>1 DEF PilotInv, FlowKnown, HostApproved, Uninterrupted
<1>3. GatesKnown' /\ RegisteredKnown' /\ ResourcesKnown' /\ CleanupKnown' /\ InUse'
  BY <1>1 DEF PilotInv, GatesKnown, RegisteredKnown, ResourcesKnown, CleanupKnown, InUse, Has, Running
<1>4. TakenAway'
  BY <1>1 DEF PilotInv, TakenAway
<1>5. AllDone'
  BY <1>1 DEF PilotInv, AllDone
<1> QED
  BY <1>2, <1>3, <1>4, <1>5 DEF PilotInv

\* A signal.
LEMMA SignalGuarded == ASSUME PilotInv, Signal PROVE PilotInv'
<1>1. /\ aborted = "no" /\ phase \in {"preflight", "stages", "cleanup"} /\ aborted' = phase
      /\ UNCHANGED <<host, dirs, checkout, project, mail, procs, gates, flawed, registered, completed,
                     receipt, exit, phase, step, failed, straggler>>
  BY DEF Signal, worldVars, ownedVars, gateVars, cleanupVars, endVars, flowVars
<1>2. FlowKnown'
  BY <1>1 DEF PilotInv, FlowKnown, HostApproved, Uninterrupted
<1>3. GatesKnown' /\ RegisteredKnown' /\ ResourcesKnown' /\ CleanupKnown' /\ InUse'
  BY <1>1 DEF PilotInv, GatesKnown, RegisteredKnown, ResourcesKnown, CleanupKnown, InUse, Has, Running
<1>4. TakenAway' /\ AllDone'
  BY <1>1 DEF PilotInv, TakenAway, AllDone
<1> QED
  BY <1>2, <1>3, <1>4 DEF PilotInv

\* A child exits by itself.
LEMMA CrashGuarded == ASSUME PilotInv, NEW p \in ChildNames, Crash(p) PROVE PilotInv'
<1>1. /\ phase = "stages" /\ procs' = [procs EXCEPT ![p] = "exited"]
      /\ UNCHANGED <<host, dirs, checkout, project, mail, gates, flawed, registered, completed,
                     receipt, exit, phase, step, failed, aborted, straggler>>
  BY DEF Crash, gateVars, cleanupVars, endVars, flowVars, signalVars
<1>2. FlowKnown'
  BY <1>1 DEF PilotInv, FlowKnown, HostApproved, Uninterrupted
<1>3. GatesKnown' /\ RegisteredKnown' /\ ResourcesKnown'
  BY <1>1 DEF PilotInv, GatesKnown, RegisteredKnown, ResourcesKnown, Has
<1>4. CleanupKnown' /\ TakenAway' /\ AllDone'
  BY <1>1, CleanupWaits
<1>5. InUse'
  <2>1. procs \in [ChildNames -> {"none", "running", "exited", "stopped", "orphaned"}]
    BY DEF PilotInv, InUse
  <2>2. procs' \in [ChildNames -> {"none", "running", "exited", "stopped", "orphaned"}]
    BY <1>1, <2>1
  <2>3. Running' \subseteq Running /\ \A q \in ChildNames : procs'[q] = "orphaned" => procs[q] = "orphaned"
    BY <1>1, <2>1 DEF Running
  <2> QED
    BY <1>1, <2>2, <2>3 DEF PilotInv, InUse, Has
<1> QED
  BY <1>2, <1>3, <1>4, <1>5 DEF PilotInv

\* Someone else's resource.
LEMMA IntrudeGuarded == ASSUME PilotInv, Intrude PROVE PilotInv'
<1>1. /\ phase = "stages" /\ project \subseteq project'
      /\ UNCHANGED <<host, dirs, checkout, procs, gates, flawed, registered, completed,
                     receipt, exit, phase, step, failed, aborted, straggler>>
  BY DEF Intrude, gateVars, cleanupVars, endVars, flowVars, signalVars
<1>2. FlowKnown'
  BY <1>1 DEF PilotInv, FlowKnown, HostApproved, Uninterrupted
<1>3. GatesKnown' /\ RegisteredKnown' /\ ResourcesKnown'
  BY <1>1 DEF PilotInv, GatesKnown, RegisteredKnown, ResourcesKnown, Has
<1>4. CleanupKnown' /\ TakenAway' /\ AllDone'
  BY <1>1, CleanupWaits
<1>5. InUse'
  BY <1>1 DEF PilotInv, InUse, Has, Running
<1> QED
  BY <1>2, <1>3, <1>4, <1>5 DEF PilotInv

\* A command that was left behind: the run has failed.
LEMMA StraggleGuarded == ASSUME PilotInv, Straggle PROVE PilotInv'
<1>1. /\ UNCHANGED <<host, checkout, procs, gates, flawed, registered, completed,
                     receipt, exit, phase, step, failed, aborted>>
      /\ straggler # "none" /\ dirs' \in {dirs, dirs \cup {"worktree"}} /\ project \subseteq project'
  BY DEF Straggle, worldVars, gateVars, cleanupVars, endVars, flowVars
<1>2. failed /\ exit # "pass" /\ phase \notin {"preflight", "stages"}
  BY <1>1 DEF PilotInv, FlowKnown
<1>3. FlowKnown'
  BY <1>1, <1>2 DEF PilotInv, FlowKnown, HostApproved, Uninterrupted
<1>4. GatesKnown' /\ RegisteredKnown' /\ CleanupKnown'
  BY <1>1 DEF PilotInv, GatesKnown, RegisteredKnown, CleanupKnown, Has
<1>5. ResourcesKnown'
  <2>1. dirs \subseteq {"tls", "material", "worktree", "registration"}
    BY DEF PilotInv, ResourcesKnown
  <2> QED
    BY <1>1, <1>2, <2>1 DEF ResourcesKnown
<1>6. InUse'
  BY <1>1 DEF PilotInv, InUse, Has, Running
<1>7. TakenAway'
  BY <1>1, <1>2 DEF PilotInv, TakenAway
<1>8. AllDone'
  BY <1>1, <1>2 DEF AllDone
<1> QED
  BY <1>3, <1>4, <1>5, <1>6, <1>7, <1>8 DEF PilotInv

\* A step that leaves the run as it is.
LEMMA PilotStutters ==
    ASSUME PilotInv,
           UNCHANGED <<host, dirs, checkout, project, mail, procs, gates, flawed, registered, completed,
                       receipt, exit, phase, step, failed, aborted, straggler>>
    PROVE  PilotInv'
<1>1. FlowKnown'
  BY DEF PilotInv, FlowKnown, HostApproved, Uninterrupted
<1>2. GatesKnown' /\ RegisteredKnown' /\ ResourcesKnown' /\ CleanupKnown' /\ InUse'
  BY DEF PilotInv, GatesKnown, RegisteredKnown, ResourcesKnown, CleanupKnown, InUse, Has, Running
<1>3. TakenAway' /\ AllDone'
  BY DEF PilotInv, TakenAway, AllDone
<1> QED
  BY <1>1, <1>2, <1>3 DEF PilotInv

\* A step of the pilot.
LEMMA PilotStep == ASSUME PilotInv, [PilotNext]_pilotVars PROVE PilotInv'
<1>1. CASE Edit
  <2>1. UNCHANGED <<host, dirs, checkout, project, mail, procs, gates, flawed, registered, completed,
                    receipt, exit, phase, step, failed, aborted, straggler>>
    BY <1>1 DEF Edit, ownedVars, gateVars, cleanupVars, endVars, flowVars, signalVars
  <2> QED
    BY <2>1, PilotStutters
<1>2. CASE UNCHANGED pilotVars
  <2>1. UNCHANGED <<host, dirs, checkout, project, mail, procs, gates, flawed, registered, completed,
                    receipt, exit, phase, step, failed, aborted, straggler>>
    BY <1>2 DEF pilotVars, worldVars, ownedVars, gateVars, cleanupVars, endVars, flowVars, signalVars
  <2> QED
    BY <2>1, PilotStutters
<1> QED
  BY <1>1, <1>2, PreflightGuarded, StageGuarded, CleanupGuarded, ReceiptGuarded, SignalGuarded,
     IntrudeGuarded, StraggleGuarded, CrashGuarded DEF PilotNext

\* The invariant gives what the pilot promises.
LEMMA PilotInvIsSafe == ASSUME PilotInv PROVE PilotSafe
<1>1. PassLeavesNothing
  <2>1. SUFFICES ASSUME exit = "pass"
                 PROVE  /\ \A p \in ChildNames : procs[p] \notin {"running", "orphaned"}
                        /\ project \cap Services = {} /\ dirs = {} /\ ~mail
    BY DEF PassLeavesNothing
  <2>2. ~failed /\ \A id \in CleanupIds : completed[id] = "passed"
    BY <2>1 DEF PilotInv, FlowKnown, AllDone
  <2>3. /\ completed["final-state"] = "passed" /\ completed["tls-material"] = "passed"
        /\ completed["runtime-material"] = "passed" /\ completed["disposable-worktree"] = "passed"
        /\ completed["compose-project"] = "passed" /\ completed["application-processes"] = "passed"
    BY <2>2 DEF CleanupIds
  <2>4. project = {} /\ mail = FALSE
    BY <2>2, <2>3 DEF PilotInv, TakenAway
  <2>5. dirs = {}
    BY <2>2, <2>3 DEF PilotInv, TakenAway, ResourcesKnown
  <2>6. \A p \in ChildNames : procs[p] # "running"
    BY <2>3 DEF PilotInv, InUse, Running
  <2>7. \A p \in ChildNames : procs[p] # "orphaned"
    BY <2>3 DEF PilotInv, InUse, TakenAway
  <2> QED
    BY <2>4, <2>5, <2>6, <2>7
<1>2. PassIsEarned
  <2>1. SUFFICES ASSUME exit = "pass"
                 PROVE  /\ host.bytes \in ApprovedRuntimeToolchains /\ host.busy = {}
                        /\ flawed = {} /\ \A g \in Gates : gates[g] = "passed"
                        /\ checkout = "clean" /\ receipt = "passed"
    BY DEF PassIsEarned
  <2>2. ~failed /\ step = 38 /\ HostApproved /\ receipt = "passed"
    BY <2>1 DEF PilotInv, FlowKnown
  <2>3. completed["disposable-worktree"] = "passed"
    BY <2>1 DEF PilotInv, AllDone, CleanupIds
  <2>4. checkout = "clean"
    BY <2>3 DEF PilotInv, TakenAway
  <2>5. flawed = {} /\ \A i \in 1..9 : gates[GateOrder[i]] = "passed"
    BY <2>2 DEF PilotInv, GatesKnown, GateStep
  <2>6. DOMAIN GateOrder = 1..9
    BY DEF GateOrder
  <2> QED
    BY <2>2, <2>4, <2>5, <2>6 DEF HostApproved, Gates
<1>3. InterruptedNeverPasses
  BY DEF PilotInv, FlowKnown, Uninterrupted, InterruptedNeverPasses
<1>4. NothingPulledAway
  <2>1. completed["compose-project"] = "failed" => Has("compose-project")
    BY DEF PilotInv, CleanupKnown, CleanupIds
  <2> QED
    BY <2>1 DEF PilotInv, InUse, NothingPulledAway
<1> QED
  BY <1>1, <1>2, <1>3, <1>4 DEF PilotSafe

\* The local pilot is safe, for any size of the suites and any number of edits, crashes and
\* intrusions: PASS is earned by every test of every suite on an approved host, is never
\* given to an interrupted run and leaves nothing behind, and the cleanup pulls nothing away
\* from a running child.
THEOREM PilotIsSafe == PilotSpec => []PilotSafe
<1>1. PilotInit => PilotInv
  BY PilotStarts
<1>2. PilotInv /\ [PilotNext]_pilotVars => PilotInv'
  BY PilotStep
<1>3. PilotInv => PilotSafe
  BY PilotInvIsSafe
<1> QED
  BY <1>1, <1>2, <1>3, PTL DEF PilotSpec
===============================================================================

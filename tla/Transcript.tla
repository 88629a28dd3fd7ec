------------------------------ MODULE Transcript ------------------------------
(***************************************************************************)
(* One message with one media item, as a page shows it: the ledger that     *)
(* applies the room's events, the status frames about the media, and the    *)
(* card with its attachment (MessageCard, MediaAttachment) - the metadata   *)
(* it asks for, the bytes it loads and the draft of a revision.             *)
(*                                                                         *)
(* From an event to the effects of the render it causes the page is not     *)
(* interrupted: that is one action.  Order and loss of events are module    *)
(* Realtime's; here the socket delivers the ledger's events in order, after *)
(* a reconnect too, and a status frame only while it is connected.          *)
(***************************************************************************)
EXTENDS Naturals, Sequences

CONSTANTS
    MaxVersions, \* bound: events about the message
    MaxLosses,   \* bound: disconnects
    MaxLoads     \* bound: downloadToken when a download begins

ASSUME TranscriptAssumption ==
    MaxVersions \in Nat \ {0} /\ MaxLosses \in Nat /\ MaxLoads \in Nat

VARIABLES
    media,      \* media_asset.state on the server
    versions,   \* the message's events on the server, by revision
    closed,     \* the room is closed on the server
    barred,     \* the session was revoked or the room is being deleted
    roomShown,       \* the status of the room, as the page knows it
    joined,     \* the page's socket is in the room's hub
    losses,     \* disconnects so far
    statuses,   \* media_status frames on the socket
    shown,      \* events of the message the page's ledger has applied
    known,      \* mediaStatuses: {} or the state of the last frame kept
    phase,      \* attachment: "none" while no attachment is mounted
    asked,      \* metadataToken
    gets,       \* metadata requests under way
    loads,      \* downloadToken
    loading,    \* downloads under way, each asked for or signed
    download,   \* downloadState
    urls,       \* object URLs created and not revoked
    mine,       \* localUrlRef is set
    draft       \* edit: {} or its baseRevision

transcriptServer == <<media, versions, closed, barred>>
transcriptSocket == <<joined, losses, statuses>>
transcriptBytes == <<loads, loading, download, urls, mine>>
transcriptVars == <<transcriptServer, transcriptSocket, roomShown, shown, known, phase, asked, gets,
                    transcriptBytes, draft>>

Outcomes == {"ready", "quarantined", "failed"}
TerminalMedia == {"quarantined", "failed"}      \* TERMINAL_MEDIA_STATES, room kept

\* Processing is under way and the message has just been accepted.
TranscriptInit ==
    /\ media = "processing" /\ versions = <<"added">>
    /\ closed = FALSE /\ barred = FALSE
    /\ roomShown = "open" /\ joined = TRUE /\ losses = 0 /\ statuses = {}
    /\ shown = 0 /\ known = {}
    /\ phase = "none" /\ asked = 0 /\ gets = {}
    /\ loads = 0 /\ loading = {} /\ download = "idle" /\ urls = 0 /\ mine = FALSE
    /\ draft = {}

\* A card shows the text and the attachments of a message until it is retracted.
Shows(op) == op # "retracted"

Retracted == shown > 0 /\ ~Shows(versions[shown])

\* activeMediaIds: a message that is shown and not retracted.
ActiveMedia == shown > 0 /\ ~Retracted

-----------------------------------------------------------------------------
(* The server *)

\* MediaInternalOutcomeRoute: the outcome commits, then the frame is broadcast
\* to the sockets in the room.
CommitOutcome(s) ==
    /\ media = "processing"
    /\ media' = s
    /\ statuses' = IF joined THEN {s} ELSE {}
    /\ UNCHANGED <<versions, closed, barred, joined, losses, roomShown, shown, known, phase, asked, gets,
                   transcriptBytes, draft>>

\* The author in another tab, or the teacher, changes the message.
CommitVersion(op) ==
    /\ Len(versions) < MaxVersions /\ versions[Len(versions)] # "retracted"
    /\ ~closed /\ ~barred
    /\ versions' = Append(versions, op)
    /\ UNCHANGED <<media, closed, barred, transcriptSocket, roomShown, shown, known, phase, asked, gets,
                   transcriptBytes, draft>>

LoseSocket ==
    /\ joined /\ losses < MaxLosses
    /\ joined' = FALSE /\ losses' = losses + 1 /\ statuses' = {}
    /\ UNCHANGED <<transcriptServer, roomShown, shown, known, phase, asked, gets, transcriptBytes, draft>>

\* From now on the server discloses nothing to this page: its session was
\* revoked or the room is being deleted, and the socket is closed.
Bar ==
    /\ ~barred
    /\ barred' = TRUE /\ joined' = FALSE /\ statuses' = {}
    /\ UNCHANGED <<media, versions, closed, losses, roomShown, shown, known, phase, asked, gets,
                   transcriptBytes, draft>>

\* requireRoomMember and withRoomReadFence, in the transaction of every read.
Disclosed == ~barred

\* verifiedSafeDerivative: "ready" and its derivative commit together.
SafeDerivative == media = "ready"

\* createDownloadGrant: a URL is signed for a reader who may see the media now.
Servable == Disclosed /\ SafeDerivative

Rejoin ==
    /\ ~joined /\ Disclosed
    /\ joined' = TRUE
    /\ UNCHANGED <<transcriptServer, losses, statuses, roomShown, shown, known, phase, asked, gets,
                   transcriptBytes, draft>>

-----------------------------------------------------------------------------
(* The attachment *)

\* releaseLocalUrl, with the abort of the download.
Released ==
    /\ loads' = loads + 1 /\ download' = "idle"
    /\ urls' = (IF mine THEN urls - 1 ELSE urls)
    /\ mine' = FALSE
    /\ UNCHANGED loading

\* The effect that asks for the metadata.
AskMetadata ==
    /\ asked' = asked + 1
    /\ gets' = gets \cup {[by |-> asked + 1, read |-> {}]}
    /\ phase' = "loading"

ReadMetadata(g) ==
    /\ g \in gets /\ g.read = {} /\ Disclosed
    /\ gets' = (gets \ {g}) \cup {[g EXCEPT !.read = {media}]}
    /\ UNCHANGED <<transcriptServer, transcriptSocket, roomShown, shown, known, phase, asked,
                   transcriptBytes, draft>>

\* "Terminal frames may only make the view more restrictive."
Merged(read) == IF known \cap TerminalMedia # {} THEN CHOOSE s \in known : TRUE ELSE read

ReceiveMetadata(g) ==
    /\ g \in gets /\ g.read # {}
    /\ gets' = gets \ {g}
    /\ IF phase # "none" /\ g.by = asked
       THEN LET view == Merged(CHOOSE s \in g.read : TRUE)
            IN  /\ phase' = view
                /\ IF view = "ready" THEN UNCHANGED transcriptBytes ELSE Released
       ELSE UNCHANGED <<phase, transcriptBytes>>
    /\ UNCHANGED <<transcriptServer, transcriptSocket, roomShown, shown, known, asked, draft>>

MetadataFails(g) ==
    /\ g \in gets
    /\ gets' = gets \ {g}
    /\ IF phase # "none" /\ g.by = asked
       THEN phase' = "unavailable" /\ Released
       ELSE UNCHANGED <<phase, transcriptBytes>>
    /\ UNCHANGED <<transcriptServer, transcriptSocket, roomShown, shown, known, asked, draft>>

\* loadReadyAttachment.
BeginLoad ==
    /\ phase = "ready" /\ ~mine /\ download # "loading" /\ loads < MaxLoads
    /\ loads' = loads + 1
    /\ loading' = loading \cup {[by |-> loads + 1, signed |-> FALSE]}
    /\ download' = "loading"
    /\ UNCHANGED <<transcriptServer, transcriptSocket, roomShown, shown, known, phase, asked, gets, urls,
                   mine, draft>>

\* The page is given a signed URL, which outlives the right to ask for it.
GrantDownload(d) ==
    /\ d \in loading /\ ~d.signed /\ Servable
    /\ loading' = (loading \ {d}) \cup {[d EXCEPT !.signed = TRUE]}
    /\ UNCHANGED <<transcriptServer, transcriptSocket, roomShown, shown, known, phase, asked, gets, loads,
                   download, urls, mine, draft>>

\* A faulty BytesArrive: it does not compare the download's token.
BytesArriveUnguarded(d) ==
    /\ d \in loading /\ d.signed
    /\ loading' = loading \ {d}
    /\ urls' = urls + 1 /\ mine' = TRUE /\ download' = "idle"
    /\ UNCHANGED <<transcriptServer, transcriptSocket, roomShown, shown, known, phase, asked, gets, loads,
                   draft>>

\* The response and its body have come, checked against the token; a late one
\* makes no object URL.
BytesArrive(d) ==
    /\ d \in loading /\ d.signed
    /\ loading' = loading \ {d}
    /\ IF d.by = loads
       THEN urls' = urls + 1 /\ mine' = TRUE /\ download' = "idle"
       ELSE UNCHANGED <<urls, mine, download>>
    /\ UNCHANGED <<transcriptServer, transcriptSocket, roomShown, shown, known, phase, asked, gets, loads,
                   draft>>

\* The grant is refused, the URL, the response or its length is not what was
\* promised, or the transfer breaks off.
LoadFails(d) ==
    /\ d \in loading
    /\ loading' = loading \ {d}
    /\ download' = IF d.by = loads THEN "failed" ELSE download
    /\ UNCHANGED <<transcriptServer, transcriptSocket, roomShown, shown, known, phase, asked, gets, loads,
                   urls, mine, draft>>

-----------------------------------------------------------------------------
(* Events and frames at the page *)

\* The draft of a revision is dropped when the message or the room moves on.
DraftKept(status) == IF status = "open" THEN draft \cap {shown'} ELSE {}

\* append and #acceptEvent, and what the render makes of it: the attachment is
\* mounted with the message and unmounted when it is retracted.
ApplyEvent ==
    /\ joined /\ shown < Len(versions)
    /\ shown' = shown + 1
    /\ draft' = DraftKept(roomShown)
    /\ CASE shown = 0 /\ Shows(versions[1]) ->
              AskMetadata /\ UNCHANGED <<known, transcriptBytes>>
         [] ~Shows(versions[shown + 1]) ->
              /\ known' = {} /\ phase' = "none" /\ asked' = asked + 1
              /\ Released /\ UNCHANGED gets
         [] OTHER -> UNCHANGED <<known, phase, asked, gets, transcriptBytes>>
    /\ UNCHANGED <<transcriptServer, transcriptSocket, roomShown>>

\* media_status: kept for media the ledger shows; the attachment asks again,
\* and a terminal state takes the bytes away at once.
ReceiveStatus(s) ==
    /\ joined /\ s \in statuses
    /\ statuses' = statuses \ {s}
    /\ IF ~ActiveMedia THEN UNCHANGED <<known, phase, asked, gets, transcriptBytes>>
       ELSE /\ known' = {s}
            /\ AskMetadata
            /\ IF s \in TerminalMedia THEN Released ELSE UNCHANGED transcriptBytes
    /\ UNCHANGED <<transcriptServer, joined, losses, roomShown, shown, draft>>

CloseRoom ==
    /\ ~closed
    /\ closed' = TRUE
    /\ UNCHANGED <<media, versions, barred, transcriptSocket, roomShown, shown, known, phase, asked, gets,
                   transcriptBytes, draft>>

\* room.closed arrives, after every event before it.
ApplyClosed ==
    /\ joined /\ closed /\ roomShown = "open" /\ shown = Len(versions)
    /\ roomShown' = "closed"
    /\ draft' = DraftKept("closed") /\ shown' = shown
    /\ UNCHANGED <<transcriptServer, transcriptSocket, known, phase, asked, gets, transcriptBytes>>

\* The page learns that it was shut out and clears all it holds.
ClearState ==
    /\ barred /\ shown > 0
    /\ shown' = 0 /\ known' = {} /\ draft' = {} /\ roomShown' = "gone"
    /\ phase' = "none" /\ asked' = asked + 1
    /\ Released
    /\ UNCHANGED <<transcriptServer, transcriptSocket, gets>>

-----------------------------------------------------------------------------
(* The author *)

StartRevision ==
    /\ ActiveMedia /\ roomShown = "open" /\ draft = {}
    /\ draft' = {shown}
    /\ UNCHANGED <<transcriptServer, transcriptSocket, roomShown, shown, known, phase, asked, gets,
                   transcriptBytes>>

\* message.revise with the base revision of the draft; the server accepts it
\* if that is the latest one, and refuses it otherwise.
SendRevision ==
    /\ draft # {} /\ roomShown = "open"
    /\ draft' = {}
    /\ versions' = IF ~closed /\ ~barred /\ draft = {Len(versions)} /\ Len(versions) < MaxVersions
                   THEN Append(versions, "revised") ELSE versions
    /\ UNCHANGED <<media, closed, barred, transcriptSocket, roomShown, shown, known, phase, asked, gets,
                   transcriptBytes>>

-----------------------------------------------------------------------------

TranscriptNext ==
    \/ \E s \in Outcomes : CommitOutcome(s)
    \/ \E op \in {"revised", "retracted"} : CommitVersion(op)
    \/ LoseSocket \/ Rejoin \/ Bar \/ ClearState
    \/ ApplyEvent \/ CloseRoom \/ ApplyClosed
    \/ \E s \in statuses : ReceiveStatus(s)
    \/ \E g \in gets : ReadMetadata(g) \/ ReceiveMetadata(g) \/ MetadataFails(g)
    \/ BeginLoad
    \/ \E d \in loading : GrantDownload(d) \/ BytesArrive(d) \/ LoadFails(d)
    \/ StartRevision \/ SendRevision

TranscriptSpec == TranscriptInit /\ [][TranscriptNext]_transcriptVars

-----------------------------------------------------------------------------
(* Properties *)

\* However downloads, retractions, status frames, metadata answers and the loss
\* of the room overlap,
\* every object URL belongs to a mounted attachment that still holds it, none
\* to a message that was retracted (loadReadyAttachment, the cleanup effects).
BytesOwned ==
    /\ urls = IF mine THEN 1 ELSE 0
    /\ mine => ActiveMedia /\ phase \in {"ready", "loading"} /\ media = "ready"

\* A draft is open only on the revision the card shows, in an open room: what
\* the author sends is never a change of text the author has not seen.
DraftOnWhatIsShown == draft # {} => draft = {shown} /\ roomShown = "open" /\ ActiveMedia

\* An outcome was committed and its frame is on its way to a page ...
OutcomeTold == media \in Outcomes /\ media \in statuses /\ ActiveMedia

\* ... and the attachment shows it or that it cannot be confirmed, unless a
\* connection was lost.
OutcomeShown == phase \in {media, "unavailable", "none"} \/ losses > 0 \/ barred

\* "A lost frame costs a client one refresh": whatever was lost, a page that is
\* connected again comes to show the outcome.
\* The code does not keep this: see the observations in README.md.
LostFrameRefreshed ==
    (media \in Outcomes) ~> (phase \in {media, "unavailable"} \/ barred
                              \/ versions[Len(versions)] = "retracted")

\* The attachment's bytes and the open draft belong to what the card shows.
TranscriptSafe == BytesOwned /\ DraftOnWhatIsShown
=============================================================================

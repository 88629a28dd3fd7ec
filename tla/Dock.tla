--------------------------------- MODULE Dock ---------------------------------
(***************************************************************************)
(* The dock below the conversation in which a student writes: ChatPanel     *)
(* with the Composer, the tray for files (MediaComposer), the tray for the  *)
(* microphone (MediaRecorderControl), the slots the two trays share         *)
(* (MediaSlotReservations), the upload itself (uploadMediaFile) and the     *)
(* fate of the commands the dock sends.                                    *)
(*                                                                         *)
(* Between two awaits, and from an event to the effects of the render it    *)
(* causes, the page is not interrupted: that is one action.  An upload is   *)
(* named by the media id its grant will carry.  `token !== tokenRef.current' *)
(* and `controller.signal.aborted' always change together for an upload, so *)
(* one flag stands for both.                                               *)
(***************************************************************************)
EXTENDS Naturals, FiniteSets

CONSTANTS
    MaxMedia,    \* bound: uploads begun
    MaxCommands, \* bound: messages submitted
    MaxSlots,    \* media items a message may carry (4)
    MaxQueue,    \* MAX_PENDING_COMMANDS of the socket (100)
    MaxAsks,     \* bound: getUserMedia calls without an answer
    MaxTurns     \* bound: room status changes and tray toggles

ASSUME DockAssumption ==
    /\ MaxMedia \in Nat /\ MaxCommands \in Nat /\ MaxSlots \in Nat \ {0}
    /\ MaxQueue \in Nat /\ MaxAsks \in Nat /\ MaxTurns \in Nat

VARIABLES
    status,     \* sessionState.status
    turns,      \* status changes and toggles so far
    trays,      \* mediaTrays: the trays that are open
    file,       \* MediaComposer.selected: none, or fit to upload (with alt text if a picture)
    fphase,     \* MediaComposer.phase
    finished,   \* completedMediaIdRef, or {}
    mic,        \* MediaRecorderControl.phase; "off" when the tray is closed
    asks,       \* getUserMedia calls without an answer
    recording,  \* sessionRef is set
    open,       \* streams whose tracks run
    clip,       \* recordingRef
    up,         \* the uploads
    knownMedia,      \* MediaSlotReservations.#known
    inflight,   \* MediaSlotReservations.#inflight
    draftMedia,      \* draftMediaIds
    reply,      \* replyTo is set
    cmd,        \* what became of a command
    carried,    \* the media ids a command carries
    subs,       \* pendingSubmissions, by command id
    latest      \* latestCommandId, or {}

dockFiles == <<file, fphase, finished>>
dockMic == <<mic, asks, recording, open, clip>>
dockSlots == <<up, knownMedia, inflight, draftMedia>>
dockChat == <<reply, cmd, carried, subs, latest>>
dockVars == <<status, turns, trays, dockFiles, dockMic, dockSlots, dockChat>>

\* Media ids and command ids are fresh: they are drawn in order.
Uploads == 1 .. MaxMedia
Commands == 1 .. MaxCommands
Trays == {"files", "mic"}
Idle == [by |-> "none", step |-> "unused", aborted |-> FALSE]
Over == [by |-> "none", step |-> "over", aborted |-> FALSE]
Unresolved == {c \in Commands : cmd[c] = "sent"}

\* The trays as the student has set them in the room just entered.
DockInit ==
    /\ status = "open" /\ turns = 0
    /\ trays \in SUBSET Trays
    /\ file = "none" /\ fphase = "idle" /\ finished = {}
    /\ asks = 0
    /\ mic = IF "mic" \notin trays THEN "off" ELSE IF status = "open" THEN "idle" ELSE "disabled"
    /\ recording = FALSE /\ open = 0 /\ clip = FALSE
    /\ up = [m \in Uploads |-> Idle]
    /\ knownMedia = {} /\ inflight = 0 /\ draftMedia = {}
    /\ reply = FALSE
    /\ cmd = [c \in Commands |-> "unused"]
    /\ carried = [c \in Commands |-> {}]
    /\ subs = {} /\ latest = {}

-----------------------------------------------------------------------------
(* What the trays let go of. *)

\* controller.abort() of a tray's uploads.
Aborted(tray) ==
    [m \in Uploads |-> IF up[m].by = tray THEN [up[m] EXCEPT !.aborted = TRUE] ELSE up[m]]

\* MediaComposer.reset; completed media ids stay in the draft.
FilesReset == file' = "none" /\ fphase' = "idle" /\ finished' = {}

\* discardSession: handlers and timers go, the recorder and its tracks stop.
Discarded ==
    /\ recording' = FALSE
    /\ open' = IF recording THEN open - 1 ELSE open

\* releaseResources, the upload's abort excepted.
MicReleased == Discarded /\ clip' = FALSE

\* The status effect of a mounted MediaRecorderControl, in a browser that can
\* record (in one that cannot, the tray only says so).
MicPhaseFor(now) == mic' = IF now = "open" THEN "idle" ELSE "disabled"

SetStatus(s) ==
    /\ turns < MaxTurns /\ s # status
    /\ status' = s /\ turns' = turns + 1
    /\ IF "files" \in trays /\ s # "open" THEN FilesReset ELSE UNCHANGED dockFiles
    /\ IF "mic" \in trays THEN MicReleased /\ MicPhaseFor(s)
                         ELSE UNCHANGED <<mic, recording, open, clip>>
    /\ up' = [m \in Uploads |->
                IF \/ up[m].by = "files" /\ s # "open"
                   \/ up[m].by = "mic"
                THEN [up[m] EXCEPT !.aborted = TRUE] ELSE up[m]]
    /\ UNCHANGED <<trays, asks, knownMedia, inflight, draftMedia, dockChat>>

\* toggleMediaTray: a closed tray is unmounted, an open one starts afresh.
CloseTray(tray) ==
    /\ tray \in trays /\ turns < MaxTurns
    /\ turns' = turns + 1 /\ trays' = trays \ {tray}
    /\ up' = Aborted(tray)
    /\ IF tray = "files"
       THEN FilesReset /\ UNCHANGED <<mic, recording, open, clip>>
       ELSE MicReleased /\ mic' = "off" /\ UNCHANGED dockFiles
    /\ UNCHANGED <<status, asks, knownMedia, inflight, draftMedia, dockChat>>

OpenTray(tray) ==
    /\ tray \notin trays /\ turns < MaxTurns
    /\ turns' = turns + 1 /\ trays' = trays \cup {tray}
    /\ IF tray = "mic" THEN MicPhaseFor(status) ELSE UNCHANGED mic
    /\ UNCHANGED <<status, dockFiles, asks, recording, open, clip, dockSlots, dockChat>>

-----------------------------------------------------------------------------
(* The shared slots and the upload. *)

\* MediaSlotReservations.occupied
Occupied == Cardinality(knownMedia) + inflight

\* MediaSlotReservations.run, up to the first await of the upload.
ReserveSlot(m, tray) ==
    /\ up[m].step = "unused" /\ \A n \in Uploads : n < m => up[n].step # "unused"
    /\ Occupied < MaxSlots
    /\ inflight' = inflight + 1
    /\ up' = [Aborted(tray) EXCEPT ![m] = [by |-> tray, step |-> "running", aborted |-> FALSE]]
    /\ UNCHANGED <<knownMedia, draftMedia>>

\* MediaAttachmentLimitError: nothing is asked of the server.
NoSlot == Occupied >= MaxSlots /\ UNCHANGED <<up, knownMedia, inflight, draftMedia>>

\* The tray hears how its upload ended, unless it has let go of it.
ReportFiles(m, result) ==
    IF up[m].by = "files" /\ ~up[m].aborted
    THEN /\ fphase' = result
         /\ finished' = IF result = "attached" THEN {m} ELSE finished
    ELSE UNCHANGED <<fphase, finished>>

ReportRecorder(m, result) ==
    IF up[m].by = "mic" /\ ~up[m].aborted
    THEN mic' = result /\ clip' = (clip /\ result # "attached")
    ELSE UNCHANGED <<mic, clip>>

\* A faulty variant: a failed upload keeps its reservation (no finally).
UploadFailsReserved(m) ==
    /\ up[m].step = "running"
    /\ up' = [up EXCEPT ![m] = Over]
    /\ ReportFiles(m, "failed") /\ ReportRecorder(m, "failed")
    /\ UNCHANGED <<status, turns, trays, file, asks, recording, open, knownMedia, inflight, draftMedia,
                   dockChat>>

\* uploadMediaFile throws: the file is unusable; the grant is refused, expired
\* or not for this origin and checksum; the PUT or the complete call fails; or
\* one of the checks that follow every await notices an abort.  The slot is
\* free again.
UploadFails(m) ==
    /\ up[m].step = "running"
    /\ up' = [up EXCEPT ![m] = Over]
    /\ inflight' = inflight - 1
    /\ ReportFiles(m, "failed") /\ ReportRecorder(m, "failed")
    /\ UNCHANGED <<status, turns, trays, file, asks, recording, open, knownMedia, draftMedia, dockChat>>

\* completeMediaUpload has answered, and no check before noticed an abort: run
\* keeps the id, reservedMediaUpload puts it in the draft, the tray shows it.
UploadCompletes(m) ==
    /\ up[m].step = "running" /\ ~up[m].aborted
    /\ up' = [up EXCEPT ![m] = Over]
    /\ inflight' = inflight - 1
    /\ knownMedia' = knownMedia \cup {m} /\ draftMedia' = draftMedia \cup {m}
    /\ ReportFiles(m, "attached") /\ ReportRecorder(m, "attached")
    /\ UNCHANGED <<status, turns, trays, file, asks, recording, open, dockChat>>

-----------------------------------------------------------------------------
(* MediaComposer *)

\* select: the former file and its upload are dropped.
Select(f) ==
    /\ "files" \in trays /\ status = "open"
    /\ file' = f /\ fphase' = "idle" /\ finished' = {}
    /\ up' = Aborted("files")
    /\ UNCHANGED <<status, turns, trays, dockMic, knownMedia, inflight, draftMedia, dockChat>>

ClearFile ==
    /\ "files" \in trays /\ file # "none"
    /\ FilesReset /\ up' = Aborted("files")
    /\ UNCHANGED <<status, turns, trays, dockMic, knownMedia, inflight, draftMedia, dockChat>>

\* ~uploadDisabled
FileUploadOffered ==
    /\ status = "open" /\ file = "fit" /\ Cardinality(draftMedia) < MaxSlots
    /\ fphase \notin {"uploading", "attached"}

BeginUpload ==
    /\ "files" \in trays /\ FileUploadOffered
    /\ \/ \E m \in Uploads : ReserveSlot(m, "files") /\ fphase' = "uploading"
       \/ NoSlot /\ fphase' = "failed"
    /\ UNCHANGED <<status, turns, trays, file, finished, dockMic, dockChat>>

\* onRemoveReady, and reset if the tray still shows this item.
RemoveMedia(m) ==
    /\ "files" \in trays /\ status = "open" /\ m \in draftMedia
    /\ knownMedia' = knownMedia \ {m} /\ draftMedia' = draftMedia \ {m}
    /\ IF m \in finished THEN FilesReset /\ up' = Aborted("files")
                         ELSE UNCHANGED <<dockFiles, up>>
    /\ UNCHANGED <<status, turns, trays, dockMic, inflight, dockChat>>

-----------------------------------------------------------------------------
(* MediaRecorderControl *)

\* The recorder's buttons.
StartOffered == ~clip /\ ~recording /\ mic \notin {"requesting", "unsupported", "off"}
ClearOffered == mic \in {"requesting", "recording", "stopping"} \/ clip
RecordingUploadOffered == clip /\ status = "open" /\ mic \notin {"uploading", "attached"}

\* startRecording, up to getUserMedia.
AskMicrophone ==
    /\ StartOffered /\ status = "open" /\ asks < MaxAsks
    /\ mic \notin {"disabled", "requesting", "recording", "stopping", "uploading"}
    /\ MicReleased
    /\ mic' = "requesting" /\ asks' = asks + 1
    /\ UNCHANGED <<status, turns, trays, dockFiles, dockSlots, dockChat>>

\* A stream arrives for the request the tray still waits for: recorder, caps
\* and handlers are set up and the recording begins, or the stream is stopped.
MicrophoneGranted ==
    /\ mic = "requesting" /\ asks > 0 /\ asks' = asks - 1
    /\ \/ recording' = TRUE /\ open' = open + 1 /\ mic' = "recording"
       \/ mic' = "failed" /\ UNCHANGED <<recording, open>>
       \/ mic' = "unsupported" /\ UNCHANGED <<recording, open>>
    /\ UNCHANGED <<status, turns, trays, dockFiles, clip, dockSlots, dockChat>>

\* getUserMedia rejects: failStart.
MicrophoneDenied ==
    /\ mic = "requesting" /\ asks > 0 /\ asks' = asks - 1
    /\ mic' \in {"denied", "failed", "unsupported"}
    /\ UNCHANGED <<status, turns, trays, dockFiles, recording, open, clip, dockSlots, dockChat>>

\* A request that was cancelled is answered: its stream is stopped at once.
LateMicrophone ==
    /\ asks > (IF mic = "requesting" THEN 1 ELSE 0)
    /\ asks' = asks - 1
    /\ UNCHANGED <<status, turns, trays, dockFiles, mic, recording, open, clip, dockSlots,
                   dockChat>>

\* A chunk above the size cap, an error of the device, the two-minute timer
\* or the stop watchdog: the session is discarded.
RecordingLost ==
    /\ recording /\ Discarded /\ mic' = "failed"
    /\ UNCHANGED <<status, turns, trays, dockFiles, asks, clip, dockSlots, dockChat>>

\* The two timers are the recording's bound: recordingTimer until stop is
\* pressed, stopTimer from then on.
RecordingTimer == mic = "recording" /\ RecordingLost
StopWatchdog == mic = "stopping" /\ RecordingLost

StopRecording ==
    /\ mic = "recording" /\ recording /\ mic' = "stopping"
    /\ UNCHANGED <<status, turns, trays, dockFiles, asks, recording, open, clip, dockSlots,
                   dockChat>>

\* onstop, asked for or not: finishSession keeps a clip unless it is unusable.
RecorderStopped ==
    /\ recording /\ Discarded
    /\ \/ mic' = "recorded" /\ clip' = TRUE
       \/ mic' = "failed" /\ clip' = clip
    /\ UNCHANGED <<status, turns, trays, dockFiles, asks, dockSlots, dockChat>>

\* The cancel and clear buttons.
ClearRecording ==
    /\ ClearOffered
    /\ MicReleased /\ up' = Aborted("mic")
    /\ mic' = IF status # "open" THEN "disabled" ELSE "idle"
    /\ UNCHANGED <<status, turns, trays, dockFiles, asks, knownMedia, inflight, draftMedia, dockChat>>

UploadRecording ==
    /\ RecordingUploadOffered
    /\ \/ \E m \in Uploads : ReserveSlot(m, "mic") /\ mic' = "uploading"
       \/ NoSlot /\ mic' = "failed"
    /\ UNCHANGED <<status, turns, trays, dockFiles, asks, recording, open, clip, dockChat>>

-----------------------------------------------------------------------------
(* Composer and ChatPanel *)

\* onReply of a message card; the strip's close button is locked while a
\* submission replies to the message.
Reply ==
    /\ status = "open" /\ ~reply /\ reply' = TRUE
    /\ UNCHANGED <<status, turns, trays, dockFiles, dockMic, dockSlots, cmd, carried, subs,
                   latest>>

CancelReply ==
    /\ reply /\ \A s \in subs : ~s[2]
    /\ reply' = FALSE
    /\ UNCHANGED <<status, turns, trays, dockFiles, dockMic, dockSlots, cmd, carried, subs,
                   latest>>

\* canSend: with media, or with the text the student has typed.
CanSend == status = "open"

\* The bus makes a command of the intent and the socket queues it; with too
\* many media or a full queue both throw.
BusSend(c) ==
    /\ Cardinality(draftMedia) <= MaxSlots /\ Cardinality(Unresolved) < MaxQueue
    /\ cmd[c] = "unused" /\ \A d \in Commands : d < c => cmd[d] # "unused"
    /\ cmd' = [cmd EXCEPT ![c] = "sent"]
    /\ carried' = [carried EXCEPT ![c] = draftMedia]

\* sendIntent of the runtime and of the panel.
SendIntent(c) == status = "open" /\ BusSend(c) /\ latest' = {c}

\* The draft's media move to the submission; the files tray forgets the item
\* it still shows if that was among them.
OnCommandSent(c) ==
    /\ subs' = IF reply \/ draftMedia # {} THEN subs \cup {<<c, reply>>} ELSE subs
    /\ draftMedia' = {}
    /\ IF finished \cap draftMedia # {} THEN FilesReset /\ up' = Aborted("files")
                                   ELSE UNCHANGED <<dockFiles, up>>

\* submit.  If sendIntent throws (session or room gone, recovery failed, queue
\* full) the text and the media stay as they are.
Submit(c) ==
    /\ CanSend /\ SendIntent(c) /\ OnCommandSent(c)
    /\ UNCHANGED <<status, turns, trays, dockMic, knownMedia, inflight, reply>>

\* The server's final answer: an ack or the event, or a reject.  A retryable
\* reject leaves the command in the socket's queue and the submission pending.
Answered(c, fate) ==
    /\ c \in Unresolved
    /\ cmd' = [cmd EXCEPT ![c] = fate]
    /\ UNCHANGED <<status, turns, trays, dockFiles, dockMic, dockSlots, reply, carried,
                   subs, latest>>

\* The send receipt, which is about the latest command.
Receipt ==
    IF \E c \in latest : cmd[c] = "refused" THEN "refused"
    ELSE IF Unresolved # {} THEN "waiting" ELSE "none"

\* The settlement effect: all submissions the render found settled.
Settle ==
    LET settled == {s \in subs : cmd[s[1]] \in {"confirmed", "refused"}}
        confirmed == {s \in settled : cmd[s[1]] = "confirmed"}
        media(S) == UNION {carried[s[1]] : s \in S}
    IN /\ settled # {}
       /\ subs' = subs \ settled
       /\ draftMedia' = draftMedia \cup media(settled \ confirmed)
       /\ knownMedia' = knownMedia \ media(confirmed)
       /\ reply' = (reply /\ \A s \in confirmed : ~s[2])
       /\ UNCHANGED <<status, turns, trays, dockFiles, dockMic, up, inflight, cmd, carried,
                      latest>>

DockNext ==
    \/ \E s \in {"open", "paused", "closed"} : SetStatus(s)
    \/ \E tray \in Trays : OpenTray(tray) \/ CloseTray(tray)
    \/ \E m \in Uploads : UploadCompletes(m) \/ UploadFails(m) \/ RemoveMedia(m)
    \/ \E f \in {"none", "fit"} : Select(f)
    \/ ClearFile \/ BeginUpload
    \/ AskMicrophone \/ MicrophoneGranted \/ MicrophoneDenied \/ LateMicrophone
    \/ RecordingLost \/ RecordingTimer \/ StopWatchdog \/ StopRecording
    \/ RecorderStopped \/ ClearRecording \/ UploadRecording
    \/ Reply \/ CancelReply
    \/ \E c \in Commands : Submit(c)
    \/ \E c \in Commands, fate \in {"confirmed", "refused"} : Answered(c, fate)
    \/ Settle

DockSpec == DockInit /\ [][DockNext]_dockVars

-----------------------------------------------------------------------------
(* Properties *)

DockTypeOK ==
    /\ status \in {"open", "paused", "closed"} /\ turns \in 0 .. MaxTurns
    /\ trays \subseteq Trays
    /\ file \in {"none", "fit"}
    /\ fphase \in {"idle", "uploading", "attached", "failed"}
    /\ finished \subseteq Uploads
    /\ mic \in {"off", "disabled", "unsupported", "idle", "requesting", "recording", "stopping",
                "recorded", "uploading", "attached", "denied", "failed"}
    /\ asks \in 0 .. MaxAsks
    /\ recording \in BOOLEAN /\ open \in Nat /\ clip \in BOOLEAN
    /\ up \in [Uploads -> [by : Trays \cup {"none"}, step : {"unused", "running", "over"},
                        aborted : BOOLEAN]]
    /\ knownMedia \subseteq Uploads /\ inflight \in 0 .. MaxSlots /\ draftMedia \subseteq Uploads
    /\ reply \in BOOLEAN
    /\ cmd \in [Commands -> {"unused", "sent", "confirmed", "refused"}]
    /\ carried \in [Commands -> SUBSET Uploads]
    /\ subs \subseteq (Commands \X BOOLEAN)
    /\ latest \subseteq Commands

\* A microphone that is on is shown as on: whatever is cancelled, closed,
\* paused or answered late, tracks run only for the session the tray shows as
\* recording or stopping, in an open tray of an open room.
MicrophoneHonest ==
    /\ open = IF recording THEN 1 ELSE 0
    /\ open > 0 => /\ mic \in {"recording", "stopping"}
                   /\ "mic" \in trays /\ status = "open"

\* The slots the two trays share are the media in the draft, the media of
\* submissions that are not settled and the uploads under way, never more than
\* a message may carry: aborts, failures and refusals lose and keep none.
MediaAccounted ==
    /\ knownMedia = draftMedia \cup UNION {carried[s[1]] : s \in subs}
    /\ inflight = Cardinality({m \in Uploads : up[m].step = "running"})
    /\ Occupied <= MaxSlots

\* No media item is offered for, or carried by, a second message while the
\* first that carries it may still be, or was, accepted.
AttachedOnce ==
    \A c \in Commands : cmd[c] \in {"sent", "confirmed"} =>
        /\ carried[c] \cap draftMedia = {}
        /\ \A d \in Commands \ {c} :
              cmd[d] \in {"sent", "confirmed"} => carried[c] \cap carried[d] = {}

\* A microphone is on.
MicrophoneOn == open > 0

\* "an unconfirmed message is reported here": when a command is refused, the
\* receipt, which is about the latest command, says so.
\* The code does not keep this: see the observations in README.md.
RefusalsTold ==
    [][\A c \in Commands :
          cmd[c] = "sent" /\ cmd'[c] = "refused" => latest' = {c} /\ Receipt' = "refused"]_dockVars

\* The dock's microphone, slots and submissions are what its trays show.
DockSafe == DockTypeOK /\ MicrophoneHonest /\ MediaAccounted /\ AttachedOnce
=============================================================================

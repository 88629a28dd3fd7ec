---------------------------- MODULE MCAttachments ----------------------------
(***************************************************************************)
(* The three places an attachment passes through, for TLC: the student's    *)
(* dock, the server's media pipeline and a classmate's transcript.  A        *)
(* behaviour is one of the part its scene names; the others stay as they     *)
(* are at the start.  The pipeline has two scenes: "media" is all of it for  *)
(* one medium, "sweep" the uploads of every medium, with more grants than    *)
(* the janitor takes up per sweep.                                           *)
(***************************************************************************)
EXTENDS Media, Dock, Transcript

CONSTANT Solo   \* the medium of the scene "media"

VARIABLE scene

AttachmentsInit ==
    /\ scene \in {"media", "sweep", "dock", "transcript"}
    /\ MediaInit /\ DockInit /\ TranscriptInit
    /\ scene # "dock" => trays = {}

\* No grant but Solo's is ever reserved.
Alone == \A m \in Media \ {Solo} : asset'[m] = "none"

\* The room stays open; only Solo's upload is finalized, once (a retry would move the
\* fence) and with one attempt at its reconcile job, and it is not processed.
Unprocessed ==
    /\ room' = "open" /\ bound' = {}
    /\ (call = NoCall /\ call' # NoCall) =>
          \/ call'.op = "grant"
          \/ /\ call'.medium = Solo /\ intent[Solo] = NoCall
             /\ call'.correlation = CHOOSE c \in Calls : TRUE
    /\ tries'["reconcile"][Solo] <= 1 /\ tries'["process"][Solo] = 0

AttachmentsNext ==
    \/ /\ scene = "media" /\ MediaNext /\ Alone
       /\ UNCHANGED <<scene, dockVars, transcriptVars>>
    \/ /\ scene = "sweep" /\ MediaNext /\ Unprocessed
       /\ UNCHANGED <<scene, dockVars, transcriptVars>>
    \/ /\ scene = "dock" /\ DockNext
       /\ UNCHANGED <<scene, mediaVars, transcriptVars>>
    \/ /\ scene = "transcript" /\ TranscriptNext
       /\ UNCHANGED <<scene, mediaVars, dockVars>>

\* A step of the part of scene s; a step of the pipeline.
In(s, A) == scene = s /\ A
Uploading(A) == scene \in {"media", "sweep"} /\ A

\* Time passes and requests end; a call ends and releases its lock; the janitor's
\* timer fires again and again, and its store calls do not fail for ever.
MediaFairness ==
    /\ WF_mediaVars(Uploading(CallFails)) /\ WF_mediaVars(Uploading(JanitorDefers))
    /\ WF_mediaVars(Uploading(\E m \in Media : UrlExpires(m)))
    /\ WF_mediaVars(Uploading(\E m \in Media : PutEnds(m)))
    /\ WF_mediaVars(Uploading(\E m \in Media : CopyEnds(m)))
    /\ WF_mediaVars(Uploading(\E m \in Media : FencePasses(m)))
    /\ SF_mediaVars(Uploading(JanitorSelect)) /\ SF_mediaVars(Uploading(JanitorStaging))

\* The network answers or fails every call, and timers fire.
DockFairness ==
    /\ \A m \in Uploads : WF_dockVars(In("dock", UploadCompletes(m) \/ UploadFails(m)))
    /\ WF_dockVars(In("dock", RecordingTimer)) /\ WF_dockVars(In("dock", StopWatchdog))

\* Frames and events on an open socket arrive, requests are answered, the worker
\* reports an outcome.
TranscriptFairness ==
    /\ WF_transcriptVars(In("transcript", \E s \in Outcomes : CommitOutcome(s)))
    /\ WF_transcriptVars(In("transcript", Rejoin))
    /\ WF_transcriptVars(In("transcript", ApplyEvent))
    /\ WF_transcriptVars(In("transcript", \E s \in statuses : ReceiveStatus(s)))
    /\ WF_transcriptVars(In("transcript", \E g \in gets : ReadMetadata(g)))
    /\ WF_transcriptVars(In("transcript", \E g \in gets : ReceiveMetadata(g) \/ MetadataFails(g)))

AttachmentsSpec ==
    /\ AttachmentsInit
    /\ [][AttachmentsNext]_<<scene, mediaVars, dockVars, transcriptVars>>
    /\ MediaFairness /\ DockFairness /\ TranscriptFairness

\* What is under way ends.  The janitor gets to every staging object, late PUTs and
\* retried finalize calls notwithstanding, that its batch has room for; whatever the
\* student, the device and the room do, a microphone that was turned on is turned off
\* again (recordingTimer, stopTimer); a page that is told of an outcome comes to show
\* it (ReceiveStatus, ReadMetadata).
AttachmentsSettle ==
    (\/ Uploading(Unswept)
     \/ scene = "dock" /\ MicrophoneOn
     \/ scene = "transcript" /\ OutcomeTold)
    ~> (\/ Uploading(~Unswept)
        \/ scene = "dock" /\ ~MicrophoneOn
        \/ scene = "transcript" /\ OutcomeShown)
===============================================================================

--------------------------- MODULE AudioRecorder ----------------------------
(***************************************************************************)
(* A voice message: useAudioRecorder in the message input, the upload in   *)
(* pieces (uploadAudioBlob, AudioUploadService) and its delivery by        *)
(* BaileysService.sendAudioToConversation.                                 *)
(*                                                                         *)
(* A MediaRecorder stops in its own time: its last fragment and its `stop` *)
(* event come after the handler that asked for them.  The input keeps one  *)
(* reference to the recorder, one to the microphone, one to the interval   *)
(* and one list of fragments, whichever recording they belong to.          *)
(***************************************************************************)
EXTENDS Naturals, FiniteSets

CONSTANTS Recordings,     \* clicks on the record button (a bound)
          Dialogs,        \* conversations of the workspace
          Pieces,         \* pieces of 64 KB in a recording (a bound)
          NoDialog, NoRecording

VARIABLES recordings,     \* each click: its MediaRecorder, then its upload
          recorder,       \* the refs and the state of the message input
          uploads         \* the UploadSessions of the server: the pieces of each

audioVars == <<recordings, recorder, uploads>>

AudioInit ==
    /\ recordings = [r \in Recordings |->
                       [step |-> "none", chat |-> NoDialog, of |-> {}, cancelled |-> FALSE]]
    /\ recorder = [state |-> "idle", open |-> NoDialog, mounted |-> TRUE, current |-> NoRecording,
                   stream |-> NoRecording, timer |-> NoRecording, ticking |-> {}, chunks |-> {}]
    /\ uploads = [r \in {} |-> {}]

At(r, step) == recordings[r].step = step

\* The recordings once those of S have been told to stop, or their microphone is off.
Stopping(S) ==
    [r \in Recordings |->
        [recordings[r] EXCEPT !.step = IF r \in S /\ @ = "recording" THEN "ending" ELSE @]]

NoTimer == [recorder EXCEPT !.ticking = @ \ {recorder.timer}, !.timer = NoRecording]

-----------------------------------------------------------------------------
(* The message input. *)

\* The input is on the screen while a conversation is open, the same for all of them.
OpensDialog(c) ==
    /\ recorder.mounted /\ c # recorder.open
    /\ recorder' = [recorder EXCEPT !.open = c]
    /\ UNCHANGED <<recordings, uploads>>

\* The button stays while the browser asks for the microphone.
Clicks(r) ==
    /\ recorder.mounted /\ recorder.open # NoDialog
    /\ recorder.state = "idle" /\ At(r, "none")
    /\ recordings' = [recordings EXCEPT ![r].step = "asking", ![r].chat = recorder.open]
    /\ UNCHANGED <<recorder, uploads>>

Records(r) ==
    /\ At(r, "asking")
    /\ recordings' = [recordings EXCEPT ![r].step = "recording"]
    /\ recorder' = [recorder EXCEPT !.state = "recording", !.current = r, !.stream = r,
                                    !.timer = r, !.ticking = @ \cup {r}, !.chunks = {}]
    /\ UNCHANGED uploads

Denied(r) ==
    /\ At(r, "asking")
    /\ recordings' = [recordings EXCEPT ![r].step = "over"]
    /\ recorder' = [recorder EXCEPT !.state = "idle"]
    /\ UNCHANGED uploads

Fragment(r) ==
    /\ At(r, "recording")
    /\ recorder' = [recorder EXCEPT !.chunks = @ \cup {r}]
    /\ UNCHANGED <<recordings, uploads>>

StopAndSend ==
    /\ recorder.mounted /\ recorder.state = "recording"
    /\ recordings' = Stopping({recorder.current})
    /\ recorder' = NoTimer
    /\ UNCHANGED uploads

\* A minute has passed; the interval of a recording the input forgot runs on.
TimeIsUp(r) ==
    /\ r \in recorder.ticking
    /\ recordings' = Stopping({r})
    /\ recorder' = NoTimer
    /\ UNCHANGED uploads

\* Turning the microphone off ends the recording as well.
Cancel ==
    LET rs == {recorder.current, recorder.stream} IN
    /\ recorder.mounted /\ recorder.state = "recording"
    /\ recordings' = [r \in Recordings |->
                        [Stopping(rs)[r] EXCEPT
                            !.cancelled = @ \/ (r \in rs /\ At(r, "recording"))]]
    /\ recorder' = [NoTimer EXCEPT !.chunks = {}, !.current = NoRecording,
                                   !.stream = NoRecording, !.state = "idle"]
    /\ UNCHANGED uploads

\* The input goes away for good (a bound: it is not mounted again).
Unmounts ==
    /\ recorder.mounted
    /\ recordings' = Stopping({recorder.stream})
    /\ recorder' = [NoTimer EXCEPT !.mounted = FALSE, !.open = NoDialog, !.stream = NoRecording]
    /\ UNCHANGED uploads

-----------------------------------------------------------------------------
(* The recorder has stopped: what was collected is uploaded. *)

\* `stop` follows the last fragment, which may be empty. What is sent is whatever the
\* list holds, and goes to the conversation this recording's button was clicked in.
Stopped(r) ==
    /\ At(r, "ending")
    /\ \E last \in {{}, {r}} :
          LET blob == recorder.chunks \cup last IN
          /\ recordings' = [Stopping({recorder.stream}) EXCEPT
                              ![r].step = IF blob = {} THEN "over" ELSE "starting",
                              ![r].of = blob]
          /\ recorder' = [recorder EXCEPT !.chunks = {}, !.stream = NoRecording,
                                          !.state = IF blob = {} THEN "idle" ELSE "sending"]
    /\ UNCHANGED uploads

\* Every start drops the sessions that are ten minutes old.
StartsUpload(r) ==
    /\ At(r, "starting")
    /\ \E kept \in SUBSET DOMAIN uploads :
          uploads' = [s \in kept \cup {r} |-> IF s = r THEN {} ELSE uploads[s]]
    /\ recordings' = [recordings EXCEPT ![r].step = "uploading"]
    /\ UNCHANGED recorder

\* One piece after the other.
AddsChunk(r) ==
    /\ At(r, "uploading") /\ r \in DOMAIN uploads
    /\ Cardinality(uploads[r]) < Pieces
    /\ uploads' = [uploads EXCEPT ![r] = @ \cup {Cardinality(@)}]
    /\ UNCHANGED <<recordings, recorder>>

\* The session is dropped before the pieces are written, converted and sent.
Completes(r) ==
    /\ At(r, "uploading") /\ r \in DOMAIN uploads
    /\ uploads[r] = 0 .. Pieces - 1
    /\ uploads' = [s \in DOMAIN uploads \ {r} |-> uploads[s]]
    /\ recordings' = [recordings EXCEPT ![r].step = "merged"]
    /\ UNCHANGED recorder

\* sock.sendMessage; then createAudio and the event of the new message.
Sends(r) ==
    /\ At(r, "merged")
    /\ recordings' = [recordings EXCEPT ![r].step = "heard"]
    /\ UNCHANGED <<recorder, uploads>>

\* Mutant of UploadEnds: only an audio that was delivered shows the button again.
UploadEndsWell(r) ==
    /\ recordings[r].step \in {"starting", "uploading", "merged", "heard"}
    /\ recordings' = [recordings EXCEPT ![r].step = IF @ = "heard" THEN "delivered" ELSE "over"]
    /\ recorder' = [recorder EXCEPT !.state = IF At(r, "heard") THEN "idle" ELSE @]
    /\ UNCHANGED uploads

\* The last step, or a failure of any: no session or conversation, no socket, the
\* disk, the network.  The input shows its button again, whoever records.
UploadEnds(r) ==
    /\ recordings[r].step \in {"starting", "uploading", "merged", "heard"}
    /\ recordings' = [recordings EXCEPT ![r].step = IF @ = "heard" THEN "delivered" ELSE "over"]
    /\ recorder' = [recorder EXCEPT !.state = "idle"]
    /\ UNCHANGED uploads

AudioNext ==
    \/ (\E c \in Dialogs : OpensDialog(c)) \/ StopAndSend \/ Cancel \/ Unmounts
    \/ \E r \in Recordings :
          \/ Clicks(r) \/ Records(r) \/ Denied(r) \/ Fragment(r) \/ TimeIsUp(r) \/ Stopped(r)
          \/ StartsUpload(r) \/ AddsChunk(r) \/ Completes(r) \/ Sends(r) \/ UploadEnds(r)

AudioSpec == AudioInit /\ [][AudioNext]_audioVars

-----------------------------------------------------------------------------
\* message-view.tsx: an input that says it records has a recorder that will stop, and one
\* that says it sends has an upload that will end; through cancelled, denied and forgotten
\* recordings it is never left without the button that starts the next.
InputIsAwaited ==
    /\ recorder.state = "recording" =>
           /\ recorder.current \in Recordings
           /\ recordings[recorder.current].step \in {"recording", "ending"}
    /\ recorder.state = "sending" =>
           \E r \in Recordings : recordings[r].step \in {"starting", "uploading", "merged", "heard"}

\* message-view.tsx labels a button "Cancelar gravação": nothing of a cancelled
\* recording is sent.
CancelledIsNotSent ==
    \A r \in Recordings : At(r, "heard") => \A s \in recordings[r].of : ~recordings[s].cancelled
=============================================================================

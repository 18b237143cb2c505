----------------------------- MODULE DeskProofs ------------------------------
(***************************************************************************)
(* Theorems about the pages of Pages that talk to one conversation or one  *)
(* workspace, for every value of the constants: ChatDesk, AudioRecorder    *)
(* and ConnectPage.                                                        *)
(*                                                                         *)
(* A note is where it belongs because every list, every answer on its way  *)
(* and every call that has found its note speaks of notes that were made   *)
(* (NotesWereMade), and the answer to a creation of the conversation that  *)
(* was asked (MadeWhereAsked).  That an input that is busy, and a page     *)
(* that says it asks, have what they wait for is inductive as it stands.   *)
(***************************************************************************)
EXTENDS Pages, TLAPS

\* The fields and domains of the state.
DeskShape ==
    /\ DOMAIN notebook = {"stored", "created", "deleted", "old", "chat", "owner"}
    /\ DOMAIN notebook.chat = Notes
    /\ DOMAIN desk = {"active", "details", "form", "deleting", "listed"}
    /\ DOMAIN desk.listed = Places
    /\ DOMAIN deskCalls = Slots
    /\ \A t \in Slots : DOMAIN deskCalls[t] = {"op", "step", "by", "chat", "note", "seen"}

\* The notes that are talked of were made, and a note is deleted once it was made.
NotesWereMade ==
    /\ notebook.created \subseteq Notes /\ notebook.deleted \subseteq notebook.created
    /\ \A c \in Places : desk.listed[c] \subseteq notebook.created
    /\ \A t \in Slots : deskCalls[t].seen \subseteq notebook.created
    /\ \A t \in Slots : deskCalls[t].step = "found" => deskCalls[t].note \in notebook.created

\* A note that was made is on its way to the conversation it was made in.
MadeWhereAsked ==
    \A t \in Slots : deskCalls[t].op = "create" /\ deskCalls[t].step = "done" =>
        /\ deskCalls[t].note \in notebook.created
        /\ notebook.chat[deskCalls[t].note] = deskCalls[t].chat

\* The inductive invariant of ChatDesk.
DeskInv == DeskShape /\ NotesWereMade /\ MadeWhereAsked /\ NotesAreNotLost /\ NotesStayInTheirChat

-----------------------------------------------------------------------------
\* A call as a button sends it.
IsNew(call) ==
    /\ DOMAIN call = {"op", "step", "by", "chat", "note", "seen"}
    /\ call.step \in {"sent", "failed"} /\ call.seen = {}

\* Every button makes such a call.
LEMMA NewCalls ==
    ASSUME NEW op, NEW u, NEW c
    PROVE  /\ IsNew(Desk!Call(op, u, c))
           /\ \A n : IsNew([Desk!Call(op, u, c) EXCEPT !.note = n])
           /\ IsNew([Desk!Call(op, u, c) EXCEPT !.step = "failed"])
<1> DEFINE call == Desk!Call(op, u, c)
<1>1. /\ DOMAIN call = {"op", "step", "by", "chat", "note", "seen"}
      /\ call.step = "sent" /\ call.seen = {}
  BY DEF Desk!Call, Desk!NoCall
<1> HIDE DEF call
<1>2. ASSUME NEW n PROVE IsNew([call EXCEPT !.note = n])
  BY <1>1 DEF IsNew
<1>3. IsNew([call EXCEPT !.step = "failed"])
  BY <1>1 DEF IsNew
<1>4. IsNew(call)
  BY <1>1 DEF IsNew
<1> QED  BY <1>2, <1>3, <1>4 DEF call

\* Before the first panel is opened.
LEMMA DeskStarts == Desk!DeskInit => DeskInv
BY DEF Desk!DeskInit, DeskInv, DeskShape, NotesWereMade, MadeWhereAsked, NotesAreNotLost,
       NotesStayInTheirChat, Desk!NotesAreNotLost, Desk!NotesStayInTheirChat, Desk!NoForm, Desk!NoCall

\* No panel lists other notes than before.
ListsRest ==
    DOMAIN desk'.listed = Places /\ \A c \in Places : desk'.listed[c] = desk.listed[c]

\* A call that says nothing of its note, or nothing new.
CallRests(t) ==
    /\ DOMAIN deskCalls'[t] = {"op", "step", "by", "chat", "note", "seen"}
    /\ deskCalls'[t].seen \subseteq notebook.created
    /\ deskCalls'[t].step = "found" => deskCalls'[t].note \in notebook.created
    /\ deskCalls'[t].op = "create" /\ deskCalls'[t].step = "done" => deskCalls'[t] = deskCalls[t]

\* A step that touches neither the notes nor a list of them.
LEMMA NotesRest ==
    ASSUME DeskInv, UNCHANGED notebook,
           DOMAIN desk' = DOMAIN desk, ListsRest,
           DOMAIN deskCalls' = Slots, \A t \in Slots : CallRests(t)
    PROVE  DeskInv'
BY DEF ListsRest, CallRests, DeskInv, DeskShape, NotesWereMade, MadeWhereAsked, NotesAreNotLost,
       NotesStayInTheirChat, Desk!NotesAreNotLost, Desk!NotesStayInTheirChat

\* The same of a step that gives one call another value.
LEMMA OneCall ==
    ASSUME DeskInv, NEW t \in Slots, NEW c, deskCalls' = [deskCalls EXCEPT ![t] = c],
           IsNew(c) \/ c = Desk!NoCall
    PROVE  DOMAIN deskCalls' = Slots /\ \A u \in Slots : CallRests(u)
BY DEF IsNew, Desk!NoCall, CallRests, DeskInv, DeskShape, NotesWereMade

\* What is clicked in a panel before anything is called.
LEMMA PanelKeeps ==
    ASSUME DeskInv,
           \/ \E c \in Places : Desk!Opens(c)
           \/ Desk!TogglesDetails \/ Desk!CancelsForm
           \/ \E kind \in Desk!Kinds, n \in Notes \cup {None} : Desk!OpensForm(kind, n)
    PROVE  DeskInv'
<1>1. UNCHANGED <<notebook, deskCalls>>
  BY DEF Desk!Opens, Desk!TogglesDetails, Desk!CancelsForm, Desk!OpensForm
<1>2. DOMAIN desk' = DOMAIN desk /\ desk'.listed = desk.listed
  BY DEF DeskInv, DeskShape, Desk!Opens, Desk!TogglesDetails, Desk!CancelsForm, Desk!OpensForm
<1> QED
  BY <1>1, <1>2 DEF DeskInv, DeskShape, NotesWereMade, MadeWhereAsked, NotesAreNotLost,
    NotesStayInTheirChat, Desk!NotesAreNotLost, Desk!NotesStayInTheirChat

\* A call is sent.
LEMMA CallsKeep ==
    ASSUME DeskInv, NEW t \in Slots,
           \/ Desk!Lists(t) \/ Desk!SavesForm(t) \/ Desk!ClosesConversation(t)
           \/ \E n \in Notes : Desk!DeletesNote(t, n)
           \/ Desk!ColleagueCalls(t)
    PROVE  DeskInv'
<1>1. UNCHANGED notebook
  BY DEF Desk!Lists, Desk!SavesForm, Desk!ClosesConversation, Desk!DeletesNote, Desk!ColleagueCalls
<1>2. DOMAIN desk' = DOMAIN desk /\ desk'.listed = desk.listed
  BY DEF DeskInv, DeskShape, Desk!Lists, Desk!SavesForm, Desk!ClosesConversation, Desk!DeletesNote,
     Desk!ColleagueCalls
<1>3. PICK call : deskCalls' = [deskCalls EXCEPT ![t] = call] /\ IsNew(call)
  <2>1. CASE Desk!Lists(t)
    <3> DEFINE list == Desk!Call("list", "Ana", None)
    <3>1. deskCalls' = [deskCalls EXCEPT ![t] = list]
      BY <2>1 DEF Desk!Lists, Desk!Sends
    <3>2. IsNew(list)
      BY NewCalls
    <3> HIDE DEF list
    <3> QED  BY <3>1, <3>2
  <2>2. CASE Desk!SavesForm(t)
    <3> DEFINE save == [Desk!Call(desk.form.kind, "Ana", desk.active) EXCEPT !.note = desk.form.note]
    <3>1. deskCalls' = [deskCalls EXCEPT ![t] = save]
      BY <2>2 DEF Desk!SavesForm, Desk!Sends
    <3>2. IsNew(save)
      BY NewCalls
    <3> HIDE DEF save
    <3> QED  BY <3>1, <3>2
  <2>3. CASE Desk!ClosesConversation(t)
    <3> DEFINE close == [Desk!Call("close", "Ana", desk.active) EXCEPT !.step = "failed"]
    <3>1. deskCalls' = [deskCalls EXCEPT ![t] = close]
      BY <2>3 DEF Desk!ClosesConversation, Desk!Sends
    <3>2. IsNew(close)
      BY NewCalls
    <3> HIDE DEF close
    <3> QED  BY <3>1, <3>2
  <2>4. CASE \E n \in Notes : Desk!DeletesNote(t, n)
    <3> PICK n \in Notes : Desk!DeletesNote(t, n)
      BY <2>4
    <3> DEFINE delete == [Desk!Call("delete", "Ana", desk.active) EXCEPT !.note = n]
    <3>1. deskCalls' = [deskCalls EXCEPT ![t] = delete]
      BY DEF Desk!DeletesNote, Desk!Sends
    <3>2. IsNew(delete)
      BY NewCalls
    <3> HIDE DEF delete
    <3> QED  BY <3>1, <3>2
  <2>5. CASE Desk!ColleagueCalls(t)
    <3>1. CASE \E c \in Places : Desk!Sends(t, Desk!Call("create", "colleague", c))
      <4> PICK c \in Places : Desk!Sends(t, Desk!Call("create", "colleague", c))
        BY <3>1
      <4> DEFINE create == Desk!Call("create", "colleague", c)
      <4>1. deskCalls' = [deskCalls EXCEPT ![t] = create] /\ IsNew(create)
        BY NewCalls DEF Desk!Sends
      <4> HIDE DEF create
      <4> QED  BY <4>1
    <3>2. CASE \E n \in notebook.stored, op \in {"update", "delete"} :
                 Desk!Sends(t, [Desk!Call(op, "colleague", notebook.chat[n]) EXCEPT !.note = n])
      <4> PICK n \in notebook.stored, op \in {"update", "delete"} :
                 Desk!Sends(t, [Desk!Call(op, "colleague", notebook.chat[n]) EXCEPT !.note = n])
        BY <3>2
      <4> DEFINE change == [Desk!Call(op, "colleague", notebook.chat[n]) EXCEPT !.note = n]
      <4>1. deskCalls' = [deskCalls EXCEPT ![t] = change] /\ IsNew(change)
        BY NewCalls DEF Desk!Sends
      <4> HIDE DEF change
      <4> QED  BY <4>1
    <3> QED  BY <2>5, <3>1, <3>2 DEF Desk!ColleagueCalls
  <2> QED  BY <2>1, <2>2, <2>3, <2>4, <2>5
<1>4. DOMAIN deskCalls' = Slots /\ \A v \in Slots : CallRests(v)
  BY <1>3, OneCall
<1> QED  BY <1>1, <1>2, <1>4, NotesRest DEF ListsRest, DeskInv, DeskShape

\* The server reads, refuses or fails; what it writes to a note is not its place.
LEMMA ServerKeeps ==
    ASSUME DeskInv, NEW t \in Slots,
           Desk!FindsNote(t) \/ Desk!UpdatesNote(t) \/ Desk!ReadsList(t) \/ Desk!TakesForm(t) \/ Desk!CallFails(t)
    PROVE  DeskInv'
<1>1. UNCHANGED <<notebook, desk>>
  BY DEF Desk!FindsNote, Desk!UpdatesNote, Desk!ReadsList, Desk!TakesForm, Desk!CallFails
<1>2. notebook.stored \subseteq notebook.created
  BY DEF DeskInv, NotesAreNotLost, Desk!NotesAreNotLost
<1>3. DOMAIN deskCalls' = Slots /\ \A u \in Slots : CallRests(u)
  <2> USE DEF CallRests, DeskInv, DeskShape, NotesWereMade, Desk!Moves, Desk!Waiting
  <2>1. CASE Desk!FindsNote(t)
    BY <1>2, <2>1 DEF Desk!FindsNote, Desk!StoredIn
  <2>2. CASE Desk!UpdatesNote(t)
    BY <2>2 DEF Desk!UpdatesNote
  <2>3. CASE Desk!ReadsList(t)
    BY <1>2, <2>3 DEF Desk!ReadsList
  <2>4. CASE Desk!TakesForm(t)
    BY <2>4 DEF Desk!TakesForm
  <2>5. CASE Desk!CallFails(t)
    BY <2>5 DEF Desk!CallFails
  <2> QED  BY <2>1, <2>2, <2>3, <2>4, <2>5
<1> QED  BY <1>1, <1>3, NotesRest DEF ListsRest, DeskInv, DeskShape

\* The answers that change no list.
LEMMA AnswersRest ==
    ASSUME DeskInv, NEW t \in Slots,
           \/ Desk!FormAnswered(t) /\ deskCalls[t].op # "create"
           \/ Desk!FailureAnswered(t) \/ Desk!ColleagueAnswered(t)
    PROVE  DeskInv'
<1>1. UNCHANGED notebook /\ Desk!Ends(t)
  BY DEF Desk!FormAnswered, Desk!FailureAnswered, Desk!ColleagueAnswered
<1>2. DOMAIN desk' = DOMAIN desk /\ ListsRest
  <2> USE DEF ListsRest, DeskInv, DeskShape, Desk!Waiting
  <2>1. CASE Desk!FormAnswered(t) /\ deskCalls[t].op # "create"
    BY <2>1 DEF Desk!FormAnswered
  <2>2. CASE Desk!FailureAnswered(t)
    BY <2>2 DEF Desk!FailureAnswered
  <2>3. CASE Desk!ColleagueAnswered(t)
    BY <2>3 DEF Desk!ColleagueAnswered
  <2> QED  BY <2>1, <2>2, <2>3
<1>3. DOMAIN deskCalls' = Slots /\ \A u \in Slots : CallRests(u)
  BY <1>1, OneCall DEF Desk!Ends
<1> QED  BY <1>1, <1>2, <1>3, NotesRest

\* An answer changes the list of a panel, or brings one.
LEMMA ListsKeep ==
    ASSUME DeskInv, NEW t \in Slots,
           \/ Desk!FormAnswered(t) /\ deskCalls[t].op = "create"
           \/ Desk!DeleteAnswered(t) \/ Desk!ListAnswered(t)
    PROVE  DeskInv'
<1>1. UNCHANGED notebook /\ Desk!Ends(t)
  BY DEF Desk!FormAnswered, Desk!DeleteAnswered, Desk!ListAnswered
<1>2. DOMAIN deskCalls' = Slots /\ \A u \in Slots : CallRests(u)
  BY <1>1, OneCall DEF Desk!Ends
<1>3. DOMAIN desk' = DOMAIN desk /\ DOMAIN desk'.listed = Places
  <2> USE DEF DeskInv, DeskShape
  <2>1. CASE Desk!FormAnswered(t) /\ deskCalls[t].op = "create"
    BY <2>1 DEF Desk!FormAnswered
  <2>2. CASE Desk!DeleteAnswered(t)
    BY <2>2 DEF Desk!DeleteAnswered
  <2>3. CASE Desk!ListAnswered(t)
    BY <2>3 DEF Desk!ListAnswered
  <2> QED  BY <2>1, <2>2, <2>3
<1>4. \A c \in Places : \A n \in desk'.listed[c] : n \in notebook.created /\ notebook.chat[n] = c
  <2> USE DEF DeskInv, DeskShape, NotesWereMade, MadeWhereAsked, NotesStayInTheirChat, Desk!NotesStayInTheirChat,
        Desk!Waiting, Desk!AnswerChat
  <2>1. CASE Desk!FormAnswered(t) /\ deskCalls[t].op = "create"
    <3>1. desk'.listed = [desk.listed EXCEPT ![deskCalls[t].chat] = @ \cup {deskCalls[t].note}]
      BY <2>1 DEF Desk!FormAnswered
    <3> QED  BY <2>1, <3>1 DEF Desk!FormAnswered
  <2>2. CASE Desk!DeleteAnswered(t)
    <3>1. desk'.listed = [desk.listed EXCEPT ![deskCalls[t].chat] = @ \ {deskCalls[t].note}]
      BY <2>2 DEF Desk!DeleteAnswered
    <3> QED  BY <3>1
  <2>3. CASE Desk!ListAnswered(t)
    BY <2>3 DEF Desk!ListAnswered
  <2> QED  BY <2>1, <2>2, <2>3
<1> QED
  BY <1>1, <1>2, <1>3, <1>4 DEF CallRests, DeskInv, DeskShape, NotesWereMade, MadeWhereAsked, NotesAreNotLost,
    NotesStayInTheirChat, Desk!NotesAreNotLost, Desk!NotesStayInTheirChat

\* A note is made, under the conversation of its call.
LEMMA CreateKeeps ==
    ASSUME DeskInv, NEW t \in Slots, Desk!CreatesNote(t)
    PROVE  DeskInv'
<1>1. PICK n \in Notes \ notebook.created :
        /\ notebook'.stored = notebook.stored \cup {n} /\ notebook'.created = notebook.created \cup {n}
        /\ notebook'.deleted = notebook.deleted
        /\ notebook'.chat = [notebook.chat EXCEPT ![n] = deskCalls[t].chat]
        /\ DOMAIN notebook' = DOMAIN notebook
        /\ deskCalls' = [deskCalls EXCEPT ![t].step = "done", ![t].note = n]
  BY DEF DeskInv, DeskShape, Desk!CreatesNote
<1>2. UNCHANGED desk
  BY DEF Desk!CreatesNote
<1>3. /\ DOMAIN deskCalls' = Slots
      /\ \A u \in Slots \ {t} : deskCalls'[u] = deskCalls[u]
      /\ DOMAIN deskCalls'[t] = DOMAIN deskCalls[t]
      /\ deskCalls'[t].step = "done" /\ deskCalls'[t].note = n
      /\ deskCalls'[t].chat = deskCalls[t].chat /\ deskCalls'[t].seen = deskCalls[t].seen
  BY <1>1 DEF DeskInv, DeskShape
<1>4. DeskShape' /\ NotesWereMade'
  BY <1>1, <1>2, <1>3 DEF DeskInv, DeskShape, NotesWereMade
<1>5. MadeWhereAsked'
  BY <1>1, <1>3 DEF DeskInv, DeskShape, MadeWhereAsked
<1>6. NotesAreNotLost'
  BY <1>1 DEF DeskInv, NotesWereMade, NotesAreNotLost, Desk!NotesAreNotLost
<1>7. NotesStayInTheirChat'
  BY <1>1, <1>2 DEF DeskInv, DeskShape, NotesWereMade, NotesStayInTheirChat, Desk!NotesStayInTheirChat
<1> QED  BY <1>4, <1>5, <1>6, <1>7 DEF DeskInv

\* A note is deleted, or gets too old to be changed.
LEMMA NotebookKeeps ==
    ASSUME DeskInv,
           (\E t \in Slots : Desk!DropsNote(t)) \/ (\E n \in Notes : Desk!Ages(n))
    PROVE  DeskInv'
<1> USE DEF DeskInv, DeskShape
<1>1. UNCHANGED desk /\ DOMAIN notebook' = DOMAIN notebook
      /\ notebook'.created = notebook.created /\ notebook'.chat = notebook.chat
  BY DEF Desk!DropsNote, Desk!Ages
<1>2. DOMAIN deskCalls' = Slots /\ \A u \in Slots : CallRests(u)
  <2> USE DEF CallRests, NotesWereMade
  <2>1. ASSUME NEW t \in Slots, Desk!DropsNote(t)
        PROVE  DOMAIN deskCalls' = Slots /\ \A u \in Slots : CallRests(u)
    BY <2>1 DEF Desk!DropsNote, Desk!Moves, Desk!Waiting
  <2>2. CASE \E n \in Notes : Desk!Ages(n)
    BY <2>2 DEF Desk!Ages
  <2> QED  BY <2>1, <2>2
<1>3. NotesAreNotLost' /\ notebook'.deleted \subseteq notebook.created
  <2>1. ASSUME NEW t \in Slots, Desk!DropsNote(t)
        PROVE  NotesAreNotLost' /\ notebook'.deleted \subseteq notebook.created
    <3>1. deskCalls[t].note \in notebook.created
      BY <2>1 DEF Desk!DropsNote, NotesWereMade
    <3>2. /\ notebook'.stored = notebook.stored \ {deskCalls[t].note}
          /\ notebook'.deleted = notebook.deleted \cup {deskCalls[t].note}
      BY <2>1 DEF Desk!DropsNote
    <3> QED  BY <1>1, <3>1, <3>2 DEF NotesWereMade, NotesAreNotLost, Desk!NotesAreNotLost
  <2>2. CASE \E n \in Notes : Desk!Ages(n)
    BY <1>1, <2>2 DEF Desk!Ages, NotesWereMade, NotesAreNotLost, Desk!NotesAreNotLost
  <2> QED  BY <2>1, <2>2
<1> QED
  BY <1>1, <1>2, <1>3 DEF CallRests, NotesWereMade, MadeWhereAsked, NotesStayInTheirChat,
    Desk!NotesStayInTheirChat

\* Every step of ChatDesk.
LEMMA DeskStepKeeps == DeskInv /\ Desk!DeskNext => DeskInv'
<1> SUFFICES ASSUME DeskInv, Desk!DeskNext PROVE DeskInv'
  OBVIOUS
<1>1. CASE \/ \E c \in Places : Desk!Opens(c)
           \/ Desk!TogglesDetails \/ Desk!CancelsForm
           \/ \E kind \in Desk!Kinds, n \in Notes \cup {None} : Desk!OpensForm(kind, n)
  BY <1>1, PanelKeeps
<1>2. CASE \E n \in Notes : Desk!Ages(n)
  BY <1>2, NotebookKeeps
<1>3. ASSUME NEW t \in Slots,
             \/ Desk!Lists(t) \/ Desk!SavesForm(t) \/ Desk!ClosesConversation(t)
             \/ \E n \in Notes : Desk!DeletesNote(t, n)
             \/ Desk!ColleagueCalls(t)
             \/ Desk!CreatesNote(t) \/ Desk!FindsNote(t) \/ Desk!UpdatesNote(t) \/ Desk!DropsNote(t)
             \/ Desk!ReadsList(t) \/ Desk!TakesForm(t) \/ Desk!CallFails(t)
             \/ Desk!FormAnswered(t) \/ Desk!DeleteAnswered(t) \/ Desk!ListAnswered(t)
             \/ Desk!FailureAnswered(t) \/ Desk!ColleagueAnswered(t)
      PROVE DeskInv'
  BY <1>3, CallsKeep, ServerKeeps, AnswersRest, ListsKeep, CreateKeeps, NotebookKeeps
<1> QED  BY <1>1, <1>2, <1>3 DEF Desk!DeskNext

-----------------------------------------------------------------------------
\* The fields of the recordings and of the input.
VoiceShape ==
    /\ DOMAIN recordings = Slots
    /\ \A r \in Slots : DOMAIN recordings[r] = {"step", "chat", "of", "cancelled"}
    /\ DOMAIN recorder = {"state", "open", "mounted", "current", "stream", "timer", "ticking", "chunks"}

\* The inductive invariant of AudioRecorder.
VoiceInv == VoiceShape /\ InputIsAwaited

\* A recording that will stop, and one that is being sent.
WillStop(step) == step \in {"recording", "ending"}

IsSent(step) == step \in {"starting", "uploading", "merged", "heard"}

\* Recordings rs that still stop, and are still sent, where they did and were.
GoOn(rs) ==
    /\ DOMAIN rs = Slots
    /\ \A r \in Slots :
          /\ DOMAIN rs[r] = DOMAIN recordings[r]
          /\ WillStop(recordings[r].step) => WillStop(rs[r].step)
          /\ IsSent(recordings[r].step) => IsSent(rs[r].step)

\* stop() of the MediaRecorder only ends what records.
LEMMA StoppingGoesOn ==
    ASSUME VoiceShape, NEW S
    PROVE  GoOn(Voice!Stopping(S))
BY DEF GoOn, WillStop, IsSent, VoiceShape, Voice!Stopping

\* Before the first recording.
LEMMA VoiceStarts == Voice!AudioInit => VoiceInv
BY DEF Voice!AudioInit, VoiceInv, VoiceShape, InputIsAwaited, Voice!InputIsAwaited

\* A step after which the input waits for what it waited for, or for nothing.
LEMMA InputRests ==
    ASSUME VoiceInv, GoOn(recordings'), DOMAIN recorder' = DOMAIN recorder,
           \/ recorder'.state = "idle"
           \/ recorder'.state = recorder.state /\ recorder'.current = recorder.current
    PROVE  VoiceInv'
BY DEF GoOn, WillStop, IsSent, VoiceInv, VoiceShape, InputIsAwaited, Voice!InputIsAwaited

\* The clock of the recording is stopped, and nothing else of the input changes.
LEMMA NoTimerRests ==
    ASSUME VoiceShape
    PROVE  /\ DOMAIN Voice!NoTimer = DOMAIN recorder
           /\ Voice!NoTimer.state = recorder.state /\ Voice!NoTimer.current = recorder.current
BY DEF VoiceShape, Voice!NoTimer

\* The user ends a recording, by any of the ways there are.
LEMMA EndingKeeps ==
    ASSUME VoiceInv,
           Voice!StopAndSend \/ Voice!Cancel \/ Voice!Unmounts \/ \E r \in Slots : Voice!TimeIsUp(r)
    PROVE  VoiceInv'
<1>1. CASE Voice!StopAndSend \/ \E r \in Slots : Voice!TimeIsUp(r)
  <2>1. PICK S : recordings' = Voice!Stopping(S) /\ recorder' = Voice!NoTimer
    BY <1>1 DEF Voice!StopAndSend, Voice!TimeIsUp
  <2> QED  BY <2>1, StoppingGoesOn, NoTimerRests, InputRests DEF VoiceInv
<1>2. CASE Voice!Unmounts
  <2> DEFINE stopped == Voice!NoTimer
  <2>1. /\ GoOn(recordings')
        /\ recorder' = [stopped EXCEPT !.mounted = FALSE, !.open = None, !.stream = None]
    BY <1>2, StoppingGoesOn DEF Voice!Unmounts, VoiceInv
  <2>2. DOMAIN stopped = DOMAIN recorder /\ stopped.state = recorder.state /\ stopped.current = recorder.current
    BY NoTimerRests DEF VoiceInv
  <2> HIDE DEF stopped
  <2>3. DOMAIN recorder' = DOMAIN recorder /\ recorder'.state = recorder.state /\ recorder'.current = recorder.current
    BY <2>1, <2>2 DEF VoiceInv, VoiceShape
  <2> QED  BY <2>1, <2>3, InputRests
<1>3. CASE Voice!Cancel
  <2> DEFINE S == {recorder.current, recorder.stream}
             stopped == Voice!Stopping(S)
             cancelled(r) == stopped[r].cancelled \/ (r \in S /\ Voice!At(r, "recording"))
             timeless == Voice!NoTimer
  <2>1. /\ recordings' = [r \in Slots |-> [stopped[r] EXCEPT !.cancelled = cancelled(r)]]
        /\ recorder' = [timeless EXCEPT !.chunks = {}, !.current = None, !.stream = None, !.state = "idle"]
    BY <1>3 DEF Voice!Cancel
  <2>2. GoOn(stopped) /\ DOMAIN timeless = DOMAIN recorder
    BY StoppingGoesOn, NoTimerRests DEF VoiceInv
  <2> HIDE DEF S, stopped, cancelled, timeless
  <2>3. GoOn(recordings')
    BY <2>1, <2>2 DEF GoOn, VoiceInv, VoiceShape
  <2>4. DOMAIN recorder' = DOMAIN recorder /\ recorder'.state = "idle"
    BY <2>1, <2>2 DEF VoiceInv, VoiceShape
  <2> QED  BY <2>3, <2>4, InputRests
<1> QED  BY <1>1, <1>2, <1>3

\* The last fragment has come: the input sends, or has nothing to send.
LEMMA StoppedKeeps ==
    ASSUME VoiceInv, NEW r \in Slots, Voice!Stopped(r)
    PROVE  VoiceInv'
<1> DEFINE stopped == Voice!Stopping({recorder.stream})
<1>1. PICK blob :
        /\ recordings' = [stopped EXCEPT ![r].step = IF blob = {} THEN "over" ELSE "starting", ![r].of = blob]
        /\ recorder' = [recorder EXCEPT !.chunks = {}, !.stream = None,
                                        !.state = IF blob = {} THEN "idle" ELSE "sending"]
  BY DEF Voice!Stopped
<1>2. GoOn(stopped)
  BY StoppingGoesOn DEF VoiceInv
<1> HIDE DEF stopped
<1>3. VoiceShape' /\ recordings'[r].step = (IF blob = {} THEN "over" ELSE "starting")
  BY <1>1, <1>2 DEF GoOn, VoiceInv, VoiceShape
<1>4. recorder'.state = (IF blob = {} THEN "idle" ELSE "sending")
  BY <1>1 DEF VoiceInv, VoiceShape
<1> QED  BY <1>3, <1>4 DEF VoiceInv, InputIsAwaited, Voice!InputIsAwaited

\* Every step of AudioRecorder.
LEMMA VoiceStepKeeps == VoiceInv /\ Voice!AudioNext => VoiceInv'
<1> SUFFICES ASSUME VoiceInv, Voice!AudioNext PROVE VoiceInv'
  OBVIOUS
<1>1. ASSUME \E c \in Places : Voice!OpensDialog(c) PROVE VoiceInv'
  BY <1>1, InputRests DEF VoiceInv, VoiceShape, GoOn, Voice!OpensDialog
<1>2. ASSUME NEW r \in Slots,
             \/ Voice!Clicks(r) \/ Voice!Denied(r) \/ Voice!Fragment(r) \/ Voice!StartsUpload(r)
             \/ Voice!AddsChunk(r) \/ Voice!Completes(r) \/ Voice!Sends(r)
      PROVE VoiceInv'
  <2>1. GoOn(recordings')
    BY <1>2 DEF GoOn, WillStop, IsSent, VoiceInv, VoiceShape, Voice!At, Voice!Clicks, Voice!Denied, Voice!Fragment,
      Voice!StartsUpload, Voice!AddsChunk, Voice!Completes, Voice!Sends
  <2>2. /\ DOMAIN recorder' = DOMAIN recorder
        /\ \/ recorder'.state = "idle"
           \/ recorder'.state = recorder.state /\ recorder'.current = recorder.current
    BY <1>2 DEF VoiceInv, VoiceShape, Voice!Clicks, Voice!Denied, Voice!Fragment,
      Voice!StartsUpload, Voice!AddsChunk, Voice!Completes, Voice!Sends
  <2> QED  BY <2>1, <2>2, InputRests
<1>3. ASSUME NEW r \in Slots, Voice!Records(r) PROVE VoiceInv'
  <2>1. /\ DOMAIN recorder' = DOMAIN recorder /\ recorder'.state = "recording" /\ recorder'.current = r
        /\ DOMAIN recordings' = Slots /\ recordings'[r].step = "recording"
        /\ \A q \in Slots : DOMAIN recordings'[q] = DOMAIN recordings[q]
    BY <1>3 DEF VoiceInv, VoiceShape, Voice!Records
  <2> QED  BY <2>1 DEF VoiceInv, VoiceShape, InputIsAwaited, Voice!InputIsAwaited
<1>4. ASSUME NEW r \in Slots, Voice!UploadEnds(r) PROVE VoiceInv'
  <2>1. /\ DOMAIN recorder' = DOMAIN recorder /\ recorder'.state = "idle"
        /\ DOMAIN recordings' = Slots
        /\ \A q \in Slots : DOMAIN recordings'[q] = DOMAIN recordings[q]
    BY <1>4 DEF VoiceInv, VoiceShape, Voice!UploadEnds
  <2> QED  BY <2>1 DEF VoiceInv, VoiceShape, InputIsAwaited, Voice!InputIsAwaited
<1> QED  BY <1>1, <1>2, <1>3, <1>4, EndingKeeps, StoppedKeeps DEF Voice!AudioNext

-----------------------------------------------------------------------------
\* The fields of the page, and its requests.
ConnectShape ==
    /\ DOMAIN screen = {"at", "phase", "qr", "asked", "posts", "lists", "pending", "deleting"}
    /\ DOMAIN posts = Slots
    /\ screen.posts \subseteq Slots

\* The inductive invariant of ConnectPage.
ConnectInv == ConnectShape /\ RequestingIsAwaited

\* Before the first visit.
LEMMA ConnectStarts == Connect!ConnectInit => ConnectInv
BY DEF Connect!ConnectInit, Connect!Away, ConnectInv, ConnectShape, RequestingIsAwaited, Connect!RequestingIsAwaited

\* A request is sent by a page of these fields.
LEMMA RequestAwaits ==
    ASSUME ConnectInv, NEW p \in Slots, NEW s, DOMAIN s = DOMAIN screen, s.posts \subseteq Slots,
           Connect!Request(p, s)
    PROVE  ConnectInv'
<1>1. /\ DOMAIN screen' = DOMAIN screen /\ screen'.posts = s.posts \cup {p}
      /\ DOMAIN posts' = Slots /\ posts'[p] = "sent"
  BY DEF Connect!Request, ConnectInv, ConnectShape
<1> QED  BY <1>1 DEF ConnectInv, ConnectShape, RequestingIsAwaited, Connect!RequestingIsAwaited

\* The page, opened, asks; or it has asked and is as it was.
LEMMA OpeningAwaits ==
    ASSUME ConnectInv, NEW s, NEW visit, DOMAIN s = DOMAIN screen, s.posts \subseteq Slots,
           Connect!SocketOpen(s, visit), s = screen \/ ~s.asked
    PROVE  ConnectInv'
<1>1. CASE s.asked
  BY <1>1 DEF Connect!SocketOpen, ConnectInv, ConnectShape, RequestingIsAwaited, Connect!RequestingIsAwaited
<1>2. CASE ~s.asked
  BY <1>2, RequestAwaits DEF Connect!SocketOpen
<1> QED  BY <1>1, <1>2

\* A page that asks for nothing.
LEMMA NotAsking ==
    ASSUME ConnectInv, DOMAIN screen' = DOMAIN screen, DOMAIN posts' = Slots,
           screen'.posts \subseteq Slots, screen'.phase # "requesting"
    PROVE  ConnectInv'
BY DEF ConnectInv, ConnectShape, RequestingIsAwaited, Connect!RequestingIsAwaited

\* A page that asks as before, of the same requests.
LEMMA AskingAsBefore ==
    ASSUME ConnectInv, DOMAIN screen' = DOMAIN screen, UNCHANGED posts,
           screen'.posts = screen.posts, screen'.phase = screen.phase
    PROVE  ConnectInv'
BY DEF ConnectInv, ConnectShape, RequestingIsAwaited, Connect!RequestingIsAwaited

\* Every step of ConnectPage.
LEMMA ConnectStepKeeps == ConnectInv /\ Connect!ConnectNext => ConnectInv'
<1> SUFFICES ASSUME ConnectInv, Connect!ConnectNext PROVE ConnectInv'
  OBVIOUS
<1>1. ASSUME \/ Connect!LinkLost \/ Connect!JoinEnds \/ Connect!LeaveEnds \/ Connect!RoomCallFails
             \/ Connect!OffersToRoom \/ Connect!OffersForStored \/ Connect!Connects \/ Connect!Reconnects
             \/ Connect!WindowMoves
      PROVE  ConnectInv'
  <2>1. UNCHANGED <<screen, posts>>
    BY <1>1 DEF Connect!LinkLost, Connect!JoinEnds, Connect!LeaveEnds, Connect!RoomCallFails, Connect!OffersToRoom,
      Connect!OffersForStored, Connect!Connects, Connect!Reconnects, Connect!WindowMoves
  <2> QED  BY <2>1, AskingAsBefore
<1>2. ASSUME \/ Connect!Refreshes \/ Connect!ListEnds \/ Connect!AskDelete \/ Connect!CancelDelete
             \/ Connect!ConfirmDelete \/ Connect!DeleteEnds
      PROVE  ConnectInv'
  <2>1. /\ DOMAIN screen' = DOMAIN screen /\ UNCHANGED posts
        /\ screen'.posts = screen.posts /\ screen'.phase = screen.phase
    BY <1>2 DEF Connect!Refreshes, Connect!ListEnds, Connect!AskDelete, Connect!CancelDelete,
      Connect!ConfirmDelete, Connect!DeleteEnds, ConnectInv, ConnectShape
  <2> QED  BY <2>1, AskingAsBefore
<1>3. ASSUME Connect!Load \/ Connect!TokenRenewed \/ Connect!LoadRefused \/ Connect!GoAway
      PROVE  ConnectInv'
  <2>1. UNCHANGED posts /\ (screen' = Connect!Away \/ \E at : screen' = [Connect!Away EXCEPT !.at = at])
    BY <1>3 DEF Connect!Load, Connect!TokenRenewed, Connect!LoadRefused, Connect!GoAway
  <2>2. /\ DOMAIN screen' = DOMAIN screen /\ UNCHANGED posts
        /\ screen'.posts = {} /\ screen'.phase = "idle"
    BY <2>1 DEF Connect!Away, ConnectInv, ConnectShape
  <2> QED  BY <2>2, NotAsking DEF ConnectInv, ConnectShape
<1>4. ASSUME Connect!Hears PROVE ConnectInv'
  <2>1. /\ DOMAIN screen' = DOMAIN screen /\ UNCHANGED posts /\ screen'.posts = screen.posts
        /\ screen'.phase = screen.phase \/ screen'.phase # "requesting"
    BY <1>4 DEF Connect!Hears, ConnectInv, ConnectShape
  <2> QED  BY <2>1, AskingAsBefore, NotAsking DEF ConnectInv, ConnectShape
<1>5. ASSUME NEW p \in Slots, Connect!PostTaken(p) PROVE ConnectInv'
  BY <1>5 DEF Connect!PostTaken, ConnectInv, ConnectShape, RequestingIsAwaited, Connect!RequestingIsAwaited
<1>6. ASSUME NEW p \in Slots, Connect!PostSucceeds(p) \/ Connect!PostFails(p) PROVE ConnectInv'
  <2>1. PICK phase \in {"awaiting_qr", "error"} :
          posts' = [posts EXCEPT ![p] = "none"] /\ screen' = Connect!Answered(p, phase)
    BY <1>6 DEF Connect!PostSucceeds, Connect!PostFails
  <2>2. CASE p \in screen.posts
    BY <2>1, <2>2, NotAsking DEF Connect!Answered, ConnectInv, ConnectShape
  <2>3. CASE p \notin screen.posts
    BY <2>1, <2>3 DEF Connect!Answered, ConnectInv, ConnectShape, RequestingIsAwaited, Connect!RequestingIsAwaited
  <2> QED  BY <2>2, <2>3
<1>7. ASSUME Connect!Handshake \/ Connect!HandshakeAgain PROVE ConnectInv'
  <2>1. Connect!SocketOpen(screen, 0) \/ UNCHANGED <<screen, posts>>
    BY <1>7 DEF Connect!Handshake, Connect!HandshakeAgain
  <2> QED  BY <2>1, OpeningAwaits, AskingAsBefore DEF ConnectInv, ConnectShape
<1>8. ASSUME Connect!Mounts PROVE ConnectInv'
  <2> DEFINE fresh == [Connect!Away EXCEPT !.at = "shown", !.lists = 1]
  <2>1. DOMAIN fresh = DOMAIN screen /\ ~fresh.asked /\ fresh.posts = {} /\ fresh.phase = "idle"
    BY DEF Connect!Away, ConnectInv, ConnectShape
  <2>2. Connect!SocketOpen(fresh, 1) \/ (screen' = fresh /\ UNCHANGED posts)
    BY <1>8 DEF Connect!Mounts
  <2> HIDE DEF fresh
  <2> QED  BY <2>1, <2>2, OpeningAwaits, NotAsking DEF ConnectInv, ConnectShape
<1>9. ASSUME NEW p \in Slots, Connect!Click(p) PROVE ConnectInv'
  BY <1>9, RequestAwaits DEF Connect!Click, ConnectInv, ConnectShape
<1> QED  BY <1>1, <1>2, <1>3, <1>4, <1>5, <1>6, <1>7, <1>8, <1>9 DEF Connect!ConnectNext

-----------------------------------------------------------------------------
\* On every page of Pages: the others leave this one's state alone.
LEMMA DeskIsInvariant == Spec => []DeskInv
<1>1. Init => DeskInv
  BY DeskStarts DEF Init
<1>2. DeskInv /\ [Next]_vars => DeskInv'
  <2> SUFFICES ASSUME DeskInv, [Next]_vars PROVE DeskInv'
    OBVIOUS
  <2>1. CASE OnDesk
    BY <2>1, DeskStepKeeps DEF OnDesk
  <2>2. CASE UNCHANGED <<notebook, desk, deskCalls>>
    BY <2>2 DEF DeskInv, DeskShape, NotesWereMade, MadeWhereAsked, NotesAreNotLost, NotesStayInTheirChat,
      Desk!NotesAreNotLost, Desk!NotesStayInTheirChat
  <2> QED
    BY <2>1, <2>2 DEF Next, vars, OnUsers, OnService, OnWorkspaces, OnContacts, OnConnect, OnVoice, deskIdle
<1> QED  BY <1>1, <1>2, PTL DEF Spec

\* The same for the recordings.
LEMMA VoiceIsInvariant == Spec => []VoiceInv
<1>1. Init => VoiceInv
  BY VoiceStarts DEF Init
<1>2. VoiceInv /\ [Next]_vars => VoiceInv'
  <2> SUFFICES ASSUME VoiceInv, [Next]_vars PROVE VoiceInv'
    OBVIOUS
  <2>1. CASE OnVoice
    BY <2>1, VoiceStepKeeps DEF OnVoice
  <2>2. CASE UNCHANGED <<recordings, recorder>>
    BY <2>2 DEF VoiceInv, VoiceShape, InputIsAwaited, Voice!InputIsAwaited
  <2> QED
    BY <2>1, <2>2 DEF Next, vars, OnUsers, OnService, OnWorkspaces, OnContacts, OnConnect, OnDesk, voiceIdle
<1> QED  BY <1>1, <1>2, PTL DEF Spec

\* The same for the connection page.
LEMMA ConnectIsInvariant == Spec => []ConnectInv
<1>1. Init => ConnectInv
  BY ConnectStarts DEF Init
<1>2. ConnectInv /\ [Next]_vars => ConnectInv'
  <2> SUFFICES ASSUME ConnectInv, [Next]_vars PROVE ConnectInv'
    OBVIOUS
  <2>1. CASE OnConnect
    BY <2>1, ConnectStepKeeps DEF OnConnect
  <2>2. CASE UNCHANGED <<screen, posts>>
    BY <2>2, AskingAsBefore
  <2> QED
    BY <2>1, <2>2 DEF Next, vars, OnUsers, OnService, OnWorkspaces, OnContacts, OnDesk, OnVoice, connectIdle
<1> QED  BY <1>1, <1>2, PTL DEF Spec

\* chat-panel.tsx, notation.service.ts: no note is lost or comes back, however the calls of
\* two panels overlap.
THEOREM NotesAreKept == Spec => []NotesAreNotLost
<1>1. DeskInv => NotesAreNotLost
  BY DEF DeskInv
<1> QED  BY <1>1, DeskIsInvariant, PTL

\* chat-panel.tsx: a note is listed in the conversation it was written in, whatever was
\* opened while its call was in flight.
THEOREM NotesAreFiled == Spec => []NotesStayInTheirChat
<1>1. DeskInv => NotesStayInTheirChat
  BY DEF DeskInv
<1> QED  BY <1>1, DeskIsInvariant, PTL

\* message-view.tsx: an input that records has a recorder that will stop and one that sends
\* has an upload that will end, for any number of recordings, cancelled, denied or forgotten.
THEOREM InputWaits == Spec => []InputIsAwaited
<1>1. VoiceInv => InputIsAwaited
  BY DEF VoiceInv
<1> QED  BY <1>1, VoiceIsInvariant, PTL

\* workspace-connection-client.tsx: a page that says it asks for a code waits for a request of
\* its own, for any number of visits, clicks, renewed tokens, lost sockets and handshakes.
THEOREM RequestsAreAwaited == Spec => []RequestingIsAwaited
<1>1. ConnectInv => RequestingIsAwaited
  BY DEF ConnectInv
<1> QED  BY <1>1, ConnectIsInvariant, PTL

\* There is a code on offer, or there is none.
OfferTyped == offered \in BOOLEAN

\* workspace-connection-client.tsx, baileys.service.ts: what the room and the page see of a
\* pairing, reconnections included, are steps of the PairingWindow that QrPairing implements;
\* only a stored session that is connected again may offer a code outside of a window.
THEOREM PageSeesThePromise ==
    Spec => Connect!WindowInit /\ [][Connect!WindowNext \/ Connect!OffersForStored]_(Connect!windowVars)
<1>1. Init => Connect!WindowInit /\ OfferTyped
  BY DEF Init, Connect!ConnectInit, Connect!WindowInit, OfferTyped
<1>2. OfferTyped /\ [Next]_vars =>
        OfferTyped' /\ [Connect!WindowNext \/ Connect!OffersForStored]_(Connect!windowVars)
  <2> SUFFICES ASSUME OfferTyped, [Next]_vars
               PROVE  /\ OfferTyped'
                      /\ [Connect!WindowNext \/ Connect!OffersForStored]_(Connect!windowVars)
    OBVIOUS
  <2> USE DEF OfferTyped, Connect!windowVars
  <2>1. CASE Connect!WindowNext
    BY <2>1 DEF Connect!WindowNext, Connect!Asks, Connect!Opens, Connect!Offers, Connect!Lapses, Connect!Ends
  <2>2. CASE UNCHANGED Connect!windowVars
    BY <2>2
  <2>3. CASE Connect!Reconnects
    BY <2>1, <2>2, <2>3 DEF Connect!Reconnects, Connect!WindowNext, Connect!Lapses
  <2>4. CASE Connect!OffersForStored
    BY <2>4 DEF Connect!OffersForStored
  <2>5. CASE Connect!ConnectNext
    <3>1. CASE \/ Connect!OffersToRoom \/ Connect!Connects \/ Connect!WindowMoves
               \/ \E p \in Slots : Connect!PostTaken(p)
      BY <2>1, <3>1 DEF Connect!WindowNext, Connect!OffersToRoom, Connect!Connects, Connect!WindowMoves,
        Connect!PostTaken
    <3>2. ASSUME ~Connect!Reconnects, ~Connect!OffersForStored, ~Connect!OffersToRoom, ~Connect!Connects, ~Connect!WindowMoves,
                 \A p \in Slots : ~Connect!PostTaken(p)
          PROVE  UNCHANGED Connect!windowVars
      BY <2>5, <3>2 DEF Connect!ConnectNext, Connect!Handshake, Connect!LinkLost, Connect!HandshakeAgain,
        Connect!JoinEnds, Connect!LeaveEnds, Connect!RoomCallFails, Connect!Load, Connect!TokenRenewed,
        Connect!LoadRefused, Connect!Mounts, Connect!GoAway, Connect!Click, Connect!PostSucceeds,
        Connect!PostFails, Connect!Hears, Connect!Refreshes, Connect!ListEnds, Connect!AskDelete,
        Connect!CancelDelete, Connect!ConfirmDelete, Connect!DeleteEnds
    <3> QED  BY <2>2, <2>3, <2>4, <3>1, <3>2
  <2> QED
    BY <2>2, <2>5 DEF Next, vars, OnUsers, OnService, OnWorkspaces, OnContacts, OnConnect, OnDesk, OnVoice,
      connectIdle
<1> QED  BY <1>1, <1>2, PTL DEF Spec
=============================================================================

---------------------------- MODULE ChatDelivery ----------------------------
(***************************************************************************)
(* A text message on its way from WhatsApp to the chat panel of a browser: *)
(* the messages.upsert handler of BaileysService files it under a          *)
(* conversation and emits new_message to the room of the workspace, and    *)
(* ChatPanel shows it, beside what it loaded over HTTP and the bubbles of  *)
(* what its own user has just sent.                                        *)
(*                                                                         *)
(* One workspace, one panel.  Several handlers run at once, also for one   *)
(* message: WhatsApp repeats what it is not sure of, and two sockets of a  *)
(* session both receive it.  MaxUpserts bounds the handlers that start.    *)
(*                                                                         *)
(* A conversation document is a pair of its chat and a copy: its key ends  *)
(* in a random hash and nothing else is unique, so two upserts that run    *)
(* together may both insert.                                               *)
(***************************************************************************)
EXTENDS Naturals, Sequences, Bags, BagsExt

CONSTANTS
    Chats,
    Copies,         \* documents one chat may get
    Theirs, Own,    \* messages of the client, of the attendant
    ChatOf,         \* the chat of a message
    TextOf,         \* its text
    Tasks,          \* slots for handlers of messages.upsert
    Reqs,           \* slots for HTTP requests of the panel
    MaxUpserts,
    None

Msgs == Theirs \cup Own
Docs == Chats \X Copies

ASSUME ChatConstantsOK ==
    /\ DOMAIN ChatOf = Msgs /\ DOMAIN TextOf = Msgs
    /\ \A m \in Msgs : ChatOf[m] \in Chats
    /\ None \notin Msgs \cup Docs
    /\ MaxUpserts \in Nat

VARIABLES
    wa,         \* what has become of each message before it reaches us
    upserts,    \* handlers that may still start
    convs,      \* the conversation documents
    stored,     \* the conversation each stored message is filed under
    task,       \* the handlers
    link,       \* the browser's socket: none, authenticated, in the room
    channel,    \* new_message events on their way to it
    listed,     \* conversations of the panel
    active,     \* activeConversationId
    shown,      \* messages of the panel: a bag, whose order is not modelled
    req         \* its requests

server == <<wa, upserts, convs, stored, task>>
panel == <<listed, active, shown, req>>
vars == <<server, link, channel, panel>>

Idle == [pc |-> "free", msg |-> None, doc |-> None]
NoReq == [kind |-> "free", doc |-> None, read |-> FALSE, rows |-> {}]

TypeOK ==
    /\ wa \in [Msgs -> {"new", "sending", "sent", "lost"}]
    /\ upserts \in 0..MaxUpserts
    /\ convs \subseteq Docs
    /\ stored \in [Msgs -> Docs \cup {None}]
    /\ task \in [Tasks -> [pc : {"free", "find", "create", "insert", "store", "emit"},
                           msg : Msgs \cup {None}, doc : Docs \cup {None}]]
    /\ link \in {"off", "ready", "joined"}
    /\ channel \in Seq(Msgs)
    /\ listed \subseteq Docs
    /\ active \in Docs \cup {None}
    /\ IsABag(shown) /\ DOMAIN shown \subseteq [temp : BOOLEAN, msg : Msgs, doc : Docs]
    /\ req \in [Reqs -> [kind : {"free", "history", "list", "merge"}, doc : Docs \cup {None},
                         read : BOOLEAN, rows : SUBSET (Msgs \cup Docs)]]

Init ==
    /\ wa = [m \in Msgs |-> IF m \in Theirs THEN "sent" ELSE "new"]
    /\ upserts = MaxUpserts
    /\ convs = {}
    /\ stored = [m \in Msgs |-> None]
    /\ task = [t \in Tasks |-> Idle]
    /\ link = "off"
    /\ channel = <<>>
    /\ listed = {}
    /\ active = None
    /\ shown = EmptyBag
    /\ req = [r \in Reqs |-> NoReq]

-----------------------------------------------------------------------------
(* The server: listenMessages, ConversationService, MessageService.        *)

(* Written by the attendant on the telephone.  The client's messages are   *)
(* there from the start, and arrive when an upsert brings them.            *)
Written(m) ==
    /\ wa[m] = "new"
    /\ wa' = [wa EXCEPT ![m] = "sent"]
    /\ UNCHANGED <<upserts, convs, stored, task, link, channel, panel>>

(* handleSendMessageFromSocket: a failure is only logged.                  *)
ServerSends(m) ==
    /\ wa[m] = "sending"
    /\ \E s \in {"sent", "lost"} : wa' = [wa EXCEPT ![m] = s]
    /\ UNCHANGED <<upserts, convs, stored, task, link, channel, panel>>

Upsert(t, m) ==
    /\ wa[m] = "sent" /\ upserts > 0 /\ task[t].pc = "free"
    /\ upserts' = upserts - 1
    /\ task' = [task EXCEPT ![t] = [Idle EXCEPT !.pc = "find", !.msg = m]]
    /\ UNCHANGED <<wa, convs, stored, link, channel, panel>>

DocsFor(t) == {d \in convs : d[1] = ChatOf[task[t].msg]}
NewDocsFor(t) == {d \in Docs \ convs : d[1] = ChatOf[task[t].msg]}
Goes(t, pc, doc) == task' = [task EXCEPT ![t].pc = pc, ![t].doc = doc]

(* getOrCreate and getOrCreateGroup: the lookup.                           *)
Finds(t) ==
    /\ task[t].pc = "find"
    /\ \/ \E d \in DocsFor(t) : Goes(t, "store", d)
       \/ DocsFor(t) = {} /\ Goes(t, "create", None)
    /\ UNCHANGED <<wa, upserts, convs, stored, link, channel, panel>>

(* Mutant of Creates: the entity just built is returned, not the document. *)
CreatesReturnsEntity(t) ==
    /\ task[t].pc = "create"
    /\ \/ DocsFor(t) # {} /\ \E d \in NewDocsFor(t) : Goes(t, "store", d)
       \/ DocsFor(t) = {} /\ Goes(t, "insert", None)
    /\ UNCHANGED <<wa, upserts, convs, stored, link, channel, panel>>

(* The upsert of the repository's create matches a document ...            *)
Creates(t) ==
    /\ task[t].pc = "create"
    /\ \/ \E d \in DocsFor(t) : Goes(t, "store", d)
       \/ DocsFor(t) = {} /\ Goes(t, "insert", None)
    /\ UNCHANGED <<wa, upserts, convs, stored, link, channel, panel>>

(* ... or inserts one.                                                     *)
Inserts(t) ==
    /\ task[t].pc = "insert"
    /\ \E d \in NewDocsFor(t) : convs' = convs \cup {d} /\ Goes(t, "store", d)
    /\ UNCHANGED <<wa, upserts, stored, link, channel, panel>>

(* whatsappMessageId is unique: the second create finds the first one's.   *)
Stores(t) ==
    LET m == task[t].msg IN
    /\ task[t].pc = "store"
    /\ stored' = [stored EXCEPT ![m] = IF @ = None THEN task[t].doc ELSE @]
    /\ Goes(t, "emit", None)
    /\ UNCHANGED <<wa, upserts, convs, link, channel, panel>>

Emits(t) ==
    /\ task[t].pc = "emit"
    /\ channel' = IF link = "joined" THEN Append(channel, task[t].msg) ELSE channel
    /\ task' = [task EXCEPT ![t] = Idle]
    /\ UNCHANGED <<wa, upserts, convs, stored, link, panel>>

(* The database refuses: caught and logged.                                *)
HandlerFails(t) ==
    /\ task[t].pc \notin {"free", "emit"}
    /\ task' = [task EXCEPT ![t] = Idle]
    /\ UNCHANGED <<wa, upserts, convs, stored, link, channel, panel>>

-----------------------------------------------------------------------------
(* The connection; SocketHandshake and BrowserSession have its details.    *)
Authenticated ==
    /\ link = "off"
    /\ link' = "ready"
    /\ UNCHANGED <<server, channel, panel>>

Joins ==
    /\ link = "ready"
    /\ link' = "joined"
    /\ UNCHANGED <<server, channel, panel>>

Lost ==
    /\ link # "off"
    /\ link' = "off"
    /\ channel' = <<>>
    /\ UNCHANGED <<server, panel>>

-----------------------------------------------------------------------------
(* The panel.                                                              *)
Real(m, doc) == [temp |-> FALSE, msg |-> m, doc |-> doc]
Temp(m, doc) == [temp |-> TRUE, msg |-> m, doc |-> doc]
Asks(r, kind, doc) == req[r].kind = "free" /\ req' = [req EXCEPT ![r] = [NoReq EXCEPT !.kind = kind, !.doc = doc]]
Shows(m) == \E e \in DOMAIN shown : ~e.temp /\ e.msg = m

(* The effect of a changed access token or workspace.                      *)
ListLoads(r) ==
    /\ Asks(r, "list", None)
    /\ active' = None
    /\ shown' = EmptyBag
    /\ UNCHANGED <<server, link, channel, listed>>

OpensConversation(r, d) ==
    /\ d \in listed
    /\ Asks(r, "history", d)
    /\ active' = d
    /\ shown' = EmptyBag
    /\ UNCHANGED <<server, link, channel, listed>>

ServerReads(r) ==
    /\ req[r].kind # "free" /\ ~req[r].read
    /\ req' = [req EXCEPT ![r].read = TRUE,
                  ![r].rows = IF req[r].kind = "history"
                                THEN {m \in Msgs : stored[m] = req[r].doc}
                                ELSE convs]
    /\ UNCHANGED <<server, link, channel, listed, active, shown>>

Answered(r) == req[r].read /\ req' = [req EXCEPT ![r] = NoReq]

(* Mutant of HistoryArrives: the rows pass for the open conversation's.    *)
HistoryOfActive(r) ==
    /\ req[r].kind = "history" /\ Answered(r)
    /\ shown' = SetToBag({Real(m, active) : m \in req[r].rows})
    /\ UNCHANGED <<server, link, channel, listed, active>>

(* Whatever conversation is open by now.                                   *)
HistoryArrives(r) ==
    /\ req[r].kind = "history"
    /\ Answered(r)
    /\ shown' = SetToBag({Real(m, req[r].doc) : m \in req[r].rows})
    /\ UNCHANGED <<server, link, channel, listed, active>>

ListArrives(r) ==
    /\ req[r].kind \in {"list", "merge"}
    /\ Answered(r)
    /\ listed' = req[r].rows \cup IF req[r].kind = "merge" THEN listed ELSE {}
    /\ UNCHANGED <<server, link, channel, active, shown>>

RequestFails(r) ==
    /\ req[r].kind # "free"
    /\ req' = [req EXCEPT ![r] = NoReq]
    /\ UNCHANGED <<server, link, channel, listed, active, shown>>

(* handleSend.                                                             *)
Sends(m) ==
    /\ m \in Own /\ wa[m] = "new"
    /\ link # "off" /\ active \in listed /\ ChatOf[m] = active[1]
    /\ shown' = BagAdd(shown, Temp(m, active))
    /\ wa' = [wa EXCEPT ![m] = "sending"]
    /\ UNCHANGED <<upserts, convs, stored, task, link, channel, listed, active, req>>

(* Mutant of WithoutTemp: the bubble is not looked for.                    *)
KeepsTemp(m) == shown

(* The bubbles the echo of m replaces.                                     *)
WithoutTemp(m) ==
    LET replaced == {e \in DOMAIN shown : m \in Own /\ e.temp /\ e.doc = stored[m] /\ TextOf[e.msg] = TextOf[m]}
    IN  [e \in DOMAIN shown \ replaced |-> shown[e]]

(* Mutant of WithMessage: a message that is shown already is added again.  *)
WithMessageAgain(m) == BagAdd(WithoutTemp(m), Real(m, stored[m]))

WithMessage(m) == IF Shows(m) THEN WithoutTemp(m) ELSE BagAdd(WithoutTemp(m), Real(m, stored[m]))

(* onNewMessage.                                                           *)
Receives(r) ==
    LET m == Head(channel) IN
    /\ channel # <<>>
    /\ channel' = Tail(channel)
    /\ shown' = IF stored[m] = active /\ active \in listed THEN WithMessage(m) ELSE shown
    /\ IF stored[m] \in listed THEN UNCHANGED req ELSE Asks(r, "merge", None)
    /\ UNCHANGED <<server, link, listed, active>>

Next ==
    \/ \E m \in Msgs : Written(m) \/ ServerSends(m) \/ Sends(m) \/ (\E t \in Tasks : Upsert(t, m))
    \/ \E t \in Tasks : Finds(t) \/ Creates(t) \/ Inserts(t) \/ Stores(t) \/ Emits(t) \/ HandlerFails(t)
    \/ Authenticated \/ Joins \/ Lost
    \/ \E r \in Reqs :
          \/ ListLoads(r) \/ (\E d \in Docs : OpensConversation(r, d))
          \/ ServerReads(r) \/ HistoryArrives(r) \/ ListArrives(r) \/ RequestFails(r)
          \/ Receives(r)

Spec == Init /\ [][Next]_vars

-----------------------------------------------------------------------------
(* However lookups, upserts and repeated messages overlap, a stored        *)
(* message is filed under a conversation that exists, in its chat; under   *)
(* any other key no panel would ever find it.                              *)
FiledInAConversation == \A m \in Msgs : stored[m] # None => stored[m] \in convs /\ stored[m][1] = ChatOf[m]

(* History, live events and repeated events do not show a message twice.   *)
ShownOnce == \A e, f \in DOMAIN shown : shown[e] = 1 /\ (e.msg = f.msg /\ e.temp = f.temp => e = f)

(* chat-panel.tsx:418: the bubble of a message gives way to the message.   *)
BubbleGivesWay == \A e \in DOMAIN shown : e.temp => ~Shows(e.msg)
=============================================================================

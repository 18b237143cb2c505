------------------------- MODULE ChatDeliveryProofs -------------------------
(***************************************************************************)
(* Theorems about ChatDelivery, for every value of its constants.          *)
(*                                                                         *)
(* What the panel shows is right because of what is known about a message  *)
(* on its way: a handler that stores it holds a document of its chat, one  *)
(* that emits it has stored it (HandlerKnows), so have the events and the  *)
(* answers under way (EventIsStored, AnswerIsStored), and nothing stored   *)
(* is ever filed elsewhere.  A message the panel shows is therefore shown  *)
(* under the conversation it is stored in, a bubble under the open one     *)
(* (ShownIsStored), which leaves one place for each.                       *)
(***************************************************************************)
EXTENDS ChatDelivery, TLAPS

-----------------------------------------------------------------------------
(* The inductive invariant.                                                *)

\* What a handler has established by each of its steps.
HandlerKnows ==
    \A t \in Tasks :
        /\ task[t].pc # "free" => task[t].msg # None /\ wa[task[t].msg] = "sent"
        /\ task[t].pc = "store" => task[t].doc \in convs /\ task[t].doc[1] = ChatOf[task[t].msg]
        /\ task[t].pc = "emit" => stored[task[t].msg] # None

\* Only what was sent is stored.
StoredWasSent == \A m \in Msgs : stored[m] # None => wa[m] = "sent"

\* An event on its way is of a stored message.
EventIsStored == \A i \in DOMAIN channel : stored[channel[i]] # None

\* An answer on its way lists stored messages.
AnswerIsStored ==
    \A r \in Reqs :
        /\ req[r].kind = "history" =>
              req[r].doc \in Docs /\ \A m \in req[r].rows : m \in Msgs /\ stored[m] = req[r].doc
        /\ req[r].kind \in {"list", "merge"} => req[r].rows \subseteq convs

\* The panel shows stored messages under their conversation, and bubbles under the open one.
ShownIsStored ==
    \A e \in DOMAIN shown :
        /\ shown[e] = 1
        /\ ~e.temp => e.doc = stored[e.msg]
        /\ e.temp => e.doc = active /\ e.msg \in Own /\ wa[e.msg] # "new"

ServerInv == HandlerKnows /\ StoredWasSent /\ FiledInAConversation
PanelInv == EventIsStored /\ AnswerIsStored /\ ShownIsStored /\ BubbleGivesWay
\* The inductive invariant.
DeliveryInv == TypeOK /\ ServerInv /\ PanelInv

Entries == [temp : BOOLEAN, msg : Msgs, doc : Docs]
Handlers == [pc : {"free", "find", "create", "insert", "store", "emit"},
             msg : Msgs \cup {None}, doc : Docs \cup {None}]
Requests == [kind : {"free", "history", "list", "merge"}, doc : Docs \cup {None},
             read : BOOLEAN, rows : SUBSET (Msgs \cup Docs)]

LEMMA NoneIsNothing == None \notin Msgs /\ None \notin Docs
  BY ChatConstantsOK DEF ChatConstantsOK

-----------------------------------------------------------------------------
(* The bag of the panel.                                                   *)

OneEach(B) == B \in [DOMAIN B -> {1}]

LEMMA OneEachIsABag == \A B : OneEach(B) => IsABag(B)
  BY DEF OneEach, IsABag

LEMMA BagOfASet ==
    ASSUME NEW S
    PROVE  DOMAIN SetToBag(S) = S /\ OneEach(SetToBag(S))
  BY DEF SetToBag, OneEach

LEMMA NoBag == DOMAIN EmptyBag = {} /\ OneEach(EmptyBag)
  BY BagOfASet DEF EmptyBag

LEMMA BagWithNew ==
    ASSUME NEW B, OneEach(B), NEW x, x \notin DOMAIN B
    PROVE  DOMAIN BagAdd(B, x) = DOMAIN B \cup {x} /\ OneEach(BagAdd(B, x))
  BY DEF BagAdd, OneEach

LEMMA ShownIsOneEach ==
    ASSUME TypeOK, ShownIsStored
    PROVE  OneEach(shown) /\ DOMAIN shown \subseteq Entries
  BY DEF TypeOK, ShownIsStored, IsABag, OneEach, Entries

(* Without the bubbles a message replaces, and with the message.           *)
LEMMA BagWithoutTemp ==
    ASSUME OneEach(shown), NEW m
    PROVE  /\ OneEach(WithoutTemp(m))
           /\ DOMAIN WithoutTemp(m) \subseteq DOMAIN shown
           /\ \A e \in DOMAIN shown : ~e.temp => e \in DOMAIN WithoutTemp(m)
           /\ \A e \in DOMAIN WithoutTemp(m) :
                 ~(m \in Own /\ e.temp /\ e.doc = stored[m] /\ TextOf[e.msg] = TextOf[m])
  BY DEF OneEach, WithoutTemp

LEMMA BagWithMessage ==
    ASSUME OneEach(shown), NEW m
    PROVE  /\ OneEach(WithMessage(m))
           /\ \A e \in DOMAIN WithMessage(m) :
                 e \in DOMAIN WithoutTemp(m) \/ (~Shows(m) /\ e = Real(m, stored[m]))
  <1>1. CASE Shows(m)
    BY <1>1, BagWithoutTemp DEF WithMessage
  <1>2. CASE ~Shows(m)
    <2>1. Real(m, stored[m]) \notin DOMAIN WithoutTemp(m)
      BY <1>2, BagWithoutTemp DEF Shows, Real
    <2>2. WithMessage(m) = BagAdd(WithoutTemp(m), Real(m, stored[m]))
      BY <1>2 DEF WithMessage
    <2>3. OneEach(WithoutTemp(m))
      BY BagWithoutTemp
    <2>4. /\ DOMAIN WithMessage(m) = DOMAIN WithoutTemp(m) \cup {Real(m, stored[m])}
          /\ OneEach(WithMessage(m))
      BY <2>1, <2>2, <2>3, BagWithNew
    <2> QED BY <1>2, <2>4
  <1> QED BY <1>1, <1>2

-----------------------------------------------------------------------------
LEMMA InitDelivery == Init => DeliveryInv
  <1> SUFFICES ASSUME Init PROVE DeliveryInv
    OBVIOUS
  <1>1. DOMAIN shown = {} /\ IsABag(shown)
    BY NoBag, OneEachIsABag DEF Init
  <1>2. upserts \in 0..MaxUpserts
    BY ChatConstantsOK DEF ChatConstantsOK, Init
  <1>3. channel \in Seq(Msgs) /\ DOMAIN channel = {}
    BY DEF Init
  <1>4. task \in [Tasks -> Handlers] /\ req \in [Reqs -> Requests]
    BY DEF Init, Idle, NoReq, Handlers, Requests
  <1>5. TypeOK
    BY <1>1, <1>2, <1>3, <1>4 DEF Init, TypeOK, Handlers, Requests
  <1>6. ServerInv
    BY DEF Init, ServerInv, HandlerKnows, StoredWasSent, FiledInAConversation, Idle
  <1>7. PanelInv
    BY <1>1, <1>3 DEF Init, PanelInv, EventIsStored, AnswerIsStored, ShownIsStored, BubbleGivesWay, NoReq
  <1> QED BY <1>5, <1>6, <1>7 DEF DeliveryInv

(* What the panel knows stays true while the server goes on: a message is  *)
(* not filed again and does not become unwritten.                          *)
LEMMA PanelStays ==
    ASSUME DeliveryInv,
           \A m \in Msgs : stored[m] # None => stored'[m] = stored[m],
           \A m \in Msgs : wa[m] # "new" => wa'[m] # "new",
           convs \subseteq convs', UNCHANGED <<active, shown>>,
           \A r \in Reqs : req'[r] = req[r]
    PROVE  AnswerIsStored' /\ ShownIsStored' /\ BubbleGivesWay'
  <1>1. AnswerIsStored'
    <2>1. \A r \in Reqs : req[r].doc \in Docs => req[r].doc # None
      BY NoneIsNothing
    <2> QED BY <2>1 DEF DeliveryInv, PanelInv, AnswerIsStored
  <1>2. ShownIsStored'
    <2>1. \A e \in DOMAIN shown : e.doc # None /\ e.msg \in Msgs
      BY ShownIsOneEach, NoneIsNothing DEF DeliveryInv, PanelInv, Entries
    <2> QED BY <2>1 DEF DeliveryInv, PanelInv, ShownIsStored
  <1>3. BubbleGivesWay'
    BY DEF DeliveryInv, PanelInv, BubbleGivesWay, Shows
  <1> QED BY <1>1, <1>2, <1>3

LEMMA EventStays ==
    ASSUME DeliveryInv, UNCHANGED channel,
           \A m \in Msgs : stored[m] # None => stored'[m] = stored[m]
    PROVE  EventIsStored'
  <1>1. \A i \in DOMAIN channel : channel[i] \in Msgs
    BY DEF DeliveryInv, TypeOK
  <1> QED BY <1>1 DEF DeliveryInv, PanelInv, EventIsStored

-----------------------------------------------------------------------------
(* The server.                                                             *)

(* A message is written, sent or refused.                                  *)
LEMMA MessageMoves ==
    ASSUME DeliveryInv, NEW m \in Msgs, wa[m] # "sent", NEW s \in {"sending", "sent", "lost"},
           wa' = [wa EXCEPT ![m] = s],
           UNCHANGED <<upserts, convs, stored, task, link, channel, panel>>
    PROVE  DeliveryInv'
  <1>1. UNCHANGED <<listed, active, shown, req>>
    BY DEF panel
  <1>2. TypeOK'
    BY <1>1 DEF DeliveryInv, TypeOK
  <1>3. \A n \in Msgs : (wa[n] # "new" => wa'[n] # "new") /\ (wa[n] = "sent" => wa'[n] = "sent")
    BY DEF DeliveryInv, TypeOK
  <1>4. ServerInv'
    <2>1. HandlerKnows'
      BY <1>3 DEF DeliveryInv, ServerInv, HandlerKnows, TypeOK
    <2>2. StoredWasSent' /\ FiledInAConversation'
      BY <1>3 DEF DeliveryInv, ServerInv, StoredWasSent, FiledInAConversation
    <2> QED BY <2>1, <2>2 DEF ServerInv
  <1>5. PanelInv'
    BY <1>1, <1>3, PanelStays, EventStays DEF PanelInv
  <1> QED BY <1>2, <1>4, <1>5 DEF DeliveryInv

(* A handler moves on with what it has to know.                            *)
LEMMA HandlerMoves ==
    ASSUME DeliveryInv, NEW t \in Tasks, NEW h \in Handlers, task' = [task EXCEPT ![t] = h],
           h.pc # "free" => h.msg # None /\ wa[h.msg] = "sent",
           h.pc = "store" => h.doc \in convs' /\ h.doc[1] = ChatOf[h.msg],
           h.pc = "emit" => stored'[h.msg] # None,
           \/ UNCHANGED stored
           \/ \E m \in Msgs, d \in convs :
                 /\ d[1] = ChatOf[m] /\ stored[m] = None /\ wa[m] = "sent"
                 /\ stored' = [stored EXCEPT ![m] = d],
           convs \subseteq convs', convs' \subseteq Docs, upserts' \in 0..MaxUpserts,
           UNCHANGED <<wa, link, panel>>,
           channel' \in Seq(Msgs), EventIsStored'
    PROVE  DeliveryInv'
  <1>1. UNCHANGED <<listed, active, shown, req>>
    BY DEF panel
  <1>2. convs \subseteq Docs /\ stored \in [Msgs -> Docs \cup {None}] /\ task \in [Tasks -> Handlers]
    BY DEF DeliveryInv, TypeOK, Handlers
  <1>3. stored' \in [Msgs -> Docs \cup {None}] /\ task' \in [Tasks -> Handlers]
    BY <1>2
  <1>4. TypeOK'
    BY <1>1, <1>3 DEF DeliveryInv, TypeOK, Handlers
  <1>5. \A m \in Msgs : \/ stored'[m] = stored[m]
                        \/ /\ stored[m] = None /\ wa[m] = "sent" /\ stored'[m] \in convs
                           /\ stored'[m][1] = ChatOf[m]
    BY <1>2
  <1>6. \A m \in Msgs : stored[m] # None => stored'[m] = stored[m]
    BY <1>5
  <1>7. \A u \in Tasks : task'[u] = IF u = t THEN h ELSE task[u]
    BY <1>2
  <1>8. HandlerKnows'
    <2>1. SUFFICES ASSUME NEW u \in Tasks
          PROVE /\ task'[u].pc # "free" => task'[u].msg # None /\ wa'[task'[u].msg] = "sent"
                /\ task'[u].pc = "store" => task'[u].doc \in convs' /\ task'[u].doc[1] = ChatOf[task'[u].msg]
                /\ task'[u].pc = "emit" => stored'[task'[u].msg] # None
      BY DEF HandlerKnows
    <2>2. CASE u = t
      BY <1>7, <2>2
    <2>3. CASE u # t
      <3>1. task'[u] = task[u] /\ task[u].msg \in Msgs \cup {None}
        BY <1>2, <1>7, <2>3 DEF Handlers
      <3>2. /\ task[u].pc # "free" => task[u].msg # None /\ wa[task[u].msg] = "sent"
            /\ task[u].pc = "store" => task[u].doc \in convs /\ task[u].doc[1] = ChatOf[task[u].msg]
            /\ task[u].pc = "emit" => stored[task[u].msg] # None
        BY DEF DeliveryInv, ServerInv, HandlerKnows
      <3> QED BY <1>6, <3>1, <3>2
    <2> QED BY <2>2, <2>3
  <1>9. StoredWasSent' /\ FiledInAConversation'
    BY <1>5 DEF DeliveryInv, ServerInv, StoredWasSent, FiledInAConversation
  <1>10. AnswerIsStored' /\ ShownIsStored' /\ BubbleGivesWay'
    BY <1>1, <1>6, PanelStays
  <1> QED BY <1>4, <1>8, <1>9, <1>10 DEF DeliveryInv, ServerInv, PanelInv

LEMMA ServerKeepsInv ==
    ASSUME DeliveryInv, NEW m \in Msgs, Written(m) \/ ServerSends(m)
    PROVE  DeliveryInv'
  <1>1. PICK s \in {"sending", "sent", "lost"} : wa' = [wa EXCEPT ![m] = s]
    BY DEF Written, ServerSends
  <1>2. wa[m] # "sent" /\ UNCHANGED <<upserts, convs, stored, task, link, channel, panel>>
    BY DEF Written, ServerSends
  <1> QED BY <1>1, <1>2, MessageMoves

(* What stays when a handler neither stores nor emits.                     *)
LEMMA HandlerOnly ==
    ASSUME DeliveryInv, UNCHANGED <<stored, channel>>
    PROVE  channel' \in Seq(Msgs) /\ EventIsStored' /\ convs \subseteq Docs
  BY EventStays DEF DeliveryInv, TypeOK

LEMMA GoesTo ==
    ASSUME DeliveryInv, NEW t \in Tasks, NEW p \in {"create", "insert", "store", "emit"},
           NEW d \in Docs \cup {None}, task[t].pc # "free", Goes(t, p, d)
    PROVE  \E h \in Handlers : /\ task' = [task EXCEPT ![t] = h]
                               /\ h.pc = p /\ h.doc = d /\ h.msg = task[t].msg
                               /\ h.msg # None /\ wa[h.msg] = "sent"
  <1> DEFINE h == [pc |-> p, msg |-> task[t].msg, doc |-> d]
  <1>1. task[t] \in Handlers
    BY DEF DeliveryInv, TypeOK, Handlers
  <1>2. h \in Handlers
    BY <1>1 DEF Handlers
  <1>3. task' = [task EXCEPT ![t] = h]
    <2>1. task \in [Tasks -> Handlers]
      BY DEF DeliveryInv, TypeOK, Handlers
    <2> DEFINE g == [task[t] EXCEPT !.pc = p]
    <2>2. task' = [task EXCEPT ![t] = [g EXCEPT !.doc = d]]
      BY <2>1 DEF Goes
    <2>3. task[t] = [pc |-> task[t].pc, msg |-> task[t].msg, doc |-> task[t].doc]
      BY <1>1 DEF Handlers
    <2>4. g = [pc |-> p, msg |-> task[t].msg, doc |-> task[t].doc]
      BY <2>3
    <2> HIDE DEF g
    <2>5. [g EXCEPT !.doc = d] = h
      BY <2>4
    <2> QED BY <2>2, <2>5
  <1>4. h.msg # None /\ wa[h.msg] = "sent"
    BY DEF DeliveryInv, ServerInv, HandlerKnows
  <1> QED BY <1>2, <1>3, <1>4

LEMMA UpsertKeepsInv ==
    ASSUME DeliveryInv, NEW t \in Tasks, NEW m \in Msgs, Upsert(t, m)
    PROVE  DeliveryInv'
  <1> DEFINE h == [Idle EXCEPT !.pc = "find", !.msg = m]
  <1>1. h \in Handlers /\ h.pc = "find" /\ h.msg = m
    BY DEF Idle, Handlers
  <1>2. task' = [task EXCEPT ![t] = h] /\ wa[m] = "sent" /\ m # None
    BY NoneIsNothing DEF Upsert
  <1>3. upserts' \in 0..MaxUpserts
    BY ChatConstantsOK DEF ChatConstantsOK, Upsert, DeliveryInv, TypeOK
  <1>4. UNCHANGED <<wa, convs, stored, link, channel, panel>>
    BY DEF Upsert
  <1> HIDE DEF h
  <1>5. channel' \in Seq(Msgs) /\ EventIsStored' /\ convs' \subseteq Docs
    BY <1>4, HandlerOnly
  <1> QED BY <1>1, <1>2, <1>3, <1>4, <1>5, HandlerMoves

(* The lookups and the upsert of the conversation.                         *)
LEMMA FindsKeepsInv ==
    ASSUME DeliveryInv, NEW t \in Tasks, Finds(t) \/ Creates(t) \/ Inserts(t)
    PROVE  DeliveryInv'
  <1>1. UNCHANGED <<wa, upserts, stored, link, channel, panel>> /\ task[t].pc # "free"
    BY DEF Finds, Creates, Inserts
  <1>2. channel' \in Seq(Msgs) /\ EventIsStored' /\ convs \subseteq Docs /\ upserts' \in 0..MaxUpserts
    BY <1>1, HandlerOnly DEF DeliveryInv, TypeOK
  <1>3. ASSUME NEW d \in convs', d \in Docs, d[1] = ChatOf[task[t].msg], Goes(t, "store", d),
               convs \subseteq convs', convs' \subseteq Docs
        PROVE  DeliveryInv'
    <2>1. PICK h \in Handlers : /\ task' = [task EXCEPT ![t] = h]
                                /\ h.pc = "store" /\ h.doc = d /\ h.msg = task[t].msg
                                /\ h.msg # None /\ wa[h.msg] = "sent"
      BY <1>1, <1>3, GoesTo
    <2>2. h.pc = "store" => h.doc \in convs' /\ h.doc[1] = ChatOf[h.msg]
      BY <1>3, <2>1
    <2> QED BY <1>1, <1>2, <1>3, <2>1, <2>2, HandlerMoves
  <1>4. ASSUME NEW p \in {"create", "insert"}, Goes(t, p, None), UNCHANGED convs PROVE DeliveryInv'
    <2>1. PICK h \in Handlers : /\ task' = [task EXCEPT ![t] = h]
                                /\ h.pc = p /\ h.doc = None /\ h.msg = task[t].msg
                                /\ h.msg # None /\ wa[h.msg] = "sent"
      BY <1>1, <1>4, GoesTo
    <2>2. h.pc # "store" /\ h.pc # "emit"
      BY <2>1
    <2> QED BY <1>1, <1>2, <1>4, <2>1, <2>2, HandlerMoves
  <1>5. CASE Finds(t)
    <2>1. UNCHANGED convs
      BY <1>5 DEF Finds
    <2> QED BY <1>2, <1>3, <1>4, <1>5, <2>1 DEF Finds, DocsFor
  <1>6. CASE Creates(t)
    <2>1. UNCHANGED convs
      BY <1>6 DEF Creates
    <2> QED BY <1>2, <1>3, <1>4, <1>6, <2>1 DEF Creates, DocsFor
  <1>7. CASE Inserts(t)
    BY <1>2, <1>3, <1>7 DEF Inserts, NewDocsFor
  <1> QED BY <1>5, <1>6, <1>7

LEMMA StoresKeepsInv ==
    ASSUME DeliveryInv, NEW t \in Tasks, Stores(t)
    PROVE  DeliveryInv'
  <1> DEFINE m == task[t].msg
  <1>1. /\ task[t].pc = "store" /\ Goes(t, "emit", None)
        /\ UNCHANGED <<wa, upserts, convs, link, channel, panel>>
        /\ stored' = [stored EXCEPT ![m] = IF @ = None THEN task[t].doc ELSE @]
    BY DEF Stores
  <1>2. /\ m \in Msgs /\ m # None /\ wa[m] = "sent"
        /\ task[t].doc \in convs /\ task[t].doc[1] = ChatOf[m]
    BY <1>1 DEF DeliveryInv, ServerInv, HandlerKnows, TypeOK
  <1>3. stored \in [Msgs -> Docs \cup {None}] /\ convs \subseteq Docs
    BY DEF DeliveryInv, TypeOK
  <1>4. PICK h \in Handlers : /\ task' = [task EXCEPT ![t] = h]
                              /\ h.pc = "emit" /\ h.msg = m
                              /\ h.msg # None /\ wa[h.msg] = "sent"
    BY <1>1, GoesTo
  <1>5. \/ UNCHANGED stored
        \/ \E n \in Msgs, d \in convs :
              /\ d[1] = ChatOf[n] /\ stored[n] = None /\ wa[n] = "sent"
              /\ stored' = [stored EXCEPT ![n] = d]
    <2>1. CASE stored[m] = None
      BY <1>1, <1>2, <2>1
    <2>2. CASE stored[m] # None
      BY <1>1, <1>3, <2>2
    <2> QED BY <2>1, <2>2
  <1>6. stored'[m] # None
    <2>1. task[t].doc # None
      BY <1>2, <1>3, NoneIsNothing
    <2> QED BY <1>1, <1>2, <1>3, <2>1
  <1>7. \A n \in Msgs : stored[n] # None => stored'[n] = stored[n]
    BY <1>1, <1>3
  <1>8. EventIsStored' /\ channel' \in Seq(Msgs) /\ upserts' \in 0..MaxUpserts
    BY <1>1, <1>7, EventStays DEF DeliveryInv, TypeOK
  <1> HIDE DEF m
  <1> QED BY <1>1, <1>3, <1>4, <1>5, <1>6, <1>8, HandlerMoves

LEMMA EmitsKeepsInv ==
    ASSUME DeliveryInv, NEW t \in Tasks, Emits(t) \/ HandlerFails(t)
    PROVE  DeliveryInv'
  <1>1. task' = [task EXCEPT ![t] = Idle] /\ UNCHANGED <<wa, upserts, convs, stored, link, panel>>
    BY DEF Emits, HandlerFails
  <1>2. Idle \in Handlers /\ Idle.pc = "free"
    BY DEF Idle, Handlers
  <1>3. convs \subseteq Docs /\ upserts \in 0..MaxUpserts /\ channel \in Seq(Msgs)
    BY DEF DeliveryInv, TypeOK
  <1>4. channel' \in Seq(Msgs) /\ EventIsStored'
    <2>1. CASE UNCHANGED channel
      BY <1>1, <2>1, HandlerOnly
    <2>2. CASE Emits(t) /\ channel' = Append(channel, task[t].msg)
      <3>1. task[t].msg \in Msgs /\ stored[task[t].msg] # None
        BY <2>2 DEF Emits, DeliveryInv, ServerInv, HandlerKnows, TypeOK
      <3>2. channel' \in Seq(Msgs)
        BY <1>3, <2>2, <3>1
      <3>3. \A i \in DOMAIN channel' : channel'[i] = task[t].msg \/ (i \in DOMAIN channel /\ channel'[i] = channel[i])
        BY <1>3, <2>2, <3>1
      <3> QED BY <1>1, <3>1, <3>2, <3>3 DEF DeliveryInv, PanelInv, EventIsStored
    <2> QED BY <2>1, <2>2 DEF Emits, HandlerFails
  <1> QED BY <1>1, <1>2, <1>3, <1>4, HandlerMoves

-----------------------------------------------------------------------------
(* The connection and the panel.                                           *)

LEMMA LinkKeepsInv ==
    ASSUME DeliveryInv, Authenticated \/ Joins \/ Lost
    PROVE  DeliveryInv'
  <1>1. UNCHANGED <<wa, upserts, convs, stored, task, listed, active, shown, req>>
    BY DEF Authenticated, Joins, Lost, server, panel
  <1>2. link' \in {"off", "ready", "joined"} /\ channel' \in {channel, <<>>}
    BY DEF Authenticated, Joins, Lost
  <1>3. channel' \in Seq(Msgs)
    <2>1. <<>> \in Seq(Msgs)
      OBVIOUS
    <2> QED BY <1>2, <2>1 DEF DeliveryInv, TypeOK
  <1>4. TypeOK'
    BY <1>1, <1>2, <1>3 DEF DeliveryInv, TypeOK
  <1>5. ServerInv'
    BY <1>1 DEF DeliveryInv, ServerInv, HandlerKnows, StoredWasSent, FiledInAConversation
  <1>6. EventIsStored'
    BY <1>1, <1>2 DEF DeliveryInv, PanelInv, EventIsStored
  <1>7. AnswerIsStored' /\ ShownIsStored' /\ BubbleGivesWay'
    BY <1>1, PanelStays
  <1> QED BY <1>4, <1>5, <1>6, <1>7 DEF DeliveryInv, PanelInv

(* Steps of the panel that leave the server alone.                         *)
LEMMA PanelMoves ==
    ASSUME DeliveryInv, UNCHANGED <<server, link>>, channel' \in Seq(Msgs), EventIsStored',
           listed' \subseteq Docs, active' \in Docs \cup {None},
           OneEach(shown)', (DOMAIN shown)' \subseteq Entries, ShownIsStored', BubbleGivesWay',
           req' \in [Reqs -> Requests], AnswerIsStored'
    PROVE  DeliveryInv'
  <1>1. UNCHANGED <<wa, upserts, convs, stored, task>>
    BY DEF server
  <1>2. IsABag(shown)'
    BY OneEachIsABag DEF OneEach, IsABag
  <1>3. TypeOK'
    BY <1>1, <1>2 DEF DeliveryInv, TypeOK, Entries, Requests
  <1>4. ServerInv'
    BY <1>1 DEF DeliveryInv, ServerInv, HandlerKnows, StoredWasSent, FiledInAConversation
  <1> QED BY <1>3, <1>4 DEF DeliveryInv, PanelInv

(* A request starts, is answered or fails; an answer that is yet to be     *)
(* read promises nothing.                                                  *)
LEMMA RequestMoves ==
    ASSUME DeliveryInv, NEW r \in Reqs, NEW q \in Requests, req' = [req EXCEPT ![r] = q],
           UNCHANGED <<convs, stored>>,
           q.kind = "history" => q.doc \in Docs /\ \A m \in q.rows : m \in Msgs /\ stored[m] = q.doc,
           q.kind \in {"list", "merge"} => q.rows \subseteq convs
    PROVE  req' \in [Reqs -> Requests] /\ AnswerIsStored'
  <1>1. req \in [Reqs -> Requests]
    BY DEF DeliveryInv, TypeOK, Requests
  <1>2. req' \in [Reqs -> Requests] /\ \A s \in Reqs : req'[s] = IF s = r THEN q ELSE req[s]
    BY <1>1
  <1>3. AnswerIsStored'
    <2>1. SUFFICES ASSUME NEW s \in Reqs
          PROVE /\ req'[s].kind = "history" =>
                      req'[s].doc \in Docs /\ \A m \in req'[s].rows : m \in Msgs /\ stored'[m] = req'[s].doc
                /\ req'[s].kind \in {"list", "merge"} => req'[s].rows \subseteq convs'
      BY DEF AnswerIsStored, Docs, Msgs
    <2>2. CASE s = r
      BY <1>2, <2>2
    <2>3. CASE s # r
      BY <1>2, <2>3 DEF DeliveryInv, PanelInv, AnswerIsStored
    <2> QED BY <2>2, <2>3
  <1> QED BY <1>2, <1>3

LEMMA RequestsStay ==
    ASSUME DeliveryInv, UNCHANGED <<convs, stored, req>>
    PROVE  req' \in [Reqs -> Requests] /\ AnswerIsStored'
  BY DEF DeliveryInv, TypeOK, PanelInv, AnswerIsStored, Requests

LEMMA NoReqPromisesNothing ==
    /\ NoReq \in Requests /\ NoReq.kind = "free"
    /\ \A k \in {"list", "merge"} : /\ [NoReq EXCEPT !.kind = k, !.doc = None] \in Requests
                                    /\ [NoReq EXCEPT !.kind = k, !.doc = None].rows = {}
    /\ \A d \in Docs : /\ [NoReq EXCEPT !.kind = "history", !.doc = d] \in Requests
                       /\ [NoReq EXCEPT !.kind = "history", !.doc = d].rows = {}
                       /\ [NoReq EXCEPT !.kind = "history", !.doc = d].doc = d
                       /\ [NoReq EXCEPT !.kind = "history", !.doc = d].kind = "history"
  BY DEF NoReq, Requests

LEMMA AsksKeepsAnswers ==
    ASSUME DeliveryInv, NEW r \in Reqs, UNCHANGED <<convs, stored>>,
           \/ \E k \in {"list", "merge"} : Asks(r, k, None)
           \/ \E d \in Docs : Asks(r, "history", d)
           \/ req' = [req EXCEPT ![r] = NoReq]
    PROVE  req' \in [Reqs -> Requests] /\ AnswerIsStored'
  <1>1. ASSUME NEW k \in {"list", "merge"}, Asks(r, k, None) PROVE req' \in [Reqs -> Requests] /\ AnswerIsStored'
    <2> DEFINE q == [NoReq EXCEPT !.kind = k, !.doc = None]
    <2>1. q \in Requests /\ q.rows = {} /\ q.kind = k
      BY NoReqPromisesNothing DEF NoReq
    <2>2. req' = [req EXCEPT ![r] = q]
      BY <1>1 DEF Asks
    <2> HIDE DEF q
    <2> QED BY <2>1, <2>2, RequestMoves
  <1>2. ASSUME NEW d \in Docs, Asks(r, "history", d) PROVE req' \in [Reqs -> Requests] /\ AnswerIsStored'
    <2> DEFINE q == [NoReq EXCEPT !.kind = "history", !.doc = d]
    <2>1. q \in Requests /\ q.rows = {} /\ q.kind = "history" /\ q.doc = d
      BY NoReqPromisesNothing
    <2>2. req' = [req EXCEPT ![r] = q]
      BY <1>2 DEF Asks
    <2> HIDE DEF q
    <2> QED BY <2>1, <2>2, RequestMoves
  <1>3. CASE req' = [req EXCEPT ![r] = NoReq]
    BY <1>3, NoReqPromisesNothing, RequestMoves
  <1> QED BY <1>1, <1>2, <1>3

LEMMA EmptyPanel ==
    ASSUME shown' = EmptyBag
    PROVE  /\ OneEach(shown)' /\ (DOMAIN shown)' \subseteq Entries
           /\ ShownIsStored' /\ BubbleGivesWay'
  <1>1. DOMAIN shown' = {} /\ OneEach(shown')
    BY NoBag
  <1> QED BY <1>1 DEF ShownIsStored, BubbleGivesWay, OneEach

LEMMA PanelUntouched ==
    ASSUME DeliveryInv, UNCHANGED <<wa, stored, active, shown>>
    PROVE  /\ OneEach(shown)' /\ (DOMAIN shown)' \subseteq Entries
           /\ ShownIsStored' /\ BubbleGivesWay'
  <1>1. OneEach(shown) /\ DOMAIN shown \subseteq Entries
    BY ShownIsOneEach DEF DeliveryInv, PanelInv
  <1>2. OneEach(shown)' /\ (DOMAIN shown)' \subseteq Entries
    BY <1>1 DEF OneEach
  <1> QED BY <1>2 DEF DeliveryInv, PanelInv, ShownIsStored, BubbleGivesWay, Shows

LEMMA LoadsKeepInv ==
    ASSUME DeliveryInv, NEW r \in Reqs, ListLoads(r) \/ \E d \in Docs : OpensConversation(r, d)
    PROVE  DeliveryInv'
  <1>1. UNCHANGED <<server, link, channel, listed>> /\ shown' = EmptyBag /\ active' \in Docs \cup {None}
    BY DEF ListLoads, OpensConversation
  <1>2. UNCHANGED <<convs, stored>>
    BY <1>1 DEF server
  <1>3. req' \in [Reqs -> Requests] /\ AnswerIsStored'
    BY <1>2, AsksKeepsAnswers DEF ListLoads, OpensConversation
  <1>4. channel' \in Seq(Msgs) /\ EventIsStored' /\ listed' \subseteq Docs
    BY <1>1, <1>2, EventStays DEF DeliveryInv, TypeOK
  <1> QED BY <1>1, <1>3, <1>4, EmptyPanel, PanelMoves

LEMMA RequestIsRead ==
    ASSUME NEW q \in Requests, NEW X \in SUBSET (Msgs \cup Docs)
    PROVE  [[q EXCEPT !.read = TRUE] EXCEPT !.rows = X]
              = [kind |-> q.kind, doc |-> q.doc, read |-> TRUE, rows |-> X]
  <1> DEFINE g == [q EXCEPT !.read = TRUE]
  <1>1. g \in Requests /\ g.kind = q.kind /\ g.doc = q.doc /\ g.read = TRUE
    BY DEF Requests
  <1> HIDE DEF g
  <1>2. [g EXCEPT !.rows = X] = [kind |-> g.kind, doc |-> g.doc, read |-> g.read, rows |-> X]
    BY <1>1 DEF Requests
  <1> QED BY <1>1, <1>2 DEF g

LEMMA ServerReadsKeepsInv ==
    ASSUME DeliveryInv, NEW r \in Reqs, ServerReads(r)
    PROVE  DeliveryInv'
  <1> DEFINE rows == IF req[r].kind = "history" THEN {m \in Msgs : stored[m] = req[r].doc} ELSE convs
             q == [kind |-> req[r].kind, doc |-> req[r].doc, read |-> TRUE, rows |-> rows]
  <1>1. UNCHANGED <<server, link, channel, listed, active, shown>>
    BY DEF ServerReads
  <1>2. UNCHANGED <<wa, convs, stored>>
    BY <1>1 DEF server
  <1>3. req \in [Reqs -> Requests] /\ convs \subseteq Docs /\ listed \subseteq Docs /\ active \in Docs \cup {None}
    BY DEF DeliveryInv, TypeOK, Requests
  <1>4. rows \subseteq Msgs \cup Docs
    BY <1>3
  <1>5. q \in Requests
    BY <1>3, <1>4 DEF Requests
  <1>6. req' = [req EXCEPT ![r] = q]
    <2>1. req' = [req EXCEPT ![r] = [[req[r] EXCEPT !.read = TRUE] EXCEPT !.rows = rows]]
      BY <1>3 DEF ServerReads
    <2>2. req[r] \in Requests /\ rows \in SUBSET (Msgs \cup Docs)
      BY <1>3, <1>4
    <2> HIDE DEF rows
    <2> QED BY <2>1, <2>2, RequestIsRead
  <1>7. q.kind = "history" => q.doc \in Docs /\ \A m \in q.rows : m \in Msgs /\ stored[m] = q.doc
    BY DEF DeliveryInv, PanelInv, AnswerIsStored
  <1>8. q.kind \in {"list", "merge"} => q.rows \subseteq convs
    OBVIOUS
  <1> HIDE DEF q
  <1>9. req' \in [Reqs -> Requests] /\ AnswerIsStored'
    BY <1>2, <1>5, <1>6, <1>7, <1>8, RequestMoves
  <1>10. channel' \in Seq(Msgs) /\ EventIsStored'
    BY <1>1, <1>2, EventStays DEF DeliveryInv, TypeOK
  <1>11. /\ OneEach(shown)' /\ (DOMAIN shown)' \subseteq Entries
         /\ ShownIsStored' /\ BubbleGivesWay'
    BY <1>1, <1>2, PanelUntouched
  <1> QED BY <1>1, <1>3, <1>9, <1>10, <1>11, PanelMoves

LEMMA AnswersKeepInv ==
    ASSUME DeliveryInv, NEW r \in Reqs, HistoryArrives(r) \/ ListArrives(r) \/ RequestFails(r)
    PROVE  DeliveryInv'
  <1>1. UNCHANGED <<server, link, channel, active>> /\ req' = [req EXCEPT ![r] = NoReq]
    BY DEF HistoryArrives, ListArrives, RequestFails, Answered
  <1>2. UNCHANGED <<wa, convs, stored>>
    BY <1>1 DEF server
  <1>3. req' \in [Reqs -> Requests] /\ AnswerIsStored'
    BY <1>1, <1>2, AsksKeepsAnswers
  <1>4. channel' \in Seq(Msgs) /\ EventIsStored' /\ active' \in Docs \cup {None}
    BY <1>1, <1>2, EventStays DEF DeliveryInv, TypeOK
  <1>5. listed' \subseteq Docs
    BY DEF HistoryArrives, ListArrives, RequestFails, DeliveryInv, TypeOK, PanelInv, AnswerIsStored
  <1>6. /\ OneEach(shown)' /\ (DOMAIN shown)' \subseteq Entries
        /\ ShownIsStored' /\ BubbleGivesWay'
    <2>1. CASE UNCHANGED shown
      BY <1>1, <1>2, <2>1, PanelUntouched
    <2>2. CASE HistoryArrives(r)
      <3> DEFINE S == {Real(m, req[r].doc) : m \in req[r].rows}
      <3>1. shown' = SetToBag(S)
        BY <2>2 DEF HistoryArrives
      <3>2. req[r].doc \in Docs /\ \A m \in req[r].rows : m \in Msgs /\ stored[m] = req[r].doc
        BY <2>2 DEF HistoryArrives, DeliveryInv, PanelInv, AnswerIsStored
      <3>3. \A e \in S : e \in Entries /\ ~e.temp /\ e.doc = stored[e.msg]
        <4>1. SUFFICES ASSUME NEW m \in req[r].rows
                       PROVE  /\ Real(m, req[r].doc) \in Entries /\ ~Real(m, req[r].doc).temp
                              /\ Real(m, req[r].doc).doc = stored[Real(m, req[r].doc).msg]
          OBVIOUS
        <4> QED BY <3>2 DEF Real, Entries
      <3> HIDE DEF S
      <3>4. DOMAIN shown' = S /\ OneEach(shown')
        BY <3>1, BagOfASet
      <3>5. OneEach(shown)' /\ (DOMAIN shown)' \subseteq Entries
        BY <3>3, <3>4 DEF OneEach
      <3>6. ShownIsStored'
        BY <1>2, <3>3, <3>4 DEF ShownIsStored, OneEach
      <3>7. BubbleGivesWay'
        BY <3>3, <3>4 DEF BubbleGivesWay
      <3> QED BY <3>5, <3>6, <3>7
    <2> QED BY <2>1, <2>2 DEF HistoryArrives, ListArrives, RequestFails
  <1> QED BY <1>1, <1>3, <1>4, <1>5, <1>6, PanelMoves

LEMMA SendsKeepsInv ==
    ASSUME DeliveryInv, NEW m \in Msgs, Sends(m)
    PROVE  DeliveryInv'
  <1> DEFINE bubble == Temp(m, active)
  <1>1. /\ UNCHANGED <<upserts, convs, stored, task, link, channel, listed, active, req>>
        /\ m \in Own /\ wa[m] = "new" /\ active \in Docs
        /\ shown' = BagAdd(shown, bubble) /\ wa' = [wa EXCEPT ![m] = "sending"]
    BY DEF Sends, DeliveryInv, TypeOK
  <1>2. bubble \in Entries /\ bubble.temp /\ bubble.msg = m /\ bubble.doc = active
    BY <1>1 DEF Temp, Entries
  <1>3. OneEach(shown) /\ DOMAIN shown \subseteq Entries
    BY ShownIsOneEach DEF DeliveryInv, PanelInv
  <1>4. /\ \A e \in DOMAIN shown : e.temp => e.msg # m
        /\ ~Shows(m)
    <2>1. stored[m] = None
      BY <1>1 DEF DeliveryInv, ServerInv, StoredWasSent
    <2> QED BY <1>1, <1>3, <2>1, NoneIsNothing DEF DeliveryInv, PanelInv, ShownIsStored, Shows, Entries
  <1> HIDE DEF bubble
  <1>5. DOMAIN shown' = DOMAIN shown \cup {bubble} /\ OneEach(shown')
    BY <1>1, <1>2, <1>3, <1>4, BagWithNew
  <1>6. \A n \in Msgs : (wa[n] # "new" => wa'[n] # "new") /\ (wa[n] = "sent" => wa'[n] = "sent")
    BY <1>1 DEF DeliveryInv, TypeOK
  <1>7. TypeOK'
    <2>1. IsABag(shown')
      BY <1>5, OneEachIsABag
    <2>2. DOMAIN shown' \subseteq [temp : BOOLEAN, msg : Msgs, doc : Docs]
      BY <1>2, <1>3, <1>5 DEF Entries
    <2>3. wa' \in [Msgs -> {"new", "sending", "sent", "lost"}]
      BY <1>1 DEF DeliveryInv, TypeOK
    <2> QED BY <1>1, <2>1, <2>2, <2>3 DEF DeliveryInv, TypeOK
  <1>8. ServerInv'
    <2>1. HandlerKnows'
      BY <1>1, <1>6 DEF DeliveryInv, ServerInv, HandlerKnows, TypeOK
    <2>2. StoredWasSent' /\ FiledInAConversation'
      BY <1>1, <1>6 DEF DeliveryInv, ServerInv, StoredWasSent, FiledInAConversation
    <2> QED BY <2>1, <2>2 DEF ServerInv
  <1>9. EventIsStored' /\ AnswerIsStored'
    BY <1>1, EventStays, RequestsStay
  <1>10. ShownIsStored'
    <2>1. SUFFICES ASSUME NEW e \in DOMAIN shown'
          PROVE /\ shown'[e] = 1
                /\ ~e.temp => e.doc = stored'[e.msg]
                /\ e.temp => e.doc = active' /\ e.msg \in Own /\ wa'[e.msg] # "new"
      BY DEF ShownIsStored
    <2>2. shown'[e] = 1
      BY <1>5 DEF OneEach
    <2>3. CASE e = bubble
      BY <1>1, <1>2, <2>2, <2>3 DEF DeliveryInv, TypeOK
    <2>4. CASE e \in DOMAIN shown
      BY <1>1, <1>3, <1>6, <2>2, <2>4 DEF DeliveryInv, PanelInv, ShownIsStored, Entries
    <2> QED BY <1>5, <2>3, <2>4
  <1>11. BubbleGivesWay'
    <2>1. SUFFICES ASSUME NEW e \in DOMAIN shown', e.temp,
                          NEW f \in DOMAIN shown', ~f.temp, f.msg = e.msg
                   PROVE  FALSE
      BY DEF BubbleGivesWay, Shows
    <2>2. f \in DOMAIN shown
      BY <1>2, <1>5, <2>1
    <2>3. CASE e = bubble
      BY <1>2, <1>4, <2>1, <2>2, <2>3 DEF Shows
    <2>4. CASE e \in DOMAIN shown
      BY <2>1, <2>2, <2>4 DEF DeliveryInv, PanelInv, BubbleGivesWay, Shows
    <2> QED BY <1>5, <2>3, <2>4
  <1> QED BY <1>7, <1>8, <1>9, <1>10, <1>11 DEF DeliveryInv, PanelInv

LEMMA ReceivesKeepsInv ==
    ASSUME DeliveryInv, NEW r \in Reqs, Receives(r)
    PROVE  DeliveryInv'
  <1> DEFINE m == Head(channel)
  <1>1. /\ UNCHANGED <<server, link, listed, active>> /\ channel # <<>> /\ channel' = Tail(channel)
        /\ shown' = IF stored[m] = active /\ active \in listed THEN WithMessage(m) ELSE shown
    BY DEF Receives
  <1>2. UNCHANGED <<wa, convs, stored>>
    BY <1>1 DEF server
  <1>3. channel \in Seq(Msgs) /\ listed \subseteq Docs /\ active \in Docs \cup {None}
    BY DEF DeliveryInv, TypeOK
  <1>4. m \in Msgs
    BY <1>1, <1>3
  <1>5. channel' \in Seq(Msgs) /\ EventIsStored'
    <2>1. channel' \in Seq(Msgs) /\ \A i \in DOMAIN channel' : i + 1 \in DOMAIN channel /\ channel'[i] = channel[i + 1]
      BY <1>1, <1>3
    <2> QED BY <1>2, <2>1 DEF DeliveryInv, PanelInv, EventIsStored
  <1>6. req' \in [Reqs -> Requests] /\ AnswerIsStored'
    <2>1. CASE UNCHANGED req
      BY <1>2, <2>1, RequestsStay
    <2>2. CASE Asks(r, "merge", None)
      BY <1>2, <2>2, AsksKeepsAnswers
    <2> QED BY <2>1, <2>2 DEF Receives
  <1> HIDE DEF m
  <1>7. /\ OneEach(shown)' /\ (DOMAIN shown)' \subseteq Entries
        /\ ShownIsStored' /\ BubbleGivesWay'
    <2>1. CASE UNCHANGED shown
      BY <1>1, <1>2, <2>1, PanelUntouched
    <2>2. CASE stored[m] = active /\ active \in listed /\ shown' = WithMessage(m)
      <3>1. OneEach(shown) /\ DOMAIN shown \subseteq Entries
        BY ShownIsOneEach DEF DeliveryInv, PanelInv
      <3>2. OneEach(shown')
        BY <2>2, <3>1, BagWithMessage
      <3>3. \A e \in DOMAIN shown' : \/ e \in DOMAIN shown /\ e \in DOMAIN WithoutTemp(m)
                                     \/ ~Shows(m) /\ e = Real(m, stored[m])
        BY <2>2, <3>1, BagWithMessage, BagWithoutTemp
      <3>4. Real(m, stored[m]) \in Entries /\ ~Real(m, stored[m]).temp
            /\ Real(m, stored[m]).msg = m /\ Real(m, stored[m]).doc = stored[m]
        BY <1>3, <1>4, <2>2 DEF Real, Entries
      <3>5. OneEach(shown)' /\ (DOMAIN shown)' \subseteq Entries
        BY <3>1, <3>2, <3>3, <3>4 DEF OneEach
      <3>6. ShownIsStored'
        <4>1. \A e \in DOMAIN shown' : shown'[e] = 1
          BY <3>2 DEF OneEach
        <4> QED BY <1>1, <1>2, <3>3, <3>4, <4>1 DEF DeliveryInv, PanelInv, ShownIsStored
      <3>7. BubbleGivesWay'
        <4>1. SUFFICES ASSUME NEW e \in DOMAIN shown', e.temp,
                              NEW f \in DOMAIN shown', ~f.temp, f.msg = e.msg
                       PROVE  FALSE
          BY DEF BubbleGivesWay, Shows
        <4>2. e \in DOMAIN shown /\ e \in DOMAIN WithoutTemp(m)
          BY <3>3, <3>4, <4>1
        <4>3. f \notin DOMAIN shown
          BY <4>1, <4>2 DEF DeliveryInv, PanelInv, BubbleGivesWay, Shows
        <4>4. e.msg = m
          BY <3>3, <3>4, <4>1, <4>3
        <4>5. m \in Own /\ e.doc = stored[m]
          BY <2>2, <4>1, <4>2, <4>4 DEF DeliveryInv, PanelInv, ShownIsStored
        <4> QED BY <3>1, <4>1, <4>2, <4>4, <4>5, BagWithoutTemp
      <3> QED BY <3>5, <3>6, <3>7
    <2> QED BY <1>1, <2>1, <2>2
  <1> QED BY <1>1, <1>3, <1>5, <1>6, <1>7, PanelMoves

LEMMA NextDelivery == DeliveryInv /\ [Next]_vars => DeliveryInv'
  <1> SUFFICES ASSUME DeliveryInv, [Next]_vars PROVE DeliveryInv'
    OBVIOUS
  <1>1. ASSUME NEW m \in Msgs, Written(m) \/ ServerSends(m) PROVE DeliveryInv'
    BY <1>1, ServerKeepsInv
  <1>2. ASSUME NEW m \in Msgs, Sends(m) PROVE DeliveryInv'
    BY <1>2, SendsKeepsInv
  <1>3. ASSUME NEW m \in Msgs, NEW t \in Tasks, Upsert(t, m) PROVE DeliveryInv'
    BY <1>3, UpsertKeepsInv
  <1>4. ASSUME NEW t \in Tasks, Finds(t) \/ Creates(t) \/ Inserts(t) PROVE DeliveryInv'
    BY <1>4, FindsKeepsInv
  <1>5. ASSUME NEW t \in Tasks, Stores(t) PROVE DeliveryInv'
    BY <1>5, StoresKeepsInv
  <1>6. ASSUME NEW t \in Tasks, Emits(t) \/ HandlerFails(t) PROVE DeliveryInv'
    BY <1>6, EmitsKeepsInv
  <1>7. CASE Authenticated \/ Joins \/ Lost
    BY <1>7, LinkKeepsInv
  <1>8. ASSUME NEW r \in Reqs, ListLoads(r) \/ \E d \in Docs : OpensConversation(r, d) PROVE DeliveryInv'
    BY <1>8, LoadsKeepInv
  <1>9. ASSUME NEW r \in Reqs, ServerReads(r) PROVE DeliveryInv'
    BY <1>9, ServerReadsKeepsInv
  <1>10. ASSUME NEW r \in Reqs, HistoryArrives(r) \/ ListArrives(r) \/ RequestFails(r) PROVE DeliveryInv'
    BY <1>10, AnswersKeepInv
  <1>11. ASSUME NEW r \in Reqs, Receives(r) PROVE DeliveryInv'
    BY <1>11, ReceivesKeepsInv
  <1>12. CASE UNCHANGED vars
    <2>1. UNCHANGED <<wa, upserts, convs, stored, task, link, channel, listed, active, shown, req>>
      BY <1>12 DEF vars, server, panel
    <2>2. TypeOK'
      BY <2>1 DEF DeliveryInv, TypeOK
    <2>3. ServerInv'
      BY <2>1 DEF DeliveryInv, ServerInv, HandlerKnows, StoredWasSent, FiledInAConversation
    <2>4. PanelInv'
      BY <2>1, PanelStays, EventStays DEF PanelInv
    <2> QED BY <2>2, <2>3, <2>4 DEF DeliveryInv
  <1> QED BY <1>1, <1>2, <1>3, <1>4, <1>5, <1>6, <1>7, <1>8, <1>9, <1>10, <1>11, <1>12 DEF Next

(* The panel's messages are a bag and its requests hold what was asked.    *)
THEOREM TypeCorrect == Spec => []TypeOK
  <1>1. DeliveryInv => TypeOK
    BY DEF DeliveryInv
  <1> QED BY <1>1, InitDelivery, NextDelivery, PTL DEF Spec

(* However many handlers of messages.upsert overlap, fail and repeat, a    *)
(* stored message is filed under a document of its chat that exists.       *)
THEOREM FiledWhereItBelongs == Spec => []FiledInAConversation
  <1>1. DeliveryInv => FiledInAConversation
    BY DEF DeliveryInv, ServerInv
  <1> QED BY <1>1, InitDelivery, NextDelivery, PTL DEF Spec

(* The panel merges history, live and repeated events without showing a    *)
(* message twice.                                                          *)
THEOREM NothingTwice == Spec => []ShownOnce
  <1>1. DeliveryInv => ShownOnce
    <2>1. SUFFICES ASSUME DeliveryInv, NEW e \in DOMAIN shown, NEW f \in DOMAIN shown
                   PROVE  shown[e] = 1 /\ (e.msg = f.msg /\ e.temp = f.temp => e = f)
      BY DEF ShownOnce
    <2>2. shown[e] = 1
      BY <2>1 DEF DeliveryInv, PanelInv, ShownIsStored
    <2>3. e \in Entries /\ f \in Entries
      BY <2>1, ShownIsOneEach DEF DeliveryInv, PanelInv
    <2>4. ASSUME e.msg = f.msg, e.temp = f.temp PROVE e = f
      <3>1. e.doc = f.doc
        BY <2>1, <2>4 DEF DeliveryInv, PanelInv, ShownIsStored
      <3> QED BY <2>3, <2>4, <3>1 DEF Entries
    <2> QED BY <2>2, <2>4
  <1> QED BY <1>1, InitDelivery, NextDelivery, PTL DEF Spec

(* The echo of a message takes the place of its bubble, whatever order     *)
(* answers and events come in.                                             *)
THEOREM BubbleIsReplaced == Spec => []BubbleGivesWay
  <1>1. DeliveryInv => BubbleGivesWay
    BY DEF DeliveryInv, PanelInv
  <1> QED BY <1>1, InitDelivery, NextDelivery, PTL DEF Spec
=============================================================================

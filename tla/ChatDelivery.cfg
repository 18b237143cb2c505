SPECIFICATION Spec
CONSTANTS
    chat = chat
    theirs = theirs
    own1 = own1
    own2 = own2
    hello = hello
    ok = ok
    Chats = {chat}
    Copies = {d1, d2}
    Theirs = {theirs}
    Own = {own1, own2}
    ChatOf <- MCChatOf
    TextOf <- MCTextOf
    Tasks = {t1, t2}
    Reqs = {r1, r2}
    MaxUpserts = 2
    None = None
INVARIANTS
    TypeOK
    FiledInAConversation
    ShownOnce
    BubbleGivesWay
SYMMETRY Symmetry
CHECK_DEADLOCK FALSE

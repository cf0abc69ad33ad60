CONSTANTS
    Users = {u1, u2}
    Chats = {c1, c2}
    Messages = {m1}
    Txs = {t1, t2}
    Actors = {u1, u2}
    MaxMembers = 2
    MaxDeletions = 1
    NoUser = NoUser
    NoChat = NoChat
    NoMessage = NoMessage
SPECIFICATION Spec
SYMMETRY Symmetry
CHECK_DEADLOCK FALSE
INVARIANT OneChatPerPair
PROPERTY WorksAtomically

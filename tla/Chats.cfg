CONSTANTS
    Users = {u1, u2, u3, u4}
    Chats = {c1}
    Messages = {m1, m2}
    Txs = {t1, t2}
    Actors = {u1, u2}
    MaxMembers = 3
    MaxDeletions = 0
    NoUser = NoUser
    NoChat = NoChat
    NoMessage = NoMessage
SPECIFICATION Spec
SYMMETRY Symmetry
CHECK_DEADLOCK FALSE
INVARIANTS
    TypeOK
    OnlyPostedIsRead
    LimitKept
    DeadlockNeedsDeletion
PROPERTY WorksAtomically

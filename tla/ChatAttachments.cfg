CONSTANTS
    Users = {u1, u2}
    Chats = {c1, c2}
    Direct = {c2}
    Messages = {m1, m2}
    Files = {f1, f2}
    MaxFaults = 1
SPECIFICATION Spec
SYMMETRY Symmetry
CHECK_DEADLOCK FALSE
INVARIANTS
    TypeOK
    AttachmentHasObject
    NoStrayObject
PROPERTIES
    PostedByMember

SPECIFICATION FairSpec
CONSTANTS
    Docs = {d1}
    Titles = {a, b}
    Categories = {ordinary, rented, voluntary}
    Voluntary = voluntary
    Requests = {r1}
    None = None
    Own = Own
PROPERTIES
    EveryCallerAnswered
    MirrorsRegistry
CHECK_DEADLOCK FALSE

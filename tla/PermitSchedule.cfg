SPECIFICATION FairSpec
CONSTANTS
    Docs = {1, 2}
    Workers = {w1}
    Callers = {c1}
    Limit = 1
    MaxRequests = 1
    MaxFaults = 1
    MaxQueue = 2
    None = None
INVARIANT TypeOK
PROPERTIES
    FoundIsKept
    EveryPendingIsTried
    EveryErrorIsRetried
    EveryStatusIsChecked

SPECIFICATION FairSpec
CONSTANTS
    Docs = {d1, d2, d3}
    Txs = {t1, t2}
    NoDoc = NoDoc
    NoTx = NoTx
INVARIANTS
    TypeOK
    PairsMutual
    NumberSharedOnlyByPair
    AssignmentStillHolds
    VoluntarySaveStillAllowed
PROPERTIES
    EveryRequestEnds
    KeepsTheRegister

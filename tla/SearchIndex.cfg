SPECIFICATION FairSpec
CONSTANTS
    Records = {r1, r2}
    Values = {a}
    Txs = {t1, t2}
    MaxWrites = 1
    Related = FALSE
    None = None
    Same = Same
INVARIANTS
    TypeOK
    IndexUpToDate
    ReadyIsKept
PROPERTIES
    EveryBuildEnds

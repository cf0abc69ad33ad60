SPECIFICATION FairSpec
CONSTANTS
    Records = {r1}
    Values = {a, b}
    Txs = {t1}
    MaxWrites = 2
    Related = FALSE
    None = None
    Same = Same
PROPERTIES
    EveryBuildEnds

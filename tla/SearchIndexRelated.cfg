SPECIFICATION Spec
CONSTANTS
    Records = {r1, r2}
    Values = {a, b}
    Txs = {t1}
    MaxWrites = 2
    Related = TRUE
    None = None
    Same = Same
SYMMETRY Symmetry
INVARIANTS
    IndexUpToDate

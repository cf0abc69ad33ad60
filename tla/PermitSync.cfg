SPECIFICATION Spec
CONSTANTS
    Docs = {d1}
    Titles = {a, b}
    Categories = {ordinary}
    Voluntary = voluntary
    Requests = {r1, r2}
    None = None
    Own = Own
SYMMETRY Symmetry
INVARIANTS
    TypeOK
    RegistryDataFit
    NoRowIsForgotten
PROPERTIES
    ToldIsStored
CHECK_DEADLOCK FALSE

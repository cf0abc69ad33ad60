CONSTANTS
    Shipments = {s1, s2}
    Drafts = {dr}
    Folders = {f1}
    Docs = {d1, d2}
    Requests = {r1, r2}
    Updated = {f1}
    MaxFaults = 1
    Nowhere = Nowhere
    None = None
SPECIFICATION Spec
SYMMETRY Symmetry
CHECK_DEADLOCK FALSE
INVARIANTS
    TypeOK
    RowHasObject
    NoStrayUnderShipment
PROPERTY SaveTakesItsDraft

CONSTANTS
    Shipments = {s1}
    Drafts = {dr}
    Folders = {f1, f2}
    Docs = {d1, d2}
    Requests = {r1, r2}
    Updated = {}
    MaxFaults = 1
    Nowhere = Nowhere
    None = None
SPECIFICATION Spec
SYMMETRY Symmetry
CHECK_DEADLOCK FALSE
INVARIANT TreeSound

SPECIFICATION MCSpec
CONSTANTS
    Requests = {r1, r2}
    Kinds = {"put"}
    Fields = {"name"}
    Values = {v1, v2}
    Earlier = Earlier
    None = None
    MaxConcurrent = 2
    MaxLag = 1
    MaxPuts = 2
    MaxRefs = 2
SYMMETRY Symmetry
INVARIANTS
    AcknowledgedPutApplied
CHECK_DEADLOCK FALSE

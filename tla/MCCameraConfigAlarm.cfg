SPECIFICATION MCSpec
CONSTANTS
    Requests = {r1, r2}
    Kinds = {"alarm"}
    Fields = {"name"}
    Values = {v1, v2}
    Earlier = Earlier
    None = None
    MaxConcurrent = 2
    MaxLag = 1
    MaxPuts = 2
    MaxRefs = 2
SYMMETRY Symmetry
INVARIANTS
    AlarmFillsOnlyMissing
CHECK_DEADLOCK FALSE

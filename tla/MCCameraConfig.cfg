SPECIFICATION MCSpec
CONSTANTS
    Requests = {r1, r2, r3}
    Kinds = {"put", "ref", "alarm", "delete"}
    Fields = {"name"}
    Values = {v1, v2}
    Earlier = Earlier
    None = None
    MaxConcurrent = 2
    MaxLag = 1
    MaxPuts = 1
    MaxRefs = 2
SYMMETRY Symmetry
INVARIANTS
    TypeOK
    SerialReferencesKept
    FreshPutApplied
    AnalyticsReplaced
    DeletionRemovesAnalytics
    PutReferencesStored
PROPERTIES
    SnapshotClearedByAlarm
CHECK_DEADLOCK FALSE

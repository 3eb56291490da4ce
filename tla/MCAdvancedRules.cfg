SPECIFICATION MCSpec
CONSTANTS
    Requests = {r1, r2, r3}
    Features <- MCFeatures
    Earlier = Earlier
    Null = Null
    Undefined = Undefined
    MaxConcurrent = 2
    MaxLag = 1
SYMMETRY Symmetry
INVARIANTS
    TypeOK
    PutApplied
    DuplicatesExplained
    RowsOnlyWhileUsed
    DeletionRemovesRules
PROPERTIES
    UnchangedRulesKeepTheirRow
    PutBackKeeps
CHECK_DEADLOCK FALSE

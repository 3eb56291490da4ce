CONSTANTS
    Requests <- MCRequests
    Workload <- MCWorkload
    Ids <- MCIds
    Existing <- MCExisting
    Grants <- MCGrants
    MaxChanges = 1
    PageSize = 1
SPECIFICATION Spec
INVARIANTS
    TypeOK
    AnswersHold
    WalkListsStable
PROPERTIES
    OnlyGranted
CHECK_DEADLOCK FALSE

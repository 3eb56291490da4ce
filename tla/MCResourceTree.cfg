SPECIFICATION MCSpec
CONSTANTS
    Requests = {r1, r2, r3}
    Kinds = {"putClient", "putSite", "putCamera", "deleteCamera", "deleteSite", "deleteClient", "deleteCompany"}
    Keys = {hq, depot}
    Earlier = Earlier
    None = None
    MaxConcurrent = 2
    MaxLag = 1
SYMMETRY Symmetry
INVARIANTS
    TypeOK
    ClientsUnique
    LookupsPreventDuplicates
    NoSiteOutlivesClient
    NoViewOutlivesSite
    OneDeletionAcknowledged
    PutPlacesCamera
CHECK_DEADLOCK FALSE

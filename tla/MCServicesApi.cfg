SPECIFICATION ApiSpec
CONSTANTS
    Services <- ServicesInOrder
    Stoppable = {"DB", "API", "Prometheus"}
    Database = "DB"
    Api = "API"
    Monitor = "Prometheus"
    r1 = r1
    r2 = r2
    Requests = {r1, r2}
    Workload <- WorkloadOfBoth
    Grants <- CapabilitySets
    MaxChanges = 1
INVARIANTS
    ApiTypeOK
    ReverseOrder
    OpenRequestsHaveDatabase
    ShutdownStopsAll
    SummariesAgree
    NeverStuck
PROPERTIES
    PromiseKept
    ShutdownEnds
    EveryRequestSettles
CHECK_DEADLOCK FALSE

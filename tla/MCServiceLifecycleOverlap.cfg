SPECIFICATION Spec
CONSTANTS
    Services <- ServicesInOrder
    Stoppable = {"DB", "Dynamo", "Redshift", "API", "Prometheus"}
    Database = "DB"
    Api = "API"
    Monitor = "Prometheus"
    Requests = {r1, r2}
INVARIANTS
    StoppersOneAtATime
CHECK_DEADLOCK FALSE

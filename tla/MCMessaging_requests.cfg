SPECIFICATION FairSpec
CONSTANTS
    Connectors <- Lockfree
    Callers = {"a"}
    Requests = {"datasources", "history", "headless", "other"}
    NumBuckets = 2
    MaxBatches = 1
    Budget = 3
INVARIANTS
    NoCircularWait
PROPERTIES
    ImplementsService
    ImplementsFairService

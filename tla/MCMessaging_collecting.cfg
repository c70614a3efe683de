SPECIFICATION FairSpec
CONSTANTS
    Connectors <- Locking
    Callers = {"a"}
    Requests = {"headless"}
    NumBuckets = 2
    MaxBatches = 1
    Budget = 3
PROPERTY UpdateIsAskedFor

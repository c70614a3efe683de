SPECIFICATION FairSpec
CONSTANTS
    Connectors = {"headless"}
    Callers = {"a"}
    Requests = {"datasources"}
    NumBuckets = 1
    MaxBatches = 1
    Budget = 3
PROPERTY RequestsAreAnswered
CHECK_DEADLOCK FALSE

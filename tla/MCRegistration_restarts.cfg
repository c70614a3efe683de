SPECIFICATION Spec
CONSTANTS
    api = api
    cpu = cpu
    headless = headless
    other = other
    System = System
    Scanned <- InPath
    Added <- ByName
    PushIds <- Pushes
    PullIds <- Pulls
    KeepsFirst <- First
    Connectors <- MakeConnectors
    Singletons <- Single
    MaxAdds = 2
    MaxInits = 3
    MaxStarts = 3
INVARIANTS
    OwnBucket
    ReadyToServe
CHECK_DEADLOCK FALSE

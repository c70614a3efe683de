SPECIFICATION FairSpec
CONSTANTS
    w1 = w1
    w2 = w2
    Workers <- Sources
    Interval <- Intervals
    Threshold = 2
    SemaphoreMax = 2
    MaxWait = 1
INVARIANTS
    CountdownMatches
    ClosedAtTheEnd
PROPERTIES
    UpdateReachesAll
    NoPullAfterStop
    SourcesArePulled
    PoolEnds
    WorkersEnd
CHECK_DEADLOCK FALSE

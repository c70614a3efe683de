SPECIFICATION FairSpec
CONSTANTS
    Platforms = {"linux", "aix", "osx"}
    Workers = {"cpu"}
    Headless = "timed"
    Failures = {"pull", "publish"}
    Interruptible = {"worker", "publish", "timer", "processing"}
    MaxStarts = 2
    StartsOn <- Restarts
INVARIANTS
    StopIsComplete
    OnePublisher
    StopIsUndone
PROPERTIES
    StopReturns
    FailedStartEnds
CHECK_DEADLOCK FALSE

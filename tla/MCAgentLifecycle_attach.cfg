SPECIFICATION Spec
CONSTANTS
    Platforms = {"linux"}
    Workers = {"cpu"}
    Headless = "timed"
    Failures = {}
    Interruptible = {}
    MaxStarts = 2
    StartsOn <- Restarts
INVARIANT CanBeRestarted
CHECK_DEADLOCK FALSE

SPECIFICATION FairSpec
CONSTANTS
    s1 = s1
    Sources <- OneSource
    NoSource = NoSource
    MaxRuns = 2
    MaxRolls = 1
    MaxStarts = 2
    MaxSets = 5
INVARIANTS
    LeftBehindIsAnnounced
    StopAnnouncesAll
    EverySetBeginsWithARequest
PROPERTIES
    RunsEnd
    StopReturns
CHECK_DEADLOCK FALSE

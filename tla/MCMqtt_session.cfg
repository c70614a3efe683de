SPECIFICATION AnsweredSpec
CONSTANTS
    Posix = TRUE
    Mute = FALSE
    MaxId = 4
    Fds <- TwoFds
    MaxMessages = 2
    MaxRequests = 1
    MaxFaults = 1
INVARIANTS
    TypeOK
    TokensDiffer
    SubscribedFirst
    InOrder
    WillIsNotForgotten
PROPERTIES
    DroppedOnlyWithSession
    Reconnects
    StopEndsTheSession
CHECK_DEADLOCK FALSE

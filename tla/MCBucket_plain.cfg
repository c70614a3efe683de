SPECIFICATION FairSpec
CONSTANTS
    Capacity = 4
    PublishSize = 3
    Sizes <- MCSizes
    Persistence <- MCNotPersistent
    Readers = {}
    Requests <- MCRequests
    MaxId = 5
PROPERTIES
    ImplementsLog
    EventuallyPublished

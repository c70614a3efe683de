SPECIFICATION Spec
CONSTANTS
    Capacity = 3
    PublishSize = 2
    Sizes <- MCSizes
    Persistence <- MCAny
    Readers = {}
    Requests <- MCRequests
    MaxId = 3
INVARIANT
    AddedIsReachable

SPECIFICATION Spec
CONSTANTS
    Capacity = 4
    PublishSize = 3
    Sizes <- MCSizes
    Persistence <- MCAny
    Readers = {r1}
    Requests <- MCRequests
    MaxId = 5
INVARIANTS
    Accounting
    WithinCapacity
    NoUnpublishedLoss
    ReaderAccounting
    NoSilentSkip
PROPERTIES
    PublishedInOrder
    ReplayIsComplete

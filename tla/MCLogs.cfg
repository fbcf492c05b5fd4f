SPECIFICATION FairSpec
CONSTANTS
    Page = 2
    Capacity = 2
    MaxRecords = 3
    MaxBoots = 3
INVARIANTS
    NothingLost
PROPERTIES
    EndsWithTheRing
    ReadAllReturns
CHECK_DEADLOCK FALSE

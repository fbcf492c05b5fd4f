SPECIFICATION FairSpec
CONSTANTS
    r1 = r1
    r2 = r2
    r3 = r3
    k1 = k1
    Requests = {r1, r2, r3}
    Priorities = {0, 1}
    Keys = {k1}
    NoKey = NoKey
    Timeouts <- MCTimeouts
    Burst = 5
    Rate = 1
    Cost = 2
    MaxInFlight = 2
    MaxTime = 2
INVARIANTS
    BooksBalance
    HeldOrCalled
    ResponseMeetsItsRequest
PROPERTIES
    TimeoutsExact
    UrgentFirst
    CallsOnce
    EveryHandlerCalled

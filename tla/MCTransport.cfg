SPECIFICATION FairSpec
CONSTANTS
    f1 = f1
    f2 = f2
    f3 = f3
    big = big
    Frames = {f1, f2, f3, big}
    Oversized = {big}
    MaxTxQueue = 2
INVARIANTS
    QueueSound
    NoOverlap
PROPERTIES
    KeepsPromise
    OwnerAnswered
CHECK_DEADLOCK FALSE

SPECIFICATION Spec
CONSTANTS
    p = p
    q = q
    v1 = v1
    v2 = v2
    bad = bad
    t1 = t1
    s1 = s1
    Absent = Absent
    AllNames = AllNames
    Names = {p, q}
    Writable = {p}
    Values = {v1, v2, bad}
    Invalid = {bad}
    Threads = {t1}
    Subscribers = {s1}
    Topic <- AllTopics
    MaxRequests = 2
    MaxConnections = 2
    MaxWire = 1
SYMMETRY ValueSymmetry
INVARIANTS
    CacheSound
    TellsChanges
PROPERTIES
    StagedUntilConfirmed

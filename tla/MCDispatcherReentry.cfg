SPECIFICATION Spec
CONSTANTS
    r1 = r1
    r2 = r2
    r3 = r3
    Requests = {r1, r2, r3}
    Timeouts = {1, 2}
    Capacity = 4
    MaxTime = 2
INVARIANT
    HeldOrCalled

SPECIFICATION BusSpec
CONSTANTS
    a = a
    b = b
    c = c
    Objects = {a, b, c}
    MaxTokens = 4
    MaxEvents = 3
SYMMETRY ObjectSymmetry
INVARIANTS
    SlotsSound
    Delivered
CHECK_DEADLOCK FALSE

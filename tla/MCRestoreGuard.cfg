SPECIFICATION Spec
CONSTANTS
    p = p
    q = q
    v1 = v1
    v2 = v2
    g1 = g1
    g2 = g2
    Absent = Absent
    Names = {p, q}
    Values = {v1, v2}
    Guards = {g1, g2}
    MaxCaptures = 2
INVARIANTS
    BaselineSafe

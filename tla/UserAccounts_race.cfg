CONSTANTS
    r1 = r1  r2 = r2  p1 = p1  p2 = p2  k1 = k1  k2 = k2  i1 = i1  i2 = i2
    Requests = {r1, r2}
    Phones = {p1, p2}
    Codes = {k1}
    Ids = {i1, i2}
    MaxLate = 0
    None = None
SPECIFICATION Spec
SYMMETRY Symmetry
INVARIANTS TypeOK RegisteredOnce TokenNamesOwner NoCodeForStrangers
PROPERTIES CodeWasValid

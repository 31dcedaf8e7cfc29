SPECIFICATION Spec
CONSTANTS
    c1 = c1
    c2 = c2
    Caller = {c1, c2}
    Capacity = 4
    Cost = 2
    KeyTTL = 6
    MaxLag = 2
    MaxWindow = 4
    MaxGrant = 16
    MaxRegress = 4
SYMMETRY Symmetry
INVARIANT RateBound
INVARIANT WaitIsExact

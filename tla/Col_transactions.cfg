SPECIFICATION Spec
CONSTANTS
    k1 = k1  k2 = k2
    None = None
    Keys = {k1, k2}
    Vals = {1, 2}
    Width = 4
    Path <- Near
    Bits = 3
INVARIANTS TypeOK Canonical NavigatesByStake
PROPERTY ImplementsMap

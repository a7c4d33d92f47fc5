SPECIFICATION SharedSpec
CONSTANTS
    k1 = k1  k2 = k2
    None = None
    Keys = {k1, k2}
    Vals = {1, 3}
    Width = 4
    Path <- Near
    Bits = 3
PROPERTY RollbackRestores

SPECIFICATION VerifierSpec
CONSTANTS
    k1 = k1  k2 = k2  k3 = k3
    None = None
    Keys = {k1, k2, k3}
    Vals = {3}
    Width = 4
    Path <- Deep
    Bits = 4
    Scopes <- TwoScopes
    Updates <- FewUpdates
    MaxHeld = 2
    MixedUse = FALSE
INVARIANTS VerifierFollows MarksAreFound
PROPERTY ScopeIsServed

SPECIFICATION Spec
CONSTANTS
    h1 = h1  h2 = h2
    c1 = c1  c2 = c2  c3 = c3
    k1 = k1  k2 = k2  k3 = k3
    v1 = v1  v2 = v2
    None = None  Boot = Boot
    Handlers = {h1}
    Chains = {c1}
    Ghosts = {}
    Keys = {k1, k2}
    Vals = {v1, v2}
    EmptyKey = None
    Requests <- Keyed
    ColdRace = FALSE
    MaxArrivals = 5
    MaxCrashes = 1
    MaxFaults = 0
\* The bound on arrivals stops every run.
CHECK_DEADLOCK FALSE
INVARIANT ReadsMatch

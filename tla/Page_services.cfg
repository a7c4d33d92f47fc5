SPECIFICATION FairSpec
CONSTANTS
    c1 = c1  c2 = c2  s1 = s1  s2 = s2
    None = None  NoServer = NoServer
    Chains = {c1, c2}
    FirstChain = c1
    Servers = {s1, s2}
    ServerList <- Lists
    Roster <- Rosters
    Environments <- Every
    MaxCalls = 2
    MaxSent = 1
\* After a failure to load the list of chains nothing more happens.
CHECK_DEADLOCK FALSE
INVARIANTS TypeOK OneRefreshLoop NoneForgotten TableFollows ChainMatches
PROPERTIES PickSettles Recovers

SPECIFICATION SignSpec
CONSTANTS
    c1 = c1  c2 = c2  s1 = s1  s2 = s2  s3 = s3  s4 = s4  f1 = f1  f2 = f2
    None = None  NoServer = NoServer
    Files = {f1, f2}
    Chains = {c1, c2}
    Servers = {s1, s2, s3, s4}
    Roster <- Rosters
    Answers <- SomeAnswers
    SignEnvs <- PickingSignEnvs
    MaxAttempts = 1
INVARIANT SavedIsSound

SPECIFICATION Spec
CONSTANTS
    h1 = h1
    h2 = h2
    t1 = t1
    t2 = t2
    NoTab = NoTab
    Handler <- MCHandlers
    Tab <- MCTabs
    MaxFailed = 2
    MaxSessions = 2
    MaxLinks = 1
    MaxMinted = 3
    MaxWrong = 2
    MaxUpsets = 2
CHECK_DEADLOCK FALSE
SYMMETRY Symmetry
INVARIANTS
    SessionsTypeOK
    ReuseMeansCrossing
    ResetEndsSessions
    ResetLinksWorkOnce
    LockedByFailures
PROPERTIES
    RevokedForGood

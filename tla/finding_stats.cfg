\* Three addresses, two places, and one thread of the panel that asks for stats().
SPECIFICATION FairSpec
CONSTANTS
    Addr <- MCAddr
    Pool0 <- MCPool
    NoIP <- MCNoIP
    NumIPs = 2
    MaxClients = 2
    IdleLimit = 2
    ReapPeriod = 2
    UseTun = FALSE
    Viewers = {v1}
INVARIANTS StatsIsSnapshot
CHECK_DEADLOCK FALSE

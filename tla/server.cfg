\* Three addresses, two places and two virtual IPs: the table fills up, and after a
\* kick the pool runs dry.
SPECIFICATION FairSpec
CONSTANTS
    Addr <- MCAddr
    Pool0 <- MCPool
    NoIP <- MCNoIP
    NumIPs = 2
    MaxClients = 2
    IdleLimit = 2
    ReapPeriod = 2
    UseTun = TRUE
    Viewers = {v1}
INVARIANTS TypeOK NoSharedIP PoolSound MaxClientsEnforced ReapsOnlyIdle
    IdleSessionsGone
PROPERTIES LossOnlyByKick LeaseSpec StaysOnlyIfHeard
\* The server may be stopped, or fail to start.
CHECK_DEADLOCK FALSE

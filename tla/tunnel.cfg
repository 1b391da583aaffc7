\* Two clients and one place, so that a handshake finds the table full; two sessions in all, so
\* that an address or the other client comes in after a kick or a reaper pass; one datagram lost.
SPECIFICATION FairTunnelSpec
CONSTANTS
    Addr <- MCAddr
    Pool0 <- MCPool
    NoIP <- MCNoIP
    NumIPs = 1
    MaxClients = 1
    IdleLimit = 0
    ReapPeriod = 1
    UseTun = FALSE
    Viewers = {}
    MaxEpochs = 2
    MaxLosses = 1
INVARIANTS TunnelTypeOK ConnectedOrDropped
PROPERTIES ClientKeysOnce EngineKept ConnectsUnlessLost
\* Everything may stop.
CHECK_DEADLOCK FALSE

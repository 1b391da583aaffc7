\* Two clients, room for both, two sessions in all: one handshake is enough.
SPECIFICATION FairTunnelSpec
CONSTANTS
    Addr <- MCAddr
    Pool0 <- MCPool
    NoIP <- MCNoIP
    NumIPs = 1
    MaxClients = 2
    IdleLimit = 0
    ReapPeriod = 1
    UseTun = FALSE
    Viewers = {}
    MaxEpochs = 2
    MaxLosses = 1
CHECK_DEADLOCK FALSE
INVARIANTS KeysAgree

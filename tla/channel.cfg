\* Two handshakes, three frames, two opens a side, and a counter that runs out.
SPECIFICATION EngineSpec
CONSTANTS
    HasAccel = TRUE
    NonceLimit = 2
    MaxBases = 2
    MaxSeals = 3
    MaxOpens = 2
INVARIANTS EngineTypeOK NonceOnce
PROPERTIES ChannelSpec
\* The bounds end every behaviour.
CHECK_DEADLOCK FALSE

\* Octets 0 to 3; a name of 2 octets fits, one of 3 does not; 6 octets are the longest payload.
SPECIFICATION ProtocolSpec
CONSTANTS
    empty = empty
    a = a
    e = e
    aaa = aaa
    MaxOctet = 3
    MaxLength = 7
    Magic = 1
    Types = {0, 1, 2}
    HandshakeInit = 0
    HandshakeReply = 1
    Data = 2
    Priority = 2
    MaxPayload = 6
    MaxName = 2
    NonceLen = 1
    KeyLen = 1
    SigLen = 1
    Names = {empty, a, e, aaa}
    Utf8 <- MCUtf8
    Foreign <- MCForeign
INVARIANTS Understood NothingInvented

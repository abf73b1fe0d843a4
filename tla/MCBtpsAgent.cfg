\* One command after or beside another; each identity may change its key once
CONSTANTS
    None = None
    Garbled = Garbled
    c1 = c1
    c2 = c2
    Commands = {c1, c2}
    Params <- MCParams
    Publishers <- MCPublishers
    Self = "alice$a.org"
    Server = "server$a.org"
    MaxSelector = 2
    MaxQueue = 1
    PemPairs <- MCPemPairs

SPECIFICATION FairSpec

INVARIANTS
    ReadsAsCommanded
    ServerReadsAgent

PROPERTIES
    SendSpec
    CommandsEnd

CHECK_DEADLOCK FALSE

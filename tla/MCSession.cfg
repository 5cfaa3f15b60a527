SPECIFICATION SessionSpec
CONSTANTS
    Clients = {"a", "b"}
    TokensOf <- ThreeTokens
    IdOf <- IdPerClient
    Refused = {}
    MaxClients = 1
    MaxLinks = 2
    MaxBatch = 2
    MaxTokens = 2
    ReuseTokens = FALSE
    Size = 3
    MaxSeq = 7
    pa = pa
    pb = pb
    pc = pc
    Scenarios <- MCScenarios
    Delay = 1
    MaxFaults = 1
    MaxLag = 1
    PeerIds = {pa, pb, pc}
    Strays = {s}
    Inline = 1
    MaxList = 2
SYMMETRY AnyPeer
INVARIANTS CapacityRespected TablesAgree ConnectedIsAccepted NoReplay FreshAccepted OneStartTick StartedIsBacked TargetsExact
PROPERTIES AgreedBarrierHolds
CHECK_DEADLOCK FALSE

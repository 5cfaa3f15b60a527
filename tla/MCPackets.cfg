CONSTANTS
    a = a
    b = b
    NoPacket = NoPacket
    IdModulus = 6
    AckBits = 1
    MaxLag = 5
    MaxBurst = 2
    MaxInFlight <- MCMaxInFlight
    Peer <- MCPeer
    MaxData <- MCMaxData
    MaxSent <- MCMaxSent
    Candidate <- MCCandidate
    SingleSizes = {1, 9}
    FragmentSizes = {3}
    Gains = {0, 1}
    Priorities = {1, 2}
    ChannelIds = {1, 2}
    MaxCandidates = 4
    HeaderBytes = 1
    ChannelBytes = 1
    MaxBatch = 2
    Mtu = 8
    MinPayload = 3
    MaxPayload = 9
    Quotas = {9, 100}
    PingIds = 4
    StoreSize = 2
    HandshakePings = 1
    ErrorsThreshold = 2
    MaxPongAge = 2
    StaleDelivery = FALSE
    MaxPings = 5
    MaxSessions = 2
    NoPing = NoPing
SPECIFICATION PacketsSpec
INVARIANTS TypeOK AckedWasReceived NoOverwrite BufferExact PackedFaithfully SamplesAreTrue
PROPERTIES ClockSteps
CHECK_DEADLOCK FALSE

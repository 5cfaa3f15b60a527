CONSTANTS
    Channels <- LiveChannels
    IdModulus = 8
    NoMessage = NoMessage
    ResendDelay = 1
    MaxOutstanding = 3
    MaxLifetime = 4
    MaxWire = 3
    ChannelsUsed = {"WithAcks"}
    Unreadable = {}
    RetryUnsent = FALSE
    Lengths = {1, 3}
    AckWindow = 1
    MaxPerPacket = 1
    MaxTransported = 1
    MaxPackets = 3
    WindowPeers = {p1, p2}
    MaxPredicted = 1
    WindowDelay = 0
    WindowRedundancy = 3
    TicksPerFrame = 1
    MaxWindowTick = 3
    NoInputYet = NoInputYet
    pa = pa
    pb = pb
    pc = pc
    Scenarios <- LiveScenarios
    Delay = 1
    MaxFaults = 1
SPECIFICATION LiveSpec
PROPERTIES EventuallyDelivered EventuallyReleased EventuallyReported SessionsAdvance AttemptEnds
CHECK_DEADLOCK FALSE

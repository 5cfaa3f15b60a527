CONSTANTS
    Channels <- SafeChannels
    IdModulus = 6
    NoMessage = NoMessage
    ResendDelay = 1
    MaxOutstanding = 2
    MaxLifetime = 3
    MaxWire = 1
    UnreliableCounts = {1, 2}
    NoNewest = NoNewest
    DiscardAfter = 2
    MaxRate = 1
    MaxDelay = 1
    MaxFrames = 8
    MaxReadable = 3
    ChannelsUsed = {"Reliable", "WithAcks", "Plain"}
    Unreadable = {}
    RetryUnsent = FALSE
    Lengths = {1, 2}
    AckWindow = 1
    MaxPerPacket = 2
    MaxTransported = 2
    MaxPackets = 3
SPECIFICATION ChannelsSpec
INVARIANTS Intact BooksAgree WholeAndNewer TrackersFollow ReportsAreTrue ReliableUntilAccepted
PROPERTIES PromisedSafety
CHECK_DEADLOCK FALSE

CONSTANTS
    ChannelsUsed = {"Reliable", "Plain"}
    Unreadable = {"Plain"}
    RetryUnsent = TRUE
    Lengths = {1}
    AckWindow = 1
    MaxPerPacket = 2
    MaxTransported = 2
    MaxPackets = 3
SPECIFICATION TransportSpec
INVARIANTS ReliableUntilAccepted
CHECK_DEADLOCK FALSE

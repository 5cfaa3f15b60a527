CONSTANTS
    Channels <- ReusingChannels
    IdModulus = 6
    NoMessage = NoMessage
    ResendDelay = 1
    MaxOutstanding = 2
    MaxLifetime = 3
    MaxWire = 1
SPECIFICATION Spec
INVARIANTS Intact
CHECK_DEADLOCK FALSE

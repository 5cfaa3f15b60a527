CONSTANTS
    Joiners = {c1, c2}
    JoinLead = 1
    RetryTicks = 1
    MaxRequests = 2
    JoinRollback = 2
    InputLag = 0
    KeepsEntity = FALSE
    MaxJoinTick = 3
    MaxJoins = 2
    NoTick = NoTick
    NotRequired = NotRequired
    InterpModes = {"value", "diff"}
    InterpLead = 0
    MaxInterpTick = 4
    NoCursor = NoCursor
    Gone = Gone
    Unchanged = Unchanged
    NoState = NoState
    WindowPeers = {p1, p2}
    MaxPredicted = 1
    WindowDelay = 1
    WindowRedundancy = 4
    TicksPerFrame = 1
    MaxWindowTick = 3
    NoInputYet = NoInputYet
    p1 = p1
    p2 = p2
    left = left
    right = right
    idle = idle
    PeerActions <- PlayerActions
    ChecksumTicks = 0
    MaxUnderway = 3
    Unserializable = {}
    MaxMessages = 4
    MaxMsgTick = 2
    MaxEpochs = 2
    MaxPending = 2
    MaxLag = 1
SPECIFICATION WorldSpec
SYMMETRY Alike
INVARIANTS CatchUpIsHonest HistorySound ChecksumsAgree DeliveredAsSent OnlyTheFailingIsLost
PROPERTIES ShownNeverGoesBack
CHECK_DEADLOCK FALSE

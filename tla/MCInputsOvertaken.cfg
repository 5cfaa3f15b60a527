CONSTANTS
    None = None
    Same = Same
    Actions = {x}
    Delay = 0
    Redundancy = 3
    HistoryDepth = 2
    MaxRollback = 2
    Lookahead = 5
    Overtaking = {"server", "client"}
    MaxInFlight = 3
    MaxInputTick = 5
SPECIFICATION InputSpec
INVARIANTS AppliedIsTrue
CHECK_DEADLOCK FALSE

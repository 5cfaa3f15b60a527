CONSTANTS
    None = None
    Same = Same
    Actions = {x, y}
    Delay = 0
    Redundancy = 3
    HistoryDepth = 2
    MaxRollback = 2
    Lookahead = 3
    Overtaking = {"client"}
    MaxInFlight = 2
    MaxInputTick = 4
    Gone = Gone
    Unchanged = Unchanged
    NoState = NoState
    Keep = Keep
    PredEntities = {e1, e2}
    PredValues = {va, vb}
    Acts = {Keep, vb}
    MaxChanges = 2
    RollbackLimit = 2
    MaxServerTick = 2
    MaxClientTick = 4
    MaxEffort = 6
    SpawnSettings <- MCSettings
    ReplayLimit = 2
    EnableAfter = 1
    ExpireAfter = 1
    MaxStep = 4
    MaxActs = 3
    MaxShift = 1
    WindowPeers = {p1, p2}
    MaxPredicted = 1
    WindowDelay = 0
    WindowRedundancy = 3
    TicksPerFrame = 1
    MaxWindowTick = 5
    NoInputYet = NoInputYet
SPECIFICATION SimulationSpec
SYMMETRY AnyEntity
INVARIANTS InputsAreTrue WindowRespected NoInputGap SpawnsSound
PROPERTIES Reconciled FrontierAdvances
CHECK_DEADLOCK FALSE

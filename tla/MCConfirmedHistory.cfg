CONSTANTS
    Gone = Gone
    Unchanged = Unchanged
    NoState = NoState
    Keep = Keep
    PredEntities = {e1}
    PredValues = {va, vb}
    Acts = {Keep, vb}
    MaxChanges = 2
    RollbackLimit = 2
    MaxServerTick = 3
    MaxClientTick = 2
SPECIFICATION PredSpec
INVARIANTS ConfirmedExact
CHECK_DEADLOCK FALSE

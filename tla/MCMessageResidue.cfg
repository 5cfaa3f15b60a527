CONSTANTS
    MaxPending = 2
    MaxLag = 1
    Unserializable = {1}
    MaxMessages = 4
    MaxMsgTick = 2
    MaxEpochs = 2
SPECIFICATION MsgSpec
INVARIANTS OneMessagePerPayload
CHECK_DEADLOCK FALSE

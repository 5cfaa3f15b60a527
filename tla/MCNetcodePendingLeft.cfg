SPECIFICATION NetcodeSpec
CONSTANTS
    Clients = {"a"}
    TokensOf <- TwoInTurn
    IdOf <- IdPerClient
    Refused = {}
    MaxClients = 1
    MaxLinks = 2
    MaxBatch = 1
    MaxTokens = 2
    ReuseTokens = FALSE
INVARIANT PendingIsLive

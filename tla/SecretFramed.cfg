CONSTANTS
    c1 = c1
    v1 = v1
    v2 = v2
    v3 = v3
    n1 = n1
    Convs = {c1, c2}
    Values = {v1, v2, v3}
    Names = {n1}
    NatSetups <- All
    StreamTokens <- Minted
    StreamValue <- Places
    StreamSymbols <- Letters
    MaxText = 4
    MaxChunk = 3
    Setups <- AllSetups
    Replies <- Sent
    MaxAttempts = 2
    BaseDelay = 5
    MaxDelay = 8
    Statuses = {204, 400, 401, 429, 503}
    RetryAfters = {0, 20}
SPECIFICATION CSpec
INVARIANTS StreamEqualsWhole
CHECK_DEADLOCK FALSE

SPECIFICATION LiveSpec
CONSTANTS
    Setups <- OnlyResponses
    Replies <- Sent
    MaxAttempts = 2
    BaseDelay = 5
    MaxDelay = 8
    Statuses = {204, 400, 401, 429, 503}
    RetryAfters = {0, 20}
INVARIANTS InputsValid
CHECK_DEADLOCK FALSE

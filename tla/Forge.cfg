\* Two calls that renew a token; stream sessions that overflow, expire and are stopped.
CONSTANTS
    owner = owner
    other = other
    first = first
    second = second
    NoSession = none
    Ids = {first, second}
    Callers = {owner, other}
    Limits <- RingsAndLives
    MaxSessions = 1
    MaxBytes = 4
    MaxFrameBytes = 2
    MarkerBytes = 1
    PollBytes = 3
    IdleTTL = 1
    MaxItems = 3
    Calls = {owner, other}
    Setups <- Kinds
    MaxRetries = 1
    MaxTokens = 2
SPECIFICATION MCSpec
PROPERTIES TokensKept SessionsKept EverythingEnds
CHECK_DEADLOCK FALSE

\* An assistant turn with an empty text and attachments, converted to neutral turns and back.
SPECIFICATION MCSpec
CONSTANTS
    CallLists <- Two
    Models = {"m1", "m2"}
    Hard = 5
    Target = 3
    KeepRecent = 2
    MaxIter = 2
    MaxTasks = 2
    MaxLegs = 2
    ForkTurns <- Fork
    Crashes = TRUE
INVARIANTS ContentKept
CHECK_DEADLOCK FALSE

\* Interrupts, trims, compactions, forks, model changes, crashes and restarts, in every order; every short conversation on the wire.
SPECIFICATION MCSpec
CONSTANTS
    CallLists <- Two
    Models = {"m1", "m2"}
    Hard = 5
    Target = 3
    KeepRecent = 2
    MaxIter = 2
    MaxTasks = 2
    MaxLegs = 2
    ForkTurns <- Fork
    Crashes = TRUE
INVARIANTS ConversationWhole PauseDurable SameOnTheWire RequestWellFormed
PROPERTIES TaskKept
CHECK_DEADLOCK FALSE

\* Prompts, cancels, a fork and the armed budgets, with orchestrators that may fail to spawn.
CONSTANTS
    MaxIterations = 1
    Budget <- AllBudgets
    Cost = {1}
    SpawnOutcome = {TRUE, FALSE}
    MaxPrompts = 2
    MaxArms = 1
    MaxForks = 1
    MaxLegs = 5
SPECIFICATION LiveSpec
INVARIANTS ControlKept WorkKept ForkClean FinalizerOnce
PROPERTIES LegsAndRunsEnd QueuedStarts
CHECK_DEADLOCK FALSE

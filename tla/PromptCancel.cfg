\* A cancel that arrives behind the completion of an armed leg.
SPECIFICATION Spec
CONSTANTS
    MaxIterations = 1
    Budget <- StepBudget
    Cost = {0}
    SpawnOutcome = {TRUE}
    MaxPrompts = 1
    MaxArms = 1
    MaxForks = 0
    MaxLegs = 4
INVARIANTS
    CancelStops
CHECK_DEADLOCK FALSE

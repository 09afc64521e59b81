CONSTANTS
    MaxTurns = 2
    MaxSteps = 1
    MaxCalls = 2
    Rounds <- MoreRounds
    MaxDisturbances = 0
    Disturbances = {}
    Summaries = TRUE
    Ticks <- Seconds
SPECIFICATION Spec
INVARIANT RequestPaired
CHECK_DEADLOCK FALSE

CONSTANTS
    MaxTurns = 3
    MaxSteps = 1
    MaxCalls = 2
    Rounds <- FewRounds
    MaxDisturbances = 1
    Disturbances <- AllDisturbances
    Summaries = TRUE
    Ticks <- Seconds
SPECIFICATION Spec
INVARIANTS
    LogSound
    RequestAnswered
    UsersKept
    HiddenSummarised
    PendingLive
    StoreAgrees
CHECK_DEADLOCK FALSE
CONSTRAINT ForcedBetween

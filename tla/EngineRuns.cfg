CONSTANTS
    MaxIterations = 2
    LoopHooks <- MCLoopHooks
    Visioning = TRUE
    MaxCalls = 2
    MaxResumes = 1
SPECIFICATION RunSpec
INVARIANTS
    RecordSound
    UsageOfOwnCall
    ImageFollows
    OutcomeTrue
CHECK_DEADLOCK FALSE

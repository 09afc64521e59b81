CONSTANTS
    None = None
    Continue = Continue
    Tasks = {t1, t2}
    Sessions = {s1, s2}
    Mains = {m1, m2}
    Texts = {x1}
    Profiles = {p1}
    ExplicitIds = {}
    SlotCap = 1
    FailLimit = 1
    AnchorLimit = 2
    StoreFails = TRUE
    Panics = TRUE
    MaxRestarts = 1
    Outcomes <- AllOutcomes
SPECIFICATION FairSpec
INVARIANTS
    OneClaimPerSession
PROPERTIES
    AllComesBack
    ServiceSpec
    SettledIsFinal
CHECK_DEADLOCK FALSE

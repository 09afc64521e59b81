CONSTANTS
    None = None
    Continue = Continue
    Tasks = {t1, t2, t3}
    Sessions = {s1, s2}
    Mains = {m1}
    Texts = {x1, x2}
    Profiles = {p1}
    ExplicitIds = {s1, s2}
    SlotCap = 2
    FailLimit = 2
    AnchorLimit = 2
    StoreFails = FALSE
    Panics = TRUE
    MaxRestarts = 1
    Outcomes <- Exhaustion
SYMMETRY Symmetry
SPECIFICATION Spec
INVARIANTS
    HoldingsOwned
    OneRunPerSession
    ContinuesSomething
PROPERTIES
    AnchorConverges
CHECK_DEADLOCK FALSE

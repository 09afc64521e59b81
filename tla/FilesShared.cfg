CONSTANTS
    Sessions = {s1, s2}
    Trackers = {s1}
    Paths = {p1}
    Marks = {0,1,2}
    NoFile = NoFile
    Settled = Settled
    MaxFaults = 1
    Faults = {"backup","remove","restore","save","load"}
    EarlyCalls = FALSE
    SeveralFiles = FALSE
    MaxNow = 3
    MaxStale = 1
    MaxDedup = 1
    WritesFail = TRUE
SPECIFICATION Spec
INVARIANTS
    NothingUnnoticed
    TrackingSound
PROPERTIES
    UndoRestores
CHECK_DEADLOCK FALSE
CONSTRAINT UntilRaced

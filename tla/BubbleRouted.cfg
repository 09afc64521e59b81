CONSTANTS
    None = None
    Subs = {s1, s2}
    Mains = {m1}
    Runs = {n1, n2}
    Requests = {r1, r2}
    MaxWords = 1

SPECIFICATION FairSpec
INVARIANTS
    RegistrySound
    VerdictForSession
PROPERTIES
    WaitsEnd
CHECK_DEADLOCK FALSE
